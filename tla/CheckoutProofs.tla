--------------------------- MODULE CheckoutProofs ---------------------------
(***************************************************************************)
(* Theorems about Checkout for any number of orders and any set of         *)
(* cancellers: the inductive invariant CheckoutInv, that a charge never    *)
(* lands on a cancelled order, that credit is never stranded, and that     *)
(* Checkout implements Purchase.                                           *)
(***************************************************************************)
EXTENDS Checkout, TLAPS

\* What a checkout request notes about its cart stays a note of that type.
LEMMA CarryTyped ==
  ASSUME carry \in [Orders -> Carries], NEW o \in Orders
  PROVE  /\ [carry EXCEPT ![o].settled = TRUE] \in [Orders -> Carries]
         /\ [carry EXCEPT ![o].mayRetry = FALSE] \in [Orders -> Carries]
  BY DEF Carries

\* Every step keeps every variable in its type.
LEMMA TypeStep == TypeOK /\ CartStaysDead /\ [Next]_vars => TypeOK'
<1> SUFFICES ASSUME TypeOK, CartStaysDead, [Next]_vars PROVE TypeOK'
  OBVIOUS
<1> USE CheckoutAssumptions DEF TypeOK, dbVars, requestVars, eventVars,
        OrderStatuses, PIStatuses, EventTypes, Steps, BeforeOrder, InFlight,
        Tasks, IdleTask
<1>1. ASSUME NEW o \in Orders, CheckoutStep(o) PROVE TypeOK'
  <2>1. CASE \E p \in Orders \union {NoOrder} : StartCheckout(o, p)
    BY <2>1 DEF StartCheckout, Carries
  <2>2. CASE ReadCart(o)
    <3>1. carry' \in [Orders -> Carries]
      BY <2>2 DEF ReadCart, CartStaysDead, Carries
    <3>2. at' \in [Orders -> Steps]
      BY <2>2 DEF ReadCart
    <3> QED BY <2>2, <3>1, <3>2 DEF ReadCart
  <2>3. CASE SettleCart(o)
    <3>1. carry' \in [Orders -> Carries]
      <4>1. carry' = carry \/ carry' = [carry EXCEPT ![o].settled = TRUE]
        BY <2>3 DEF SettleCart
      <4>2. CASE carry' = carry
        BY <4>2
      <4>3. CASE carry' = [carry EXCEPT ![o].settled = TRUE]
        BY <4>3, CarryTyped
      <4> QED BY <4>1, <4>2, <4>3
    <3>2. at' \in [Orders -> Steps]
      BY <2>3 DEF SettleCart
    <3>3. pi' \in [Orders -> PIStatuses]
      BY <2>3 DEF SettleCart, ProvenDead, StillAlive, Unreachable
    <3> QED BY <2>3, <3>1, <3>2, <3>3 DEF SettleCart
  <2>4. CASE ResettleCart(o)
    <3>1. carry' \in [Orders -> Carries]
      <4>1. carry' = [carry EXCEPT ![o].mayRetry = FALSE]
        BY <2>4 DEF ResettleCart
      <4> QED BY <4>1, CarryTyped
    <3>2. at' \in [Orders -> Steps]
      BY <2>4 DEF ResettleCart
    <3> QED BY <2>4, <3>1, <3>2 DEF ResettleCart
  <2>5. CASE CommitCheckout(o)
    BY <2>5 DEF CommitCheckout, OrdersAfter, CreditFor, CreditWithout,
                CartRetired, CanCancelPending
  <2>6. CASE CommitCovered(o)
    BY <2>6 DEF CommitCovered, OrdersAfter, CreditFor, CreditWithout,
                CartRetired, CanCancelPending
  <2>7. CASE RefuseCheckout(o)
    BY <2>7 DEF RefuseCheckout
  <2>8. CASE CreatePaymentIntent(o)
    BY <2>8 DEF CreatePaymentIntent
  <2>9. CASE LinkPaymentIntent(o)
    BY <2>9 DEF LinkPaymentIntent
  <2>10. CASE LinkLost(o)
    BY <2>10 DEF LinkLost
  <2>11. CASE Respond(o)
    BY <2>11 DEF Respond
  <2>12. CASE UnwindPaymentIntent(o)
    BY <2>12 DEF UnwindPaymentIntent, ProvenDead, StillAlive, Unreachable
  <2>13. CASE UnwindOrder(o)
    BY <2>13 DEF UnwindOrder, ReleaseRetiredCartHolds, CreditWithout
  <2>14. CASE CheckoutDies(o)
    BY <2>14 DEF CheckoutDies, InFlight
  <2> QED BY <1>1, <2>1, <2>2, <2>3, <2>4, <2>5, <2>6, <2>7, <2>8, <2>9, <2>10,
     <2>11, <2>12, <2>13, <2>14 DEF CheckoutStep
<1>2. ASSUME NEW o \in Orders, ProcessorStep(o) PROVE TypeOK'
  <2>1. CASE PayByCard(o)
    BY <2>1 DEF PayByCard, SecretOut, Emit
  <2>2. CASE DeclineCard(o)
    BY <2>2 DEF DeclineCard, SecretOut, Emit
  <2>3. CASE PayByBank(o)
    BY <2>3 DEF PayByBank, SecretOut, Emit
  <2>4. CASE BankSettles(o)
    BY <2>4 DEF BankSettles, Emit
  <2>5. CASE BankReturns(o)
    BY <2>5 DEF BankReturns, Emit
  <2> QED BY <1>2, <2>1, <2>2, <2>3, <2>4, <2>5 DEF ProcessorStep
<1>3. ASSUME NEW o \in Orders, ServerStep(o) PROVE TypeOK'
  <2>1. CASE \E again \in BOOLEAN : OnProcessing(o, again)
    <3>0. PICK again \in BOOLEAN : OnProcessing(o, again)
      BY <2>1
    <3>1. order' \in [Orders -> OrderStatuses] /\ linked' \in [Orders ->
       BOOLEAN]
      BY <3>0 DEF OnProcessing
    <3>2. inbox' \in [Orders -> SUBSET EventTypes]
      BY <3>0 DEF OnProcessing, Taken
    <3> QED BY <3>0, <3>1, <3>2 DEF OnProcessing
  <2>2. CASE \E again \in BOOLEAN : OnSucceeded(o, again)
    <3>0. PICK again \in BOOLEAN : OnSucceeded(o, again)
      BY <2>2
    <3>1. order' \in [Orders -> OrderStatuses] /\ linked' \in [Orders ->
       BOOLEAN]
      BY <3>0 DEF OnSucceeded, Finalize
    <3>2. inbox' \in [Orders -> SUBSET EventTypes]
      BY <3>0 DEF OnSucceeded, Taken
    <3> QED BY <3>0, <3>1, <3>2 DEF OnSucceeded, Finalize
  <2>3. CASE \E again \in BOOLEAN : OnPaymentFailed(o, again)
    BY <2>3 DEF OnPaymentFailed, Taken, Begin, IsOpen
  <2>4. CASE \E e \in EventTypes : DeadLetter(o, e)
    BY <2>4 DEF DeadLetter
  <2>5. CASE \E e \in EventTypes : ReplayDlq(o, e)
    BY <2>5 DEF ReplayDlq, Emit
  <2>6. CASE ConfirmPaid(o)
    BY <2>6 DEF ConfirmPaid, SecretOut, Finalize, Finalizable, IsOpen
  <2>7. CASE ConfirmReads(o)
    BY <2>7 DEF ConfirmReads, SecretOut
  <2>8. CASE ConfirmMarks(o)
    BY <2>8 DEF ConfirmMarks
  <2> QED BY <1>3, <2>1, <2>2, <2>3, <2>4, <2>5, <2>6, <2>7, <2>8
        DEF ServerStep
<1>4. ASSUME NEW o \in Orders, Expire(o) \/ ReaperScans(o) \/ BeaconReads(o) \/
   SiblingScans(o) PROVE TypeOK'
  BY <1>4 DEF Expire, ReaperScans, BeaconReads, SiblingScans, Begin
<1>5. ASSUME NEW c \in Cancellers, TaskSettles(c) \/ TaskRefused(c) \/
   TaskUnreachable(c) \/ TaskCommits(c) \/ TaskDies(c) PROVE TypeOK'
  <2>1. CASE TaskSettles(c)
    BY <2>1 DEF TaskSettles, ProvenDead, NeedsProcessor
  <2>2. CASE TaskRefused(c)
    BY <2>2 DEF TaskRefused, StillAlive, NeedsProcessor
  <2>3. CASE TaskUnreachable(c)
    BY <2>3 DEF TaskUnreachable, Unreachable, NeedsProcessor
  <2>4. CASE TaskCommits(c)
    BY <2>4 DEF TaskCommits, CasWins, CanCancelPending,
                ReleaseRetiredCartHolds, CreditWithout
  <2>5. CASE TaskDies(c)
    BY <2>5 DEF TaskDies, Emit
  <2> QED BY <1>5, <2>1, <2>2, <2>3, <2>4, <2>5 DEF Next
<1>6. CASE UNCHANGED vars
  BY <1>6 DEF vars
<1> QED BY <1>1, <1>2, <1>3, <1>4, <1>5, <1>6 DEF Next, CancelStep

-----------------------------------------------------------------------------
\* No step disturbs what holds between an order, its checkout request and its
\* PaymentIntent.
LEMMA PaymentStep == CheckoutInv /\ [Next]_vars => PaymentInv'
<1> SUFFICES ASSUME CheckoutInv, [Next]_vars PROVE PaymentInv'
  OBVIOUS
<1> USE CheckoutAssumptions
    DEF CheckoutInv, TypeOK, PaymentInv, PaymentNeedsSecret, SecretNeedsLink,
        LinkedIsDead, TicketsArePaid, EventsAreTrue, OrderBeforePayment,
        KnowledgeInv, SettledStaysDead, CartStaysDead, SecretOut,
        NeedsProcessor, BeforeOrder, dbVars, requestVars, eventVars
<1>1. ASSUME NEW o \in Orders, CheckoutStep(o) PROVE PaymentInv'
  <2>1. CASE \E p \in Orders \union {NoOrder} : StartCheckout(o, p)
    BY <2>1 DEF StartCheckout
  <2>2. CASE ReadCart(o)
    BY <2>2 DEF ReadCart
  <2>3. CASE SettleCart(o)
    BY <2>3 DEF SettleCart, ProvenDead, StillAlive, Unreachable
  <2>4. CASE ResettleCart(o)
    BY <2>4 DEF ResettleCart, CartChanged, CartRetired
  <2>5. CASE CommitCheckout(o)
    BY <2>5 DEF CommitCheckout, OrdersAfter, CreditFor, CreditWithout,
                CartRetired, CanCancelPending
  <2>6. CASE CommitCovered(o)
    BY <2>6 DEF CommitCovered, OrdersAfter, CreditFor, CreditWithout,
                CartRetired, CanCancelPending
  <2>7. CASE RefuseCheckout(o)
    BY <2>7 DEF RefuseCheckout
  <2>8. CASE CreatePaymentIntent(o)
    BY <2>8 DEF CreatePaymentIntent
  <2>9. CASE LinkPaymentIntent(o)
    BY <2>9 DEF LinkPaymentIntent
  <2>10. CASE LinkLost(o)
    BY <2>10 DEF LinkLost
  <2>11. CASE Respond(o)
    BY <2>11 DEF Respond
  <2>12. CASE UnwindPaymentIntent(o)
    BY <2>12 DEF UnwindPaymentIntent, ProvenDead, StillAlive, Unreachable
  <2>13. CASE UnwindOrder(o)
    BY <2>13 DEF UnwindOrder, ReleaseRetiredCartHolds, CreditWithout
  <2>14. CASE CheckoutDies(o)
    BY <2>14 DEF CheckoutDies, InFlight
  <2> QED BY <1>1, <2>1, <2>2, <2>3, <2>4, <2>5, <2>6, <2>7, <2>8, <2>9, <2>10,
     <2>11, <2>12, <2>13, <2>14 DEF CheckoutStep
<1>2. ASSUME NEW o \in Orders, ProcessorStep(o) PROVE PaymentInv'
  <2>1. CASE PayByCard(o)
    BY <2>1 DEF PayByCard, SecretOut, Emit
  <2>2. CASE DeclineCard(o)
    BY <2>2 DEF DeclineCard, SecretOut, Emit
  <2>3. CASE PayByBank(o)
    BY <2>3 DEF PayByBank, SecretOut, Emit
  <2>4. CASE BankSettles(o)
    BY <2>4 DEF BankSettles, Emit
  <2>5. CASE BankReturns(o)
    BY <2>5 DEF BankReturns, Emit
  <2> QED BY <1>2, <2>1, <2>2, <2>3, <2>4, <2>5 DEF ProcessorStep
<1>3. ASSUME NEW o \in Orders, ServerStep(o) PROVE PaymentInv'
  <2>1. CASE \E again \in BOOLEAN : OnProcessing(o, again)
    BY <2>1 DEF OnProcessing, Taken
  <2>2. CASE \E again \in BOOLEAN : OnSucceeded(o, again)
    BY <2>2 DEF OnSucceeded, Taken, Finalize, Finalizable, IsOpen
  <2>3. CASE \E again \in BOOLEAN : OnPaymentFailed(o, again)
    BY <2>3 DEF OnPaymentFailed, Taken, Begin, IsOpen
  <2>4. CASE \E e \in EventTypes : DeadLetter(o, e)
    BY <2>4 DEF DeadLetter
  <2>5. CASE \E e \in EventTypes : ReplayDlq(o, e)
    BY <2>5 DEF ReplayDlq, Emit
  <2>6. CASE ConfirmPaid(o)
    BY <2>6 DEF ConfirmPaid, SecretOut, Finalize, Finalizable, IsOpen
  <2>7. CASE ConfirmReads(o)
    BY <2>7 DEF ConfirmReads, SecretOut
  <2>8. CASE ConfirmMarks(o)
    BY <2>8 DEF ConfirmMarks
  <2> QED BY <1>3, <2>1, <2>2, <2>3, <2>4, <2>5, <2>6, <2>7, <2>8
        DEF ServerStep
<1>4. ASSUME NEW o \in Orders,
            Expire(o) \/ ReaperScans(o) \/ BeaconReads(o) \/ SiblingScans(o)
     PROVE  PaymentInv'
  BY <1>4 DEF Expire, ReaperScans, BeaconReads, SiblingScans, Begin
<1>5. ASSUME NEW c \in Cancellers,
            TaskSettles(c) \/ TaskRefused(c) \/ TaskUnreachable(c)
              \/ TaskCommits(c) \/ TaskDies(c)
     PROVE  PaymentInv'
  <2>1. CASE TaskSettles(c)
    BY <2>1 DEF TaskSettles, ProvenDead, NeedsProcessor
  <2>2. CASE TaskRefused(c)
    BY <2>2 DEF TaskRefused, StillAlive, NeedsProcessor
  <2>3. CASE TaskUnreachable(c)
    BY <2>3 DEF TaskUnreachable, Unreachable, NeedsProcessor
  <2>4. CASE TaskCommits(c)
    BY <2>4 DEF TaskCommits, CasWins, CanCancelPending,
                ReleaseRetiredCartHolds, CreditWithout
  <2>5. CASE TaskDies(c)
    BY <2>5 DEF TaskDies, Emit
  <2> QED BY <1>5, <2>1, <2>2, <2>3, <2>4, <2>5 DEF Next
<1>6. CASE UNCHANGED vars
  BY <1>6 DEF vars
<1> QED BY <1>1, <1>2, <1>3, <1>4, <1>5, <1>6 DEF Next, CancelStep

-----------------------------------------------------------------------------
\* A canceled PaymentIntent stays canceled: nothing confirms it, and the only
\* step that creates one finds none.
LEMMA DeadStep ==
  TypeOK /\ OrderBeforePayment /\ [Next]_vars
    => \A o \in Orders : pi[o] = "canceled" => pi'[o] = "canceled"
<1> SUFFICES ASSUME TypeOK, OrderBeforePayment, [Next]_vars,
                    NEW q \in Orders, pi[q] = "canceled"
             PROVE  pi'[q] = "canceled"
  OBVIOUS
<1> USE DEF TypeOK, OrderBeforePayment, dbVars, requestVars, eventVars
<1>1. ASSUME NEW o \in Orders, CheckoutStep(o)
     PROVE  pi'[q] = "canceled"
  <2>1. CASE \E p \in Orders \union {NoOrder} : StartCheckout(o, p)
    BY <2>1 DEF StartCheckout
  <2>2. CASE ReadCart(o)
    BY <2>2 DEF ReadCart
  <2>3. CASE SettleCart(o)
    BY <2>3 DEF SettleCart, ProvenDead, StillAlive, Unreachable
  <2>4. CASE ResettleCart(o)
    BY <2>4 DEF ResettleCart, CartChanged, CartRetired
  <2>5. CASE CommitCheckout(o)
    BY <2>5 DEF CommitCheckout, OrdersAfter, CreditFor, CreditWithout,
                CartRetired, CanCancelPending
  <2>6. CASE CommitCovered(o)
    BY <2>6 DEF CommitCovered, OrdersAfter, CreditFor, CreditWithout,
                CartRetired, CanCancelPending
  <2>7. CASE RefuseCheckout(o)
    BY <2>7 DEF RefuseCheckout
  <2>8. CASE CreatePaymentIntent(o)
    BY <2>8 DEF CreatePaymentIntent
  <2>9. CASE LinkPaymentIntent(o)
    BY <2>9 DEF LinkPaymentIntent
  <2>10. CASE LinkLost(o)
    BY <2>10 DEF LinkLost
  <2>11. CASE Respond(o)
    BY <2>11 DEF Respond
  <2>12. CASE UnwindPaymentIntent(o)
    BY <2>12 DEF UnwindPaymentIntent, ProvenDead, StillAlive, Unreachable
  <2>13. CASE UnwindOrder(o)
    BY <2>13 DEF UnwindOrder, ReleaseRetiredCartHolds, CreditWithout
  <2>14. CASE CheckoutDies(o)
    BY <2>14 DEF CheckoutDies, InFlight
  <2> QED BY <1>1, <2>1, <2>2, <2>3, <2>4, <2>5, <2>6, <2>7, <2>8, <2>9, <2>10,
     <2>11, <2>12, <2>13, <2>14 DEF CheckoutStep
<1>2. ASSUME NEW o \in Orders, ProcessorStep(o)
     PROVE  pi'[q] = "canceled"
  <2>1. CASE PayByCard(o)
    BY <2>1 DEF PayByCard, SecretOut, Emit
  <2>2. CASE DeclineCard(o)
    BY <2>2 DEF DeclineCard, SecretOut, Emit
  <2>3. CASE PayByBank(o)
    BY <2>3 DEF PayByBank, SecretOut, Emit
  <2>4. CASE BankSettles(o)
    BY <2>4 DEF BankSettles, Emit
  <2>5. CASE BankReturns(o)
    BY <2>5 DEF BankReturns, Emit
  <2> QED BY <1>2, <2>1, <2>2, <2>3, <2>4, <2>5 DEF ProcessorStep
<1>3. ASSUME NEW o \in Orders, ServerStep(o) PROVE pi'[q] = "canceled"
  <2>1. CASE \E again \in BOOLEAN : OnProcessing(o, again)
    BY <2>1 DEF OnProcessing, Taken
  <2>2. CASE \E again \in BOOLEAN : OnSucceeded(o, again)
    BY <2>2 DEF OnSucceeded, Taken, Finalize, Finalizable, IsOpen
  <2>3. CASE \E again \in BOOLEAN : OnPaymentFailed(o, again)
    BY <2>3 DEF OnPaymentFailed, Taken, Begin, IsOpen
  <2>4. CASE \E e \in EventTypes : DeadLetter(o, e)
    BY <2>4 DEF DeadLetter
  <2>5. CASE \E e \in EventTypes : ReplayDlq(o, e)
    BY <2>5 DEF ReplayDlq, Emit
  <2>6. CASE ConfirmPaid(o)
    BY <2>6 DEF ConfirmPaid, SecretOut, Finalize, Finalizable, IsOpen
  <2>7. CASE ConfirmReads(o)
    BY <2>7 DEF ConfirmReads, SecretOut
  <2>8. CASE ConfirmMarks(o)
    BY <2>8 DEF ConfirmMarks
  <2> QED BY <1>3, <2>1, <2>2, <2>3, <2>4, <2>5, <2>6, <2>7, <2>8
        DEF ServerStep
<1>4. ASSUME NEW o \in Orders,
            Expire(o) \/ ReaperScans(o) \/ BeaconReads(o) \/ SiblingScans(o)
     PROVE  pi'[q] = "canceled"
  BY <1>4 DEF Expire, ReaperScans, BeaconReads, SiblingScans, Begin
<1>5. ASSUME NEW c \in Cancellers,
            TaskSettles(c) \/ TaskRefused(c) \/ TaskUnreachable(c)
              \/ TaskCommits(c) \/ TaskDies(c)
     PROVE  pi'[q] = "canceled"
  <2>1. CASE TaskSettles(c)
    BY <2>1 DEF TaskSettles, ProvenDead, NeedsProcessor
  <2>2. CASE TaskRefused(c)
    BY <2>2 DEF TaskRefused, StillAlive, NeedsProcessor
  <2>3. CASE TaskUnreachable(c)
    BY <2>3 DEF TaskUnreachable, Unreachable, NeedsProcessor
  <2>4. CASE TaskCommits(c)
    BY <2>4 DEF TaskCommits, CasWins, CanCancelPending,
                ReleaseRetiredCartHolds, CreditWithout
  <2>5. CASE TaskDies(c)
    BY <2>5 DEF TaskDies, Emit
  <2> QED BY <1>5, <2>1, <2>2, <2>3, <2>4, <2>5 DEF Next
<1>6. CASE UNCHANGED vars
  BY <1>6 DEF vars
<1> QED BY <1>1, <1>2, <1>3, <1>4, <1>5, <1>6 DEF Next, CancelStep

-----------------------------------------------------------------------------
\* What a checkout request learnt about the cart it supersedes stays true.
LEMMA CartStep == CheckoutInv /\ [Next]_vars => CartStaysDead'
<1> SUFFICES ASSUME CheckoutInv, [Next]_vars PROVE CartStaysDead'
  OBVIOUS
<1>d. \A o \in Orders : pi[o] = "canceled" => pi'[o] = "canceled"
  BY DeadStep DEF CheckoutInv, PaymentInv
<1> DEFINE Same(q) ==
      /\ carry'[q] = carry[q]
      /\ at'[q] \in {"reading", "settling", "ready"} => at'[q] = at[q]
<1> DEFINE Dead(q) ==
      /\ carry[q].cart # q
      /\ at[q] \in {"reading", "settling"} => carry[q].cart \in Orders
      /\ at[q] = "settling" => ~carry[q].settled
      /\ at[q] = "ready" /\ carry[q].cart # NoOrder /\ carry[q].settled
           /\ carry[q].observed => pi[carry[q].cart] = "canceled"
<1>s. ASSUME NEW q \in Orders, Same(q) PROVE Dead(q)'
  <2>1. carry[q].cart \in Orders \union {NoOrder}
    BY DEF CheckoutInv, TypeOK, Carries
  <2> QED BY <1>s, <1>d, <2>1 DEF CheckoutInv, KnowledgeInv, CartStaysDead
<1>k. CASE UNCHANGED <<at, carry>>
  BY <1>k, <1>s DEF CartStaysDead
<1> USE CheckoutAssumptions
    DEF CheckoutInv, KnowledgeInv, TypeOK, CartStaysDead, dbVars, requestVars,
        eventVars
<1>1. ASSUME NEW o \in Orders, CheckoutStep(o) PROVE CartStaysDead'
  <2>1. CASE \E p \in Orders \union {NoOrder} : StartCheckout(o, p)
    BY <2>1, <1>d DEF StartCheckout, NoCart
  <2>2. CASE ReadCart(o)
    <3>1. \A q \in Orders \ {o} : Same(q)
      BY <2>2 DEF ReadCart
    <3>2. Dead(o)'
      <4>1. carry'[o].cart # o
        BY <2>2 DEF ReadCart, Carries
      <4>2. /\ at'[o] \in {"reading", "settling"} => carry'[o].cart \in Orders
            /\ at'[o] = "settling" => ~carry'[o].settled
        BY <2>2 DEF ReadCart, Carries
      <4>3. at'[o] = "ready" /\ carry'[o].cart # NoOrder /\ carry'[o].settled
              /\ carry'[o].observed => pi'[carry'[o].cart] = "canceled"
        BY <2>2, <1>d DEF ReadCart, Carries
      <4> QED BY <4>1, <4>2, <4>3
    <3> QED BY <3>1, <3>2, <1>s
  <2>3. CASE SettleCart(o)
    <3>1. \A q \in Orders \ {o} : Same(q)
      BY <2>3 DEF SettleCart
    <3>2. Dead(o)'
      <4>1. carry'[o].cart # o
        BY <2>3 DEF SettleCart, Carries
      <4>2. /\ at'[o] \in {"reading", "settling"} => carry'[o].cart \in Orders
            /\ at'[o] = "settling" => ~carry'[o].settled
        BY <2>3 DEF SettleCart, Carries
      <4>3. at'[o] = "ready" /\ carry'[o].cart # NoOrder /\ carry'[o].settled
              /\ carry'[o].observed => pi'[carry'[o].cart] = "canceled"
        BY <2>3, <1>d DEF SettleCart, ProvenDead, Carries
      <4> QED BY <4>1, <4>2, <4>3
    <3> QED BY <3>1, <3>2, <1>s
  <2>4. CASE ResettleCart(o)
    <3>1. \A q \in Orders \ {o} : Same(q)
      BY <2>4 DEF ResettleCart
    <3>2. Dead(o)'
      <4>1. carry'[o].cart # o
        BY <2>4 DEF ResettleCart, Carries
      <4>2. /\ at'[o] \in {"reading", "settling"} => carry'[o].cart \in Orders
            /\ at'[o] = "settling" => ~carry'[o].settled
        BY <2>4 DEF ResettleCart, CartChanged, Carries
      <4>3. at'[o] = "ready" /\ carry'[o].cart # NoOrder /\ carry'[o].settled
              /\ carry'[o].observed => pi'[carry'[o].cart] = "canceled"
        BY <2>4, <1>d DEF ResettleCart, Carries
      <4> QED BY <4>1, <4>2, <4>3
    <3> QED BY <3>1, <3>2, <1>s
  <2>5. CASE CommitCheckout(o)
    BY <2>5, <1>d DEF CommitCheckout, OrdersAfter, CreditFor, CreditWithout,
                      CartRetired, CanCancelPending
  <2>6. CASE CommitCovered(o)
    BY <2>6, <1>d DEF CommitCovered, OrdersAfter, CreditFor, CreditWithout,
                      CartRetired, CanCancelPending
  <2>7. CASE RefuseCheckout(o)
    BY <2>7, <1>d DEF RefuseCheckout
  <2>8. CASE CreatePaymentIntent(o)
    <3>1. \A q \in Orders : Same(q)
      BY <2>8 DEF CreatePaymentIntent
    <3> QED BY <3>1, <1>s
  <2>9. CASE LinkPaymentIntent(o)
    BY <2>9, <1>d DEF LinkPaymentIntent
  <2>10. CASE LinkLost(o)
    BY <2>10, <1>d DEF LinkLost
  <2>11. CASE Respond(o)
    BY <2>11, <1>d DEF Respond
  <2>12. CASE UnwindPaymentIntent(o)
    <3>1. \A q \in Orders : Same(q)
      BY <2>12 DEF UnwindPaymentIntent
    <3> QED BY <3>1, <1>s
  <2>13. CASE UnwindOrder(o)
    BY <2>13, <1>d DEF UnwindOrder, ReleaseRetiredCartHolds, CreditWithout
  <2>14. CASE CheckoutDies(o)
    BY <2>14, <1>d DEF CheckoutDies, InFlight
  <2> QED BY <1>1, <2>1, <2>2, <2>3, <2>4, <2>5, <2>6, <2>7, <2>8, <2>9, <2>10,
     <2>11, <2>12, <2>13, <2>14 DEF CheckoutStep
<1>2. ASSUME NEW o \in Orders, ProcessorStep(o) PROVE UNCHANGED <<at, carry>>
  BY <1>2 DEF ProcessorStep, PayByCard, DeclineCard, PayByBank, BankSettles,
              BankReturns
<1>3. ASSUME NEW o \in Orders, ServerStep(o) PROVE UNCHANGED <<at, carry>>
  BY <1>3 DEF ServerStep, OnProcessing, OnSucceeded, OnPaymentFailed,
              DeadLetter, ReplayDlq, ConfirmPaid, ConfirmReads, ConfirmMarks
<1>4. ASSUME CancelStep PROVE UNCHANGED <<at, carry>>
  BY <1>4 DEF CancelStep, Expire, ReaperScans, BeaconReads, SiblingScans,
              TaskSettles, TaskRefused, TaskUnreachable, TaskCommits, TaskDies
<1>5. CASE UNCHANGED vars
  BY <1>5, <1>k DEF vars
<1> QED BY <1>1, <1>2, <1>3, <1>4, <1>5, <1>k DEF Next

-----------------------------------------------------------------------------
\* What a canceller learnt from the processor stays true until it commits.
LEMMA TaskStep == CheckoutInv /\ [Next]_vars => SettledStaysDead'
<1> SUFFICES ASSUME CheckoutInv, [Next]_vars PROVE SettledStaysDead'
  OBVIOUS
<1>d. \A o \in Orders : pi[o] = "canceled" => pi'[o] = "canceled"
  BY DeadStep DEF CheckoutInv, PaymentInv
<1> USE CheckoutAssumptions
    DEF CheckoutInv, KnowledgeInv, SettledStaysDead, NeedsProcessor, TypeOK,
        Tasks, IdleTask, dbVars, requestVars, eventVars
<1>k. CASE UNCHANGED task
  BY <1>k, <1>d
<1>1. ASSUME NEW o \in Orders, CheckoutStep(o) PROVE UNCHANGED task
  BY <1>1 DEF CheckoutStep, StartCheckout, ReadCart, SettleCart, ResettleCart,
              CommitCheckout, CommitCovered, RefuseCheckout,
              CreatePaymentIntent, LinkPaymentIntent, LinkLost, Respond,
              UnwindPaymentIntent, UnwindOrder, CheckoutDies
<1>2. ASSUME NEW o \in Orders, ProcessorStep(o) PROVE UNCHANGED task
  BY <1>2 DEF ProcessorStep, PayByCard, DeclineCard, PayByBank, BankSettles,
              BankReturns
<1>3. ASSUME NEW o \in Orders, ServerStep(o) PROVE SettledStaysDead'
  <2>1. CASE \E again \in BOOLEAN : OnProcessing(o, again)
    BY <2>1, <1>d, <1>k DEF OnProcessing, Taken
  <2>2. CASE \E again \in BOOLEAN : OnSucceeded(o, again)
    BY <2>2, <1>d, <1>k DEF OnSucceeded, Taken, Finalize, Finalizable, IsOpen
  <2>3. CASE \E again \in BOOLEAN : OnPaymentFailed(o, again)
    BY <2>3, <1>d, <1>k DEF OnPaymentFailed, Taken, Begin, IsOpen
  <2>4. CASE \E e \in EventTypes : DeadLetter(o, e)
    BY <2>4, <1>d, <1>k DEF DeadLetter
  <2>5. CASE \E e \in EventTypes : ReplayDlq(o, e)
    BY <2>5, <1>d, <1>k DEF ReplayDlq, Emit
  <2>6. CASE ConfirmPaid(o)
    BY <2>6, <1>d, <1>k DEF ConfirmPaid, SecretOut, Finalize, Finalizable,
                            IsOpen
  <2>7. CASE ConfirmReads(o)
    BY <2>7, <1>d, <1>k DEF ConfirmReads, SecretOut
  <2>8. CASE ConfirmMarks(o)
    BY <2>8, <1>d, <1>k DEF ConfirmMarks
  <2> QED BY <1>3, <2>1, <2>2, <2>3, <2>4, <2>5, <2>6, <2>7, <2>8
        DEF ServerStep
<1>4. ASSUME NEW o \in Orders,
            Expire(o) \/ ReaperScans(o) \/ BeaconReads(o) \/ SiblingScans(o)
     PROVE  SettledStaysDead'
  BY <1>4, <1>d, <1>k DEF Expire, ReaperScans, BeaconReads, SiblingScans, Begin
<1>5. ASSUME NEW c \in Cancellers,
            TaskSettles(c) \/ TaskRefused(c) \/ TaskUnreachable(c)
              \/ TaskCommits(c) \/ TaskDies(c)
     PROVE  SettledStaysDead'
  <2>1. CASE TaskSettles(c)
    BY <2>1, <1>d DEF TaskSettles, ProvenDead, NeedsProcessor
  <2>2. CASE TaskRefused(c)
    BY <2>2, <1>d DEF TaskRefused, StillAlive, NeedsProcessor
  <2>3. CASE TaskUnreachable(c)
    BY <2>3, <1>d DEF TaskUnreachable, Unreachable, NeedsProcessor
  <2>4. CASE TaskCommits(c)
    BY <2>4, <1>d DEF TaskCommits, CasWins, CanCancelPending,
                      ReleaseRetiredCartHolds, CreditWithout
  <2>5. CASE TaskDies(c)
    BY <2>5, <1>d DEF TaskDies, Emit
  <2> QED BY <1>5, <2>1, <2>2, <2>3, <2>4, <2>5 DEF Next
<1>6. CASE UNCHANGED vars
  BY <1>6, <1>k DEF vars
<1> QED BY <1>1, <1>2, <1>3, <1>4, <1>5, <1>6, <1>k DEF Next, CancelStep

-----------------------------------------------------------------------------
\* The initial state satisfies the inductive invariant ...
LEMMA InitInv == Init => CheckoutInv
  BY CheckoutAssumptions
     DEF Init, CheckoutInv, TypeOK, PaymentInv, PaymentNeedsSecret,
         SecretNeedsLink, LinkedIsDead, TicketsArePaid, EventsAreTrue,
         OrderBeforePayment, KnowledgeInv, SettledStaysDead, CartStaysDead,
         NeedsProcessor, SecretOut, OrderStatuses, PIStatuses, EventTypes,
         Steps, BeforeOrder, InFlight, Carries, NoCart, Tasks, IdleTask

\* ... and every step keeps it.
LEMMA InvStep == CheckoutInv /\ [Next]_vars => CheckoutInv'
<1> SUFFICES ASSUME CheckoutInv, [Next]_vars PROVE CheckoutInv'
  OBVIOUS
<1>1. TypeOK'
  BY TypeStep DEF CheckoutInv, KnowledgeInv
<1>2. PaymentInv'
  BY PaymentStep
<1>3. KnowledgeInv'
  BY CartStep, TaskStep DEF KnowledgeInv
<1> QED BY <1>1, <1>2, <1>3 DEF CheckoutInv

\* The inductive invariant holds in every reachable state, whatever the orders
\* and the cancellers that run.
THEOREM Invariance == Spec => []CheckoutInv
  BY InitInv, InvStep, PTL DEF Spec

\* The type invariant, which needs the rest: a checkout reads the row of the
\* cart it names, and there must be one.
THEOREM TypeCorrect == Spec => []TypeOK
<1>1. CheckoutInv => TypeOK
  BY DEF CheckoutInv
<1> QED BY <1>1, Invariance, PTL

\* A client secret that is out never pays for an order that was cancelled.
THEOREM NoChargeOnCancelledOrder == Spec => []CancelledIsDead
<1>1. CheckoutInv => CancelledIsDead
  BY DEF CheckoutInv, PaymentInv, LinkedIsDead, CancelledIsDead, SecretOut
<1> QED BY <1>1, Invariance, PTL

\* A step that cancels an order gives its credit back.
LEMMA CreditStep ==
  CheckoutInv /\ CreditNotStranded /\ [Next]_vars => CreditNotStranded'
<1> SUFFICES ASSUME CheckoutInv, CreditNotStranded, [Next]_vars
             PROVE  CreditNotStranded'
  OBVIOUS
<1> USE CheckoutAssumptions
    DEF CheckoutInv, KnowledgeInv, CartStaysDead, TypeOK, CreditNotStranded,
        IsOpen, OrderStatuses, dbVars, requestVars, eventVars
<1>1. ASSUME NEW o \in Orders, CheckoutStep(o)
     PROVE  CreditNotStranded'
  <2>1. CASE \E p \in Orders \union {NoOrder} : StartCheckout(o, p)
    BY <2>1 DEF StartCheckout
  <2>2. CASE ReadCart(o)
    BY <2>2 DEF ReadCart
  <2>3. CASE SettleCart(o)
    BY <2>3 DEF SettleCart, ProvenDead, StillAlive, Unreachable
  <2>4. CASE ResettleCart(o)
    BY <2>4 DEF ResettleCart, CartChanged, CartRetired
  <2>5. CASE CommitCheckout(o)
    BY <2>5 DEF CommitCheckout, OrdersAfter, CreditFor, CreditWithout,
                CartRetired, CanCancelPending
  <2>6. CASE CommitCovered(o)
    BY <2>6 DEF CommitCovered, OrdersAfter, CreditFor, CreditWithout,
                CartRetired, CanCancelPending
  <2>7. CASE RefuseCheckout(o)
    BY <2>7 DEF RefuseCheckout
  <2>8. CASE CreatePaymentIntent(o)
    BY <2>8 DEF CreatePaymentIntent
  <2>9. CASE LinkPaymentIntent(o)
    BY <2>9 DEF LinkPaymentIntent
  <2>10. CASE LinkLost(o)
    BY <2>10 DEF LinkLost
  <2>11. CASE Respond(o)
    BY <2>11 DEF Respond
  <2>12. CASE UnwindPaymentIntent(o)
    BY <2>12 DEF UnwindPaymentIntent, ProvenDead, StillAlive, Unreachable
  <2>13. CASE UnwindOrder(o)
    BY <2>13 DEF UnwindOrder, ReleaseRetiredCartHolds, CreditWithout
  <2>14. CASE CheckoutDies(o)
    BY <2>14 DEF CheckoutDies, InFlight
  <2> QED BY <1>1, <2>1, <2>2, <2>3, <2>4, <2>5, <2>6, <2>7, <2>8, <2>9, <2>10,
     <2>11, <2>12, <2>13, <2>14 DEF CheckoutStep
<1>2. ASSUME NEW o \in Orders, ProcessorStep(o)
     PROVE  CreditNotStranded'
  <2>1. CASE PayByCard(o)
    BY <2>1 DEF PayByCard, SecretOut, Emit
  <2>2. CASE DeclineCard(o)
    BY <2>2 DEF DeclineCard, SecretOut, Emit
  <2>3. CASE PayByBank(o)
    BY <2>3 DEF PayByBank, SecretOut, Emit
  <2>4. CASE BankSettles(o)
    BY <2>4 DEF BankSettles, Emit
  <2>5. CASE BankReturns(o)
    BY <2>5 DEF BankReturns, Emit
  <2> QED BY <1>2, <2>1, <2>2, <2>3, <2>4, <2>5 DEF ProcessorStep
<1>3. ASSUME NEW o \in Orders, ServerStep(o) PROVE CreditNotStranded'
  <2>1. CASE \E again \in BOOLEAN : OnProcessing(o, again)
    BY <2>1 DEF OnProcessing, Taken
  <2>2. CASE \E again \in BOOLEAN : OnSucceeded(o, again)
    BY <2>2 DEF OnSucceeded, Taken, Finalize, Finalizable, IsOpen
  <2>3. CASE \E again \in BOOLEAN : OnPaymentFailed(o, again)
    BY <2>3 DEF OnPaymentFailed, Taken, Begin, IsOpen
  <2>4. CASE \E e \in EventTypes : DeadLetter(o, e)
    BY <2>4 DEF DeadLetter
  <2>5. CASE \E e \in EventTypes : ReplayDlq(o, e)
    BY <2>5 DEF ReplayDlq, Emit
  <2>6. CASE ConfirmPaid(o)
    BY <2>6 DEF ConfirmPaid, SecretOut, Finalize, Finalizable, IsOpen
  <2>7. CASE ConfirmReads(o)
    BY <2>7 DEF ConfirmReads, SecretOut
  <2>8. CASE ConfirmMarks(o)
    BY <2>8 DEF ConfirmMarks
  <2> QED BY <1>3, <2>1, <2>2, <2>3, <2>4, <2>5, <2>6, <2>7, <2>8
        DEF ServerStep
<1>4. ASSUME NEW o \in Orders,
            Expire(o) \/ ReaperScans(o) \/ BeaconReads(o) \/ SiblingScans(o)
     PROVE  CreditNotStranded'
  BY <1>4 DEF Expire, ReaperScans, BeaconReads, SiblingScans, Begin
<1>5. ASSUME NEW c \in Cancellers,
            TaskSettles(c) \/ TaskRefused(c) \/ TaskUnreachable(c)
              \/ TaskCommits(c) \/ TaskDies(c)
     PROVE  CreditNotStranded'
  <2>1. CASE TaskSettles(c)
    BY <2>1 DEF TaskSettles, ProvenDead, NeedsProcessor
  <2>2. CASE TaskRefused(c)
    BY <2>2 DEF TaskRefused, StillAlive, NeedsProcessor
  <2>3. CASE TaskUnreachable(c)
    BY <2>3 DEF TaskUnreachable, Unreachable, NeedsProcessor
  <2>4. CASE TaskCommits(c)
    BY <2>4 DEF TaskCommits, CasWins, CanCancelPending,
                ReleaseRetiredCartHolds, CreditWithout
  <2>5. CASE TaskDies(c)
    BY <2>5 DEF TaskDies, Emit
  <2> QED BY <1>5, <2>1, <2>2, <2>3, <2>4, <2>5 DEF Next
<1>6. CASE UNCHANGED vars
  BY <1>6 DEF vars
<1> QED BY <1>1, <1>2, <1>3, <1>4, <1>5, <1>6 DEF Next, CancelStep

\* Credit is never pinned to an order that was cancelled or never written.
THEOREM CreditNeverStranded == Spec => []CreditNotStranded
<1>1. Init => CreditNotStranded
  BY CheckoutAssumptions DEF Init, CreditNotStranded
<1> QED BY <1>1, CreditStep, Invariance, PTL DEF Spec

-----------------------------------------------------------------------------
\* Writing a PENDING order opens a purchase.
LEMMA OpenMaps ==
  ASSUME order \in [Orders -> OrderStatuses], NEW o \in Orders,
         order[o] = "NONE", order' = [order EXCEPT ![o] = "PENDING"],
         UNCHANGED pi
  PROVE  Abstract!Open(o)
  BY DEF Abstract!Open, PhaseOf

\* Writing a SUCCEEDED order, paid by credit, grants one.
LEMMA GrantMaps ==
  ASSUME order \in [Orders -> OrderStatuses], NEW o \in Orders,
         order[o] = "NONE", order' = [order EXCEPT ![o] = "SUCCEEDED"],
         UNCHANGED pi
  PROVE  Abstract!Grant(o)
  BY DEF Abstract!Grant, PhaseOf

\* Cancelling an unpaid cart in the same commit supersedes a purchase.
LEMMA SupersedeMaps ==
  ASSUME order \in [Orders -> OrderStatuses], NEW o \in Orders,
         NEW p \in Orders, NEW s \in {"PENDING", "SUCCEEDED"},
         p # o, order[o] = "NONE", order[p] = "PENDING", pi[p] # "succeeded",
         order' = [order EXCEPT ![p] = "CANCELLED", ![o] = s],
         UNCHANGED pi
  PROVE  Abstract!Supersede(o, p)
<1> DEFINE ph == IF s = "PENDING" THEN "open" ELSE "fulfilled"
<1>1. [q \in Orders |-> PhaseOf(order'[q])]
        = [[q \in Orders |-> PhaseOf(order[q])]
             EXCEPT ![p] = "void", ![o] = ph]
  BY DEF PhaseOf
<1>2. ph \in {"open", "fulfilled"}
  OBVIOUS
<1>3. PhaseOf(order[o]) = "none" /\ PhaseOf(order[p]) = "open"
  BY DEF PhaseOf
<1> QED BY <1>1, <1>2, <1>3 DEF Abstract!Supersede

\* The checkout transaction, with or without a cart to retire, is one of these:
\* a cart that is retired carries no PaymentIntent, or a dead one.
LEMMA CommitMaps ==
  ASSUME CheckoutInv, NEW o \in Orders, at[o] = "ready",
         NEW s \in {"PENDING", "SUCCEEDED"},
         order' = OrdersAfter(o, s), UNCHANGED pi
  PROVE  \/ s = "PENDING" /\ Abstract!Open(o)
         \/ s = "SUCCEEDED" /\ Abstract!Grant(o)
         \/ \E p \in Orders : Abstract!Supersede(o, p)
<1>1. order \in [Orders -> OrderStatuses] /\ order[o] = "NONE"
  BY DEF CheckoutInv, TypeOK, PaymentInv, OrderBeforePayment, BeforeOrder
<1>2. CASE ~CartRetired(o)
  <2>1. order' = [order EXCEPT ![o] = s]
    BY <1>1, <1>2 DEF OrdersAfter
  <2> QED BY <1>1, <2>1, OpenMaps, GrantMaps
<1>3. CASE CartRetired(o)
  <2>1. PICK p \in Orders : p = carry[o].cart
    BY <1>3 DEF CartRetired, CheckoutInv, TypeOK, Carries
  <2>2. p # o /\ order[p] = "PENDING"
    BY <1>3, <2>1 DEF CartRetired, CanCancelPending, CheckoutInv,
                      KnowledgeInv, CartStaysDead
  <2>3. pi[p] # "succeeded"
    BY <1>3, <2>1 DEF CartRetired, CanCancelPending, CheckoutInv,
       KnowledgeInv, CartStaysDead, PaymentInv, PaymentNeedsSecret,
       SecretNeedsLink, SecretOut
  <2>4. order' = [order EXCEPT ![p] = "CANCELLED", ![o] = s]
    BY <1>1, <1>3, <2>1, <2>2 DEF OrdersAfter
  <2>5. Abstract!Supersede(o, p)
    BY <1>1, <2>2, <2>3, <2>4, SupersedeMaps
  <2> QED BY <2>5
<1> QED BY <1>2, <1>3

-----------------------------------------------------------------------------
\* Every step is a step of Purchase, or changes nothing that Purchase sees.
LEMMA Refinement ==
  CheckoutInv /\ CheckoutInv' /\ [Next]_vars
    => [Abstract!PurchaseNext]_(Abstract!purchaseVars)
<1> SUFFICES ASSUME CheckoutInv, CheckoutInv', [Next]_vars
             PROVE  [Abstract!PurchaseNext]_(Abstract!purchaseVars)
  OBVIOUS
<1> USE CheckoutAssumptions
    DEF CheckoutInv, KnowledgeInv, CartStaysDead, TypeOK, PaymentInv,
        PaymentNeedsSecret, SecretNeedsLink, LinkedIsDead, TicketsArePaid,
        EventsAreTrue, OrderBeforePayment, BeforeOrder, NeedsProcessor,
        SettledStaysDead, SecretOut, IsOpen, OrderStatuses, dbVars,
        requestVars, eventVars, PhaseOf, Abstract!purchaseVars,
        Abstract!PurchaseNext, Abstract!Open, Abstract!Grant, Abstract!Charge,
        Abstract!Fulfil, Abstract!Void, Abstract!Supersede
<1>1. ASSUME NEW o \in Orders, CheckoutStep(o)
     PROVE  [Abstract!PurchaseNext]_(Abstract!purchaseVars)
  <2>1. CASE \E p \in Orders \union {NoOrder} : StartCheckout(o, p)
    BY <2>1 DEF StartCheckout
  <2>2. CASE ReadCart(o)
    BY <2>2 DEF ReadCart
  <2>3. CASE SettleCart(o)
    BY <2>3 DEF SettleCart, ProvenDead, StillAlive, Unreachable
  <2>4. CASE ResettleCart(o)
    BY <2>4 DEF ResettleCart, CartChanged, CartRetired
  <2>5. CASE CommitCheckout(o)
    BY <2>5, CommitMaps DEF CommitCheckout
  <2>6. CASE CommitCovered(o)
    BY <2>6, CommitMaps DEF CommitCovered
  <2>7. CASE RefuseCheckout(o)
    BY <2>7 DEF RefuseCheckout
  <2>8. CASE CreatePaymentIntent(o)
    BY <2>8 DEF CreatePaymentIntent
  <2>9. CASE LinkPaymentIntent(o)
    BY <2>9 DEF LinkPaymentIntent
  <2>10. CASE LinkLost(o)
    BY <2>10 DEF LinkLost
  <2>11. CASE Respond(o)
    BY <2>11 DEF Respond
  <2>12. CASE UnwindPaymentIntent(o)
    BY <2>12 DEF UnwindPaymentIntent, ProvenDead, StillAlive, Unreachable
  <2>13. CASE UnwindOrder(o)
    BY <2>13 DEF UnwindOrder, ReleaseRetiredCartHolds, CreditWithout
  <2>14. CASE CheckoutDies(o)
    BY <2>14 DEF CheckoutDies, InFlight
  <2> QED BY <1>1, <2>1, <2>2, <2>3, <2>4, <2>5, <2>6, <2>7, <2>8, <2>9, <2>10,
     <2>11, <2>12, <2>13, <2>14 DEF CheckoutStep
<1>2. ASSUME NEW o \in Orders, ProcessorStep(o)
     PROVE  [Abstract!PurchaseNext]_(Abstract!purchaseVars)
  <2>1. CASE PayByCard(o)
    BY <2>1 DEF PayByCard, SecretOut, Emit
  <2>2. CASE DeclineCard(o)
    BY <2>2 DEF DeclineCard, SecretOut, Emit
  <2>3. CASE PayByBank(o)
    BY <2>3 DEF PayByBank, SecretOut, Emit
  <2>4. CASE BankSettles(o)
    BY <2>4 DEF BankSettles, Emit
  <2>5. CASE BankReturns(o)
    BY <2>5 DEF BankReturns, Emit
  <2> QED BY <1>2, <2>1, <2>2, <2>3, <2>4, <2>5 DEF ProcessorStep
<1>3. ASSUME NEW o \in Orders, ServerStep(o)
     PROVE  [Abstract!PurchaseNext]_(Abstract!purchaseVars)
  <2>1. CASE \E again \in BOOLEAN : OnProcessing(o, again)
    BY <2>1 DEF OnProcessing, Taken
  <2>2. CASE \E again \in BOOLEAN : OnSucceeded(o, again)
    BY <2>2 DEF OnSucceeded, Taken, Finalize, Finalizable, IsOpen
  <2>3. CASE \E again \in BOOLEAN : OnPaymentFailed(o, again)
    BY <2>3 DEF OnPaymentFailed, Taken, Begin, IsOpen
  <2>4. CASE \E e \in EventTypes : DeadLetter(o, e)
    BY <2>4 DEF DeadLetter
  <2>5. CASE \E e \in EventTypes : ReplayDlq(o, e)
    BY <2>5 DEF ReplayDlq, Emit
  <2>6. CASE ConfirmPaid(o)
    BY <2>6 DEF ConfirmPaid, SecretOut, Finalize, Finalizable, IsOpen
  <2>7. CASE ConfirmReads(o)
    BY <2>7 DEF ConfirmReads, SecretOut
  <2>8. CASE ConfirmMarks(o)
    BY <2>8 DEF ConfirmMarks
  <2> QED BY <1>3, <2>1, <2>2, <2>3, <2>4, <2>5, <2>6, <2>7, <2>8
        DEF ServerStep
<1>4. ASSUME NEW o \in Orders,
            Expire(o) \/ ReaperScans(o) \/ BeaconReads(o) \/ SiblingScans(o)
     PROVE  [Abstract!PurchaseNext]_(Abstract!purchaseVars)
  BY <1>4 DEF Expire, ReaperScans, BeaconReads, SiblingScans, Begin
<1>5. ASSUME NEW c \in Cancellers,
            TaskSettles(c) \/ TaskRefused(c) \/ TaskUnreachable(c)
              \/ TaskCommits(c) \/ TaskDies(c)
     PROVE  [Abstract!PurchaseNext]_(Abstract!purchaseVars)
  <2>1. CASE TaskSettles(c)
    BY <2>1 DEF TaskSettles, ProvenDead, NeedsProcessor
  <2>2. CASE TaskRefused(c)
    BY <2>2 DEF TaskRefused, StillAlive, NeedsProcessor
  <2>3. CASE TaskUnreachable(c)
    BY <2>3 DEF TaskUnreachable, Unreachable, NeedsProcessor
  <2>4. CASE TaskCommits(c)
    BY <2>4 DEF TaskCommits, CasWins, CanCancelPending,
                ReleaseRetiredCartHolds, CreditWithout
  <2>5. CASE TaskDies(c)
    BY <2>5 DEF TaskDies, Emit
  <2> QED BY <1>5, <2>1, <2>2, <2>3, <2>4, <2>5 DEF Next
<1>6. CASE UNCHANGED vars
  BY <1>6 DEF vars
<1> QED BY <1>1, <1>2, <1>3, <1>4, <1>5, <1>6 DEF Next, CancelStep

\* The purchase the buyer sees: charged only while open, fulfilled only when
\* charged, never voided after a charge.
THEOREM CheckoutImplementsPurchase == Spec => ImplementsPurchase
<1>1. Init => Abstract!PurchaseInit
  BY DEF Init, Abstract!PurchaseInit, PhaseOf
<1>2. CheckoutInv /\ CheckoutInv' /\ [Next]_vars
        => [Abstract!PurchaseNext]_(Abstract!purchaseVars)
  BY Refinement
<1> QED BY <1>1, <1>2, Invariance, PTL
        DEF Spec, ImplementsPurchase, Abstract!PurchaseSpec
=============================================================================
