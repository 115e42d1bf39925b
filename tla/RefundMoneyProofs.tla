-------------------------- MODULE RefundMoneyProofs --------------------------
(***************************************************************************)
(* Theorems about the money of Refund, for any items, prices, charges and  *)
(* handlers: no item is paid back twice, the payee is debited for what was *)
(* paid back and never for more than the credit, and a ticket is voided    *)
(* for money that has moved.                                               *)
(***************************************************************************)
EXTENDS RefundProofs, Sums

HandlerType ==
  [pc : {"idle", "quote", "pay", "wait", "record", "write", "release"},
   op : Asks \union {"none", "whole", "part"},
   ask : SUBSET Items, ref : 0..MaxRefunds, cum : 0..Total,
   seen : [Items -> ItemStatuses], prior : Nat, late : BOOLEAN, ev : Event]

\* The three parts of the state and what the types leave out of them: which
\* refunds the events name, and that those of a card succeed at once.
BooksTyped ==
  /\ status \in Statuses /\ item \in [Items -> ItemStatuses]
  /\ ledger \subseteq [key : Key, cents : 1..Total] /\ IsFiniteSet(ledger)
  /\ \A a, b \in ledger : a.key = b.key => a = b

StripeTyped ==
  /\ charge \in Charges
  /\ refunds \in Seq(RefundType) /\ Len(refunds) <= MaxRefunds
  /\ events \subseteq Event /\ parked \subseteq Event
  /\ \A e \in events \union parked : e.ref \in DOMAIN refunds
  /\ ~charge.async => \A r \in DOMAIN refunds : refunds[r].state = "succeeded"
  /\ Refunded <= Total

RestTyped ==
  /\ lock \in [owner : Procs \union {NoProc}, lapsed : BOOLEAN]
  /\ overran \in BOOLEAN /\ faults \in 0..MaxFaults

HandlersTyped ==
  /\ proc \in [Procs -> HandlerType]
  /\ \A p \in Procs :
       /\ proc[p].ev = NoEvent \/ proc[p].ev.ref \in DOMAIN refunds
       /\ proc[p].pc \in {"quote", "pay"} => proc[p].op \in Asks
       /\ proc[p].pc = "wait" =>
            proc[p].op \in {"whole", "part"} /\ proc[p].ev # NoEvent

TypeInv == BooksTyped /\ StripeTyped /\ RestTyped /\ HandlersTyped

-----------------------------------------------------------------------------
(* Amounts.                                                                *)

\* The greatest of some refunds is one of them.
LEMMA MaxIsIn ==
  ASSUME NEW n \in Nat, NEW S, S \subseteq 0..n, S # {}
  PROVE  Max(S) \in S
<1> DEFINE T == {m \in 0..n : n - m \in S}
<1>1. \A y \in S : n - y \in T
  <2> TAKE y \in S
  <2>1. y \in 0..n /\ n - (n - y) = y
    OBVIOUS
  <2> QED BY <2>1
<1>2. PICK k \in T : \A m \in T : k <= m
  <2>1. T \subseteq Nat
    OBVIOUS
  <2>2. PICK y \in S : TRUE
    OBVIOUS
  <2>3. n - y \in T
    BY <1>1
  <2> HIDE DEF T
  <2> QED BY <2>1, <2>3, HasLeast
<1>3. n - k \in S /\ k \in 0..n
  BY <1>2
<1>4. \A y \in S : n - k >= y
  <2> TAKE y \in S
  <2>1. k <= n - y /\ y \in 0..n
    BY <1>1, <1>2
  <2> QED BY <1>3, <2>1
<1>5. \E x \in S : \A y \in S : x >= y
  BY <1>3, <1>4
<1> QED BY Zenon, <1>5 DEF Max

\* Products of naturals.
LEMMA Times ==
  ASSUME NEW a \in Nat, NEW b \in Nat, NEW c \in Nat, b <= c
  PROVE  a * b \in Nat /\ a * b <= a * c
  OBVIOUS

LEMMA TimesMore ==
  ASSUME NEW a \in Nat, NEW b \in Nat, NEW c \in Nat, a <= b
  PROVE  a * c \in Nat /\ a * c <= b * c
  OBVIOUS

\* What some of the items cost is part of the payment.
LEMMA Costs ==
  ASSUME NEW S \in SUBSET Items
  PROVE  /\ IsFiniteSet(S) /\ Cardinality(S) \in Nat
         /\ Cardinality(S) <= Cardinality(Items)
         /\ Cardinality(Items) \in Nat
         /\ Price * Cardinality(S) \in 0..Total
<1>1. /\ IsFiniteSet(S) /\ Cardinality(S) \in Nat
      /\ Cardinality(S) <= Cardinality(Items) /\ Cardinality(Items) \in Nat
  BY RefundAssumptions, FS_Subset, FS_CardinalityType
<1>2. /\ Price * Cardinality(S) \in Nat
      /\ Price * Cardinality(S) <= Price * Cardinality(Items)
  BY <1>1, Times, RefundAssumptions
<1>3. Price * Cardinality(Items) \in Nat
  BY <1>1, Times, RefundAssumptions
<1> QED BY <1>1, <1>2, <1>3 DEF Total

LEMMA Quotes ==
  ASSUME charge \in Charges, NEW S \in SUBSET Items
  PROVE  /\ Price - charge.fee \in 1..Price
         /\ Total \in Nat
         /\ Quoted(S) \in 0..Total
<1>1. Price - charge.fee \in 1..Price
  BY RefundAssumptions DEF ChargeType
<1>2. /\ Cardinality(S) * (Price - charge.fee) \in Nat
      /\ Cardinality(S) * (Price - charge.fee) <= Cardinality(S) * Price
  BY <1>1, Costs, Times, RefundAssumptions
<1>3. Cardinality(S) * Price = Price * Cardinality(S)
  BY Costs, RefundAssumptions
<1>4. Total \in Nat
  BY Costs, Times, RefundAssumptions DEF Total
<1> QED BY <1>1, <1>2, <1>3, <1>4, Costs DEF Quoted

-----------------------------------------------------------------------------
(* Sums.                                                                   *)

Amount == [r \in DOMAIN refunds |-> refunds[r].cents]
Debit == [row \in ledger |-> row.cents]

\* What the model's folds compute is a sum of Sums.
LEMMA FoldIsSum ==
  ASSUME NEW S, S \subseteq DOMAIN refunds
  PROVE  MapThenSumSet(CentsOf, S) = SumOver(Amount, S)
<1> DEFINE P(g) == g = [s \in SUBSET S |-> IF s = {} THEN 0
                          ELSE CentsOf(Pick(s)) + g[s \ {Pick(s)}]]
<1>1. \A s \in SUBSET S : s # {} => Amount[Pick(s)] = CentsOf(Pick(s))
  BY PickIsIn DEF Amount, CentsOf
<1>2. \A g : P(g) <=> IsSum(g, Amount, S)
  BY <1>1 DEF IsSum
<1>3. MapThenSumSet(CentsOf, S) = (CHOOSE g : P(g))[S]
  BY Zenon DEF MapThenSumSet, MapThenFoldSet, Pick
<1>4. (CHOOSE g : P(g)) = (CHOOSE g : IsSum(g, Amount, S))
  <2> HIDE DEF P
  <2> QED BY <1>2, Zenon
<1> QED BY <1>3, <1>4, SumIsIter

LEMMA DebitIsSum ==
  ASSUME NEW S, S \subseteq ledger
  PROVE  MapThenSumSet(CentsIn, S) = SumOver(Debit, S)
<1> DEFINE P(g) == g = [s \in SUBSET S |-> IF s = {} THEN 0
                          ELSE CentsIn(Pick(s)) + g[s \ {Pick(s)}]]
<1>1. \A s \in SUBSET S : s # {} => Debit[Pick(s)] = CentsIn(Pick(s))
  BY PickIsIn DEF Debit, CentsIn
<1>2. \A g : P(g) <=> IsSum(g, Debit, S)
  BY <1>1 DEF IsSum
<1>3. MapThenSumSet(CentsIn, S) = (CHOOSE g : P(g))[S]
  BY Zenon DEF MapThenSumSet, MapThenFoldSet, Pick
<1>4. (CHOOSE g : P(g)) = (CHOOSE g : IsSum(g, Debit, S))
  <2> HIDE DEF P
  <2> QED BY <1>2, Zenon
<1> QED BY <1>3, <1>4, SumIsIter

LEMMA RefundedIsSum == Refunded = SumOver(Amount, Alive)
  BY FoldIsSum DEF Refunded, Alive

LEMMA DebitedIsSum == Debited = SumOver(Debit, ledger)
  BY DebitIsSum DEF Debited

LEMMA PriorIsSum ==
  ASSUME NEW p
  PROVE  PriorDebits(p) = SumOver(Debit, {row \in ledger : row.key # RowKey(p)})
  BY DebitIsSum DEF PriorDebits

LEMMA Amounts ==
  ASSUME TypeOK
  PROVE  /\ refunds \in Seq(RefundType) /\ Len(refunds) \in 0..MaxRefunds
         /\ DOMAIN refunds = 1..Len(refunds)
         /\ IsFiniteSet(DOMAIN refunds) /\ IsFiniteSet(Alive)
         /\ \A r \in DOMAIN refunds : Amount[r] = refunds[r].cents
         /\ \A r \in DOMAIN refunds : refunds[r].cents \in Nat
         /\ Refunded \in Nat
<1>1. refunds \in Seq(RefundType) /\ Len(refunds) \in 0..MaxRefunds
  BY RefundAssumptions DEF TypeOK
<1>2. DOMAIN refunds = 1..Len(refunds)
  BY <1>1
<1>3. IsFiniteSet(DOMAIN refunds) /\ IsFiniteSet(Alive)
  <2>1. IsFiniteSet(1..Len(refunds))
    BY <1>1, FS_Interval
  <2>2. Alive \subseteq DOMAIN refunds
    BY DEF Alive
  <2> QED BY <1>2, <2>1, <2>2, FS_Subset
<1>4. \A r \in DOMAIN refunds : refunds[r].cents \in Nat
  <2> TAKE r \in DOMAIN refunds
  <2>1. refunds[r] \in RefundType
    BY <1>1
  <2> QED BY <2>1, RefundAssumptions DEF RefundType
<1>5. \A r \in DOMAIN refunds : Amount[r] = refunds[r].cents
  BY DEF Amount
<1>6. Refunded \in Nat
  BY <1>3, <1>4, <1>5, SumNat, RefundedIsSum DEF Alive
<1> QED BY <1>1, <1>2, <1>3, <1>4, <1>5, <1>6

LEMMA AmountsNext ==
  ASSUME TypeOK'
  PROVE  Refunded' \in Nat
<1>1. (Refunded \in Nat)'
  BY Amounts, PTL
<1> QED BY <1>1

LEMMA RefundedIsSumNext == Refunded' = SumOver(Amount', Alive')
<1>1. (Refunded = SumOver(Amount, Alive))'
  BY RefundedIsSum, PTL
<1> QED BY <1>1

LEMMA DebitedIsSumNext == Debited' = SumOver(Debit', ledger')
<1>1. (Debited = SumOver(Debit, ledger))'
  BY DebitedIsSum, PTL
<1> QED BY <1>1

LEMMA SameRefunds ==
  ASSUME refunds' = refunds
  PROVE  Refunded' = Refunded /\ Alive' = Alive
  BY RefundedIsSum, RefundedIsSumNext DEF Alive, Amount

LEMMA SameLedger ==
  ASSUME ledger' = ledger
  PROVE  Debited' = Debited
  BY DebitedIsSum, DebitedIsSumNext DEF Debit

\* A refund of the charge, from its creation on.
LEMMA Creating ==
  ASSUME TypeOK, NEW names \in SUBSET Items, NEW cents \in 0..Total,
         NEW by \in Asks \union {"staff"}, Creates(names, cents, by)
  PROVE  /\ refunds' \in Seq(RefundType)
         /\ Len(refunds') = Len(refunds) + 1 /\ Len(refunds') \in 0..MaxRefunds
         /\ DOMAIN refunds' = DOMAIN refunds \union {Len(refunds) + 1}
         /\ Len(refunds) + 1 \notin DOMAIN refunds
         /\ \A r \in DOMAIN refunds : refunds'[r] = refunds[r]
         /\ refunds'[Len(refunds) + 1] =
              [names |-> names, cents |-> cents, by |-> by,
               state |-> IF charge.async THEN "pending" ELSE "succeeded"]
         /\ Alive' = Alive \union {Len(refunds) + 1}
         /\ Refunded' = Refunded + cents
<1> DEFINE new == [names |-> names, cents |-> cents, by |-> by,
                   state |-> IF charge.async THEN "pending" ELSE "succeeded"]
           n == Len(refunds) + 1
<1>1. new \in RefundType
  BY DEF RefundType
<1>2. refunds' = Append(refunds, new) /\ Len(refunds) < MaxRefunds
  BY DEF Creates
<1>3. refunds \in Seq(RefundType) /\ Len(refunds) \in Nat
  BY DEF TypeOK
<1> HIDE DEF new
<1>4. /\ refunds' \in Seq(RefundType) /\ Len(refunds') = n
      /\ DOMAIN refunds' = 1..n /\ DOMAIN refunds = 1..Len(refunds)
      /\ \A r \in 1..Len(refunds) : refunds'[r] = refunds[r]
      /\ refunds'[n] = new
  BY <1>1, <1>2, <1>3
<1>5. /\ DOMAIN refunds' = DOMAIN refunds \union {n}
      /\ n \notin DOMAIN refunds
  BY <1>3, <1>4
<1>6. new.state # "failed" /\ new.cents = cents
  BY DEF new
<1>7. Alive' = Alive \union {n}
  BY <1>4, <1>5, <1>6 DEF Alive
<1>8. n \notin Alive
  BY <1>5 DEF Alive
<1>9. \A r \in Alive \union {n} : Amount'[r] \in Nat
  <2> TAKE r \in Alive \union {n}
  <2>1. r \in DOMAIN refunds' /\ Amount'[r] = refunds'[r].cents
    BY <1>5 DEF Alive, Amount
  <2>2. CASE r = n
    BY <2>1, <2>2, <1>4, <1>6, RefundAssumptions
  <2>3. CASE r # n
    <3>1. r \in DOMAIN refunds
      BY <2>3 DEF Alive
    <3> QED BY <2>1, <3>1, <1>4, Amounts
  <2> QED BY <2>2, <2>3
<1>10. SumOver(Amount', Alive \union {n}) = SumOver(Amount', Alive) + Amount'[n]
  BY <1>8, <1>9, Amounts, SumAdds
<1>11. Amount'[n] = cents
  BY <1>4, <1>5, <1>6 DEF Amount
<1>12. SumOver(Amount', Alive) = SumOver(Amount, Alive)
  <2>1. \A r \in Alive : Amount'[r] = Amount[r]
    BY <1>4, <1>5 DEF Alive, Amount
  <2> QED BY <2>1, Amounts, SumAgrees
<1>13. Refunded' = Refunded + cents
  BY <1>7, <1>10, <1>11, <1>12, RefundedIsSum, RefundedIsSumNext
<1>14. Len(refunds') \in 0..MaxRefunds
  BY <1>2, <1>3, <1>4, RefundAssumptions
<1> QED BY <1>4, <1>5, <1>7, <1>13, <1>14 DEF new

\* A refund that ends keeps what it is of, and counts no more if it failed.
LEMMA Settling ==
  ASSUME TypeOK, NEW r \in DOMAIN refunds, Settle(r)
  PROVE  /\ refunds' \in Seq(RefundType) /\ Len(refunds') = Len(refunds)
         /\ DOMAIN refunds' = DOMAIN refunds
         /\ \A s \in DOMAIN refunds :
              /\ refunds'[s].names = refunds[s].names
              /\ refunds'[s].cents = refunds[s].cents
              /\ refunds[s].state # "pending" => refunds'[s] = refunds[s]
         /\ Refunded' \in Nat
         /\ \/ Alive' = Alive /\ Refunded' = Refunded
            \/ /\ r \in Alive /\ Alive' = Alive \ {r}
               /\ Refunded = Refunded' + refunds[r].cents
<1>1. PICK state \in {"succeeded", "failed"} :
        refunds' = [refunds EXCEPT ![r].state = state]
  BY DEF Settle
<1>2. refunds[r].state = "pending" /\ r \in Alive
  BY DEF Settle, Alive
<1>3. refunds \in Seq(RefundType) /\ refunds[r] \in RefundType
  BY DEF TypeOK
<1>4. [refunds[r] EXCEPT !.state = state] \in RefundType
  BY <1>3 DEF RefundType
<1>5. refunds' = [refunds EXCEPT ![r] = [refunds[r] EXCEPT !.state = state]]
  BY <1>1
<1> DEFINE new == [refunds[r] EXCEPT !.state = state]
<1>6. /\ new.names = refunds[r].names /\ new.cents = refunds[r].cents
      /\ new.state = state
  BY <1>3 DEF RefundType
<1> HIDE DEF new
<1>7. /\ refunds' \in Seq(RefundType) /\ Len(refunds') = Len(refunds)
      /\ DOMAIN refunds' = DOMAIN refunds
      /\ refunds'[r] = new
      /\ \A s \in DOMAIN refunds : s # r => refunds'[s] = refunds[s]
  BY <1>3, <1>4, <1>5 DEF new
<1>8. \A s \in DOMAIN refunds : /\ refunds'[s].names = refunds[s].names
                                /\ refunds'[s].cents = refunds[s].cents
                                /\ refunds[s].state # "pending" =>
                                     refunds'[s] = refunds[s]
  BY <1>2, <1>6, <1>7
<1>9. \A s \in DOMAIN refunds : Amount'[s] = Amount[s]
  BY <1>7, <1>8 DEF Amount
<1>10. CASE state = "succeeded"
  <2>1. Alive' = Alive
    BY <1>2, <1>6, <1>7, <1>10 DEF Alive
  <2>2. Refunded' = Refunded
    <3>1. \A s \in Alive : Amount'[s] = Amount[s]
      BY <1>9 DEF Alive
    <3>2. SumOver(Amount', Alive) = SumOver(Amount, Alive)
      BY <3>1, Amounts, SumAgrees
    <3> QED BY <2>1, <3>2, RefundedIsSum, RefundedIsSumNext
  <2> QED BY <1>7, <1>8, <2>1, <2>2, Amounts
<1>11. CASE state = "failed"
  <2>1. Alive' = Alive \ {r}
    BY <1>2, <1>6, <1>7, <1>11 DEF Alive
  <2>2. IsFiniteSet(Alive \ {r}) /\ Alive \ {r} \subseteq DOMAIN refunds
    BY Amounts, FS_Subset DEF Alive
  <2>3. SumOver(Amount', Alive') = SumOver(Amount, Alive \ {r})
    BY <2>1, <2>2, <1>9, SumAgrees
  <2>4. SumOver(Amount, Alive) = Amount[r] + SumOver(Amount, Alive \ {r})
    <3>1. \A s \in Alive : Amount[s] \in Nat
      BY Amounts DEF Alive
    <3> QED BY <3>1, <1>2, Amounts, SumTakes
  <2>5. \A s \in Alive \ {r} : Amount[s] \in Nat
    BY Amounts DEF Alive
  <2>6. SumOver(Amount, Alive \ {r}) \in Nat /\ Amount[r] = refunds[r].cents
    BY <2>2, <2>5, SumNat, Amounts
  <2>7. Refunded = Refunded' + refunds[r].cents
    BY <2>3, <2>4, <2>6, Amounts, RefundedIsSum, RefundedIsSumNext
  <2> QED BY <1>7, <1>8, <2>1, <2>3, <2>6, <2>7, <1>2, RefundedIsSumNext
<1> QED BY <1>10, <1>11

-----------------------------------------------------------------------------
(* Types.                                                                  *)

LEMMA TypesHold == TypeInv => TypeOK
  BY DEF TypeInv, BooksTyped, StripeTyped, RestTyped, HandlersTyped,
         HandlerType, TypeOK

LEMMA TotalIsNat == Total \in Nat /\ \A S \in SUBSET Items :
                      Price * Cardinality(S) \in Nat
<1>1. Price * Cardinality(Items) \in 0..Total
  BY Costs
<1>2. Cardinality(Items) \in Nat
  BY Costs
<1>3. Total \in Nat
  BY <1>2, Times, RefundAssumptions DEF Total
<1> QED BY <1>3, Costs

\* What some debits sum up to.
LEMMA Debits1 ==
  ASSUME BooksTyped
  PROVE  /\ \A row \in ledger : /\ Debit[row] = row.cents /\ row.cents \in Nat
                                /\ row.key \in Key /\ row.cents <= Total
         /\ Debited \in Nat
         /\ \A p \in Procs : /\ PriorDebits(p) \in Nat
                             /\ PriorDebits(p) <= Debited
<1>1. \A row \in ledger : /\ Debit[row] = row.cents /\ row.cents \in Nat
                          /\ row.key \in Key /\ row.cents <= Total
  BY TotalIsNat DEF BooksTyped, Debit
<1>2. Debited \in Nat
  BY <1>1, SumNat, DebitedIsSum DEF BooksTyped
<1>3. ASSUME NEW p \in Procs
      PROVE  PriorDebits(p) \in Nat /\ PriorDebits(p) <= Debited
  <2> DEFINE S == {row \in ledger : row.key # RowKey(p)}
  <2>1. S \subseteq ledger /\ IsFiniteSet(S)
    BY FS_Subset DEF BooksTyped
  <2> HIDE DEF S
  <2>2. SumOver(Debit, S) \in Nat
    BY <1>1, <2>1, SumNat
  <2>3. SumOver(Debit, S) <= SumOver(Debit, ledger)
    BY <1>1, <2>1, SumOfPart DEF BooksTyped
  <2> QED BY <2>2, <2>3, PriorIsSum, DebitedIsSum DEF S
<1> QED BY <1>1, <1>2, <1>3

\* A debit that is written, or not.
LEMMA DebitsTyped ==
  ASSUME TypeInv, NEW p \in Procs, NEW cents \in 0..Total, Debits(p, cents)
  PROVE  /\ ledger' \subseteq [key : Key, cents : 1..Total]
         /\ IsFiniteSet(ledger')
         /\ \A a, b \in ledger' : a.key = b.key => a = b
<1> DEFINE row == [key |-> RowKey(p), cents |-> cents]
<1>1. CASE ledger' = ledger
  BY <1>1 DEF TypeInv, BooksTyped
<1>2. CASE /\ cents # 0 /\ ledger' = ledger \union {row}
           /\ ~\E old \in ledger : old.key = RowKey(p)
  <2>1. RowKey(p) \in Key
    BY TotalIsNat DEF RowKey, Key, TypeInv, HandlersTyped, HandlerType
  <2>2. row \in [key : Key, cents : 1..Total] /\ row.key = RowKey(p)
    BY <1>2, <2>1, TotalIsNat
  <2> HIDE DEF row
  <2>3. IsFiniteSet(ledger \union {row})
    BY FS_AddElement DEF TypeInv, BooksTyped
  <2> QED BY <1>2, <2>2, <2>3 DEF TypeInv, BooksTyped
<1> QED BY <1>1, <1>2 DEF Debits

LEMMA DebitBounds ==
  ASSUME TypeInv, NEW p \in Procs
  PROVE  /\ \A S \in SUBSET Items, whole \in BOOLEAN :
              /\ ItemDebit(p, S, whole) \in 0..Total
              /\ ItemDebit(p, S, whole) <= Minus(Total, proc[p].prior)
         /\ AmountDebit(p) \in 0..Total
<1>1. proc[p].prior \in Nat /\ proc[p].cum \in 0..Total
  BY DEF TypeInv, HandlersTyped, HandlerType
<1> QED BY <1>1, TotalIsNat DEF ItemDebit, AmountDebit, Minus, Least

LEMMA BooksStep ==
  ASSUME TypeInv, Next
  PROVE  BooksTyped'
<1>1. CASE UNCHANGED books
  BY <1>1 DEF TypeInv, BooksTyped, books
<1>2. ASSUME NEW i \in Items, Transfer(i) PROVE BooksTyped'
  BY <1>2 DEF Transfer, TypeInv, BooksTyped, ItemStatuses
<1>3. ASSUME NEW p \in Procs, Write(p) PROVE BooksTyped'
  <2>1. PICK flipped \in SUBSET Items, cents \in 0..Total :
          Flips(flipped) /\ Debits(p, cents)
    <3>1. proc[p].ask \in SUBSET Items
      BY DEF TypeInv, HandlersTyped, HandlerType
    <3>2. CASE proc[p].op = "whole"
      BY <1>3, <3>2, DebitBounds DEF Write, WritesWhole, AllAre
    <3>3. CASE proc[p].op = "part"
      BY <1>3, <3>1, <3>3, DebitBounds DEF Write, WritesPart
    <3>4. CASE proc[p].op \notin {"whole", "part"}
      BY <1>3, <3>1, <3>4, DebitBounds DEF Write, WritesRefund, AllAre
    <3> QED BY <3>2, <3>3, <3>4
  <2>2. item' \in [Items -> ItemStatuses]
    BY <2>1 DEF Flips, ItemStatuses, TypeInv, BooksTyped
  <2>3. status' \in Statuses
    BY <1>3 DEF Write, WritesWhole, WritesPart, WritesRefund, Marks, Statuses,
                TypeInv, BooksTyped
  <2> QED BY <2>1, <2>2, <2>3, DebitsTyped DEF BooksTyped
<1> QED
  BY <1>1, <1>2, <1>3
  DEF Next, Handler, Work, Request, Ask, Quote, Pay, Enter, GiveUp, Record,
      Release, Receive, Throw, Crash, Overrun, DashboardRefund, Settle,
      Replay, Lapse

\* A refund that the charge has left for is created with its event.
LEMMA CreatesTyped ==
  ASSUME TypeInv, NEW names \in SUBSET Items, NEW cents \in 0..Total,
         NEW by \in Asks \union {"staff"}, Creates(names, cents, by),
         Refunded + cents <= Total,
         charge' = charge, parked' = parked
  PROVE  StripeTyped'
<1> DEFINE n == Len(refunds) + 1
           told == [ref |-> n, cum |-> Refunded + cents]
<1>1. TypeOK
  BY TypesHold
<1>2. /\ refunds' \in Seq(RefundType) /\ Len(refunds') = n /\ n \in 0..MaxRefunds
      /\ DOMAIN refunds' = DOMAIN refunds \union {n}
      /\ \A r \in DOMAIN refunds : refunds'[r] = refunds[r]
      /\ refunds'[n].state = IF charge.async THEN "pending" ELSE "succeeded"
      /\ Refunded' = Refunded + cents
  <2>1. /\ refunds' \in Seq(RefundType)
        /\ Len(refunds') = Len(refunds) + 1 /\ Len(refunds') \in 0..MaxRefunds
        /\ DOMAIN refunds' = DOMAIN refunds \union {Len(refunds) + 1}
        /\ \A r \in DOMAIN refunds : refunds'[r] = refunds[r]
        /\ refunds'[Len(refunds) + 1] =
             [names |-> names, cents |-> cents, by |-> by,
              state |-> IF charge.async THEN "pending" ELSE "succeeded"]
        /\ Refunded' = Refunded + cents
    BY <1>1, Creating
  <2> QED BY <2>1
<1>3. Refunded + cents \in 0..Total
  BY <1>1, Amounts, TotalIsNat
<1>4. events' = events \union {told}
  BY DEF Creates
<1>5. told \in Event /\ told.ref = n
  BY <1>2, <1>3 DEF Event
<1> HIDE DEF told, n
<1>6. events' \subseteq Event /\ parked' \subseteq Event
  BY <1>4, <1>5 DEF TypeInv, StripeTyped
<1>7. \A e \in events' \union parked' : e.ref \in DOMAIN refunds'
  BY <1>2, <1>4, <1>5 DEF TypeInv, StripeTyped
<1>8. ~charge'.async => \A r \in DOMAIN refunds' : refunds'[r].state = "succeeded"
  BY <1>2 DEF TypeInv, StripeTyped
<1>9. Len(refunds') <= MaxRefunds
  BY <1>2, RefundAssumptions
<1> QED BY <1>2, <1>3, <1>6, <1>7, <1>8, <1>9 DEF StripeTyped, TypeInv

LEMMA StripeStep ==
  ASSUME TypeInv, Next
  PROVE  StripeTyped'
<1> USE TypesHold
<1>1. CASE /\ refunds' = refunds /\ charge' = charge
           /\ events' \union parked' \subseteq
                events \union parked \union
                  {e \in {proc[p].ev : p \in Procs} : e # NoEvent}
  <2>1. Refunded' = Refunded
    BY <1>1, SameRefunds
  <2>2. \A e \in events' \union parked' : e \in Event /\ e.ref \in DOMAIN refunds
    BY <1>1 DEF TypeInv, StripeTyped, HandlersTyped, HandlerType
  <2> QED BY <1>1, <2>1, <2>2 DEF TypeInv, StripeTyped
<1>2. ASSUME NEW r \in DOMAIN refunds, Settle(r) PROVE StripeTyped'
  <2>1. TypeOK
    OBVIOUS
  <2>2. /\ refunds' \in Seq(RefundType) /\ Len(refunds') = Len(refunds)
        /\ DOMAIN refunds' = DOMAIN refunds
        /\ \A s \in DOMAIN refunds :
             refunds[s].state # "pending" => refunds'[s] = refunds[s]
        /\ Refunded' <= Refunded /\ Refunded' \in Nat
    <3>1. refunds[r].cents \in Nat /\ Refunded \in Nat
      BY <2>1, Amounts
    <3>2. /\ Refunded' \in Nat
          /\ Refunded' = Refunded \/ Refunded = Refunded' + refunds[r].cents
      BY <1>2, <2>1, Settling
    <3>3. Refunded' <= Refunded
      BY <3>1, <3>2
    <3> QED BY <1>2, <2>1, <3>2, <3>3, Settling
  <2>3. /\ charge' = charge /\ parked' = parked
        /\ events' \subseteq events \union {[ref |-> r, cum |-> 0]}
    BY <1>2 DEF Settle
  <2>4. [ref |-> r, cum |-> 0] \in Event
    <3>1. r \in 0..MaxRefunds
      BY <2>1, Amounts, RefundAssumptions
    <3> QED BY <3>1, TotalIsNat DEF Event
  <2>5. \A e \in events' \union parked' : e \in Event /\ e.ref \in DOMAIN refunds
    BY <2>3, <2>4 DEF TypeInv, StripeTyped
  <2>6. ~charge.async => refunds[r].state # "pending"
    BY DEF TypeInv, StripeTyped
  <2>7. charge.async
    BY <1>2, <2>6 DEF Settle
  <2>8. Refunded' <= Total
    BY <2>1, <2>2, Amounts, TotalIsNat DEF TypeInv, StripeTyped
  <2>9. Len(refunds') <= MaxRefunds
    BY <2>2 DEF TypeInv, StripeTyped
  <2> QED BY <2>2, <2>3, <2>5, <2>7, <2>8, <2>9 DEF TypeInv, StripeTyped
<1>3. ASSUME DashboardRefund PROVE StripeTyped'
  <2>1. PICK cents \in 1..(Total - Refunded) : Creates({}, cents, "staff")
    BY <1>3 DEF DashboardRefund
  <2>2. cents \in 0..Total /\ Refunded + cents <= Total
    BY Amounts, TotalIsNat
  <2>3. charge' = charge /\ parked' = parked
    BY <1>3 DEF DashboardRefund
  <2> QED BY <2>1, <2>2, <2>3, CreatesTyped
<1>4. ASSUME NEW p \in Procs, Pay(p) PROVE StripeTyped'
  <2>1. CASE UNCHANGED stripe
    BY <1>1, <1>4, <2>1 DEF Pay, stripe
  <2>2. CASE ~UNCHANGED stripe
    <3> DEFINE cents == Quoted(proc[p].ask)
    <3>1. proc[p].ask \in SUBSET Items
      BY DEF TypeInv, HandlersTyped, HandlerType
    <3>2. cents \in 0..Total
      BY <3>1, Quotes DEF TypeInv, StripeTyped
    <3>3. Refunded + cents <= Total /\ Creates(proc[p].ask, cents, proc[p].op)
      BY <1>4, <2>2 DEF Pay
    <3>4. charge' = charge /\ parked' = parked
      BY <1>4 DEF Pay
    <3>5. proc[p].op \in Asks
      BY <1>4 DEF Pay, TypeInv, HandlersTyped
    <3> QED BY <3>1, <3>2, <3>3, <3>4, <3>5, CreatesTyped
  <2> QED BY <2>1, <2>2
<1> QED
  <2>1. ASSUME NEW p \in Procs, Pay(p) PROVE StripeTyped'
    BY <2>1, <1>4
  <2>2. CASE DashboardRefund \/ \E r \in DOMAIN refunds : Settle(r)
    BY <2>2, <1>2, <1>3
  <2>3. CASE \/ \E i \in Items : Transfer(i)
             \/ \E e \in parked : Replay(e)
             \/ Lapse
    BY <2>3, <1>1 DEF Transfer, Replay, Lapse, stripe
  <2>4. ASSUME NEW p \in Procs, Handler(p)
        PROVE  StripeTyped'
    <3>1. CASE Throw(p)
      BY <3>1, <1>1 DEF Throw, Parks, stripe
    <3>3. CASE Crash(p)
      BY <3>3, <1>1 DEF Crash
    <3>4. CASE GiveUp(p)
      BY <3>4, <1>1 DEF GiveUp, stripe, TypeInv, HandlersTyped
    <3>5. CASE \E e \in events : Receive(p, e)
      BY <3>5, <1>1 DEF Receive
    <3>2. CASE charge' = charge /\ UNCHANGED stripe /\ parked' = parked
      BY <3>2, <1>1 DEF stripe
    <3> QED BY <2>1, <2>4, <3>1, <3>2, <3>3, <3>4, <3>5
      DEF Handler, Work, Request, Ask, Quote, Enter, Record, Write, Release,
          Overrun
  <2> QED BY <2>1, <2>2, <2>3, <2>4 DEF Next

\* The record of a handler may become h.
Sound(h) ==
  /\ h \in HandlerType
  /\ h.ev = NoEvent \/ h.ev.ref \in DOMAIN refunds
  /\ h.pc \in {"quote", "pay"} => h.op \in Asks
  /\ h.pc = "wait" => h.op \in {"whole", "part"} /\ h.ev # NoEvent

LEMMA OneSound ==
  ASSUME TypeInv, NEW p \in Procs, NEW h, Sound(h),
         proc' = [proc EXCEPT ![p] = h], DOMAIN refunds \subseteq DOMAIN refunds'
  PROVE  HandlersTyped'
  BY DEF TypeInv, HandlersTyped, Sound

LEMMA IdleSound == Sound(Idle)
<1>1. Active \in [Items -> ItemStatuses]
  BY DEF Active, ItemStatuses
<1>2. NoEvent \in Event
  BY TotalIsNat, RefundAssumptions DEF NoEvent, Event
<1>3. Idle \in HandlerType
  BY <1>1, <1>2, TotalIsNat, RefundAssumptions DEF Idle, HandlerType
<1> QED BY <1>3 DEF Sound, Idle

LEMMA EndedSound ==
  ASSUME TypeInv, NEW p \in Procs
  PROVE  Sound(Ended(proc[p]))
<1>1. proc[p] \in HandlerType /\ Idle \in HandlerType
  BY IdleSound DEF TypeInv, HandlersTyped, Sound
<1>2. Ended(proc[p]) \in HandlerType
  BY <1>1 DEF Ended, HandlerType
<1>3. Ended(proc[p]).pc = "release" /\ Ended(proc[p]).ev = proc[p].ev
  BY <1>1 DEF Ended, HandlerType
<1> QED BY <1>2, <1>3 DEF Sound, TypeInv, HandlersTyped

\* What a quote finds to pay, or paid already.
LEMMA QuoteSound ==
  ASSUME TypeInv, NEW p \in Procs, Quote(p)
  PROVE  \E h : Sound(h) /\ proc' = [proc EXCEPT ![p] = h]
<1> DEFINE asked == IF proc[p].op = "full"
                    THEN {i \in Items : item[i] = "active"} ELSE proc[p].ask
           r == Max(Reusable(asked))
           paying == [proc[p] EXCEPT !.pc = "pay", !.ask = asked,
                                     !.seen = Seen(p)]
           found == [proc[p] EXCEPT !.pc = "record", !.ask = asked, !.ref = r,
                                    !.seen = Seen(p)]
<1>1. /\ proc[p] \in HandlerType /\ proc[p].op \in Asks
      /\ proc[p].ev = NoEvent \/ proc[p].ev.ref \in DOMAIN refunds
  BY DEF Quote, TypeInv, HandlersTyped
<1>2. asked \in SUBSET Items
  BY <1>1 DEF HandlerType
<1>3. Seen(p) \in [Items -> ItemStatuses]
  BY DEF Seen, Active, ItemStatuses, TypeInv, BooksTyped
<1>4. \/ proc' = [proc EXCEPT ![p] = Ended(proc[p])]
      \/ proc' = [proc EXCEPT ![p] = paying]
      \/ proc' = [proc EXCEPT ![p] = found] /\ Reusable(asked) # {}
  BY DEF Quote
<1>5. Sound(paying)
  <2>1. paying \in HandlerType
    BY <1>1, <1>2, <1>3 DEF HandlerType
  <2>2. paying.pc = "pay" /\ paying.op = proc[p].op /\ paying.ev = proc[p].ev
    BY <1>1 DEF HandlerType
  <2> HIDE DEF paying
  <2> QED BY <1>1, <2>1, <2>2 DEF Sound
<1>6. CASE proc' = [proc EXCEPT ![p] = found] /\ Reusable(asked) # {}
  <2>1. Reusable(asked) \subseteq 0..MaxRefunds
    BY Amounts, TypesHold, RefundAssumptions DEF Reusable, Overlaps, Alive
  <2>2. r \in 0..MaxRefunds
    BY <2>1, <1>6, MaxIsIn, RefundAssumptions
  <2> HIDE DEF r
  <2>3. found \in HandlerType
    BY <1>1, <1>2, <1>3, <2>2 DEF HandlerType
  <2>4. found.pc = "record" /\ found.ev = proc[p].ev
    BY <1>1 DEF HandlerType
  <2> HIDE DEF found
  <2>5. Sound(found)
    BY <1>1, <2>3, <2>4 DEF Sound
  <2> QED BY <1>6, <2>5
<1> HIDE DEF paying, found
<1> QED BY <1>4, <1>5, <1>6, EndedSound

LEMMA PaySound ==
  ASSUME TypeInv, NEW p \in Procs, Pay(p)
  PROVE  /\ \E h : Sound(h) /\ proc' = [proc EXCEPT ![p] = h]
         /\ DOMAIN refunds \subseteq DOMAIN refunds'
<1>1. /\ proc[p] \in HandlerType
      /\ proc[p].ev = NoEvent \/ proc[p].ev.ref \in DOMAIN refunds
  BY DEF Pay, TypeInv, HandlersTyped
<1>2. DOMAIN refunds = 1..Len(refunds) /\ Len(refunds) \in Nat
  BY Amounts, TypesHold
<1>3. DOMAIN refunds \subseteq DOMAIN refunds'
  <2>1. \/ refunds' = refunds
        \/ \E new : refunds' = Append(refunds, new)
    BY DEF Pay, Creates, stripe
  <2>2. ASSUME NEW new, refunds' = Append(refunds, new)
        PROVE  DOMAIN refunds \subseteq DOMAIN refunds'
    <3>1. DOMAIN Append(refunds, new) = 1..(Len(refunds) + 1)
      BY <1>2 DEF TypeInv, StripeTyped
    <3> QED BY <1>2, <2>2, <3>1
  <2> QED BY <2>1, <2>2
<1>4. \/ proc' = [proc EXCEPT ![p] = Ended(proc[p])]
      \/ \E r \in DOMAIN refunds \union {Len(refunds) + 1} :
           /\ r \in 0..MaxRefunds
           /\ proc' = [proc EXCEPT ![p] = [proc[p] EXCEPT !.pc = "record",
                                                          !.ref = r]]
  <2>1. \A r \in DOMAIN refunds : r \in 0..MaxRefunds
    BY <1>2, Amounts, TypesHold, RefundAssumptions
  <2>2. CASE ~UNCHANGED stripe
    <3>1. Len(refunds) + 1 \in 0..MaxRefunds
      BY <1>2, <2>2, RefundAssumptions DEF Pay, Creates
    <3> QED BY <2>2, <3>1 DEF Pay, Answered
  <2>3. CASE UNCHANGED stripe
    <3>1. CASE proc' = [proc EXCEPT ![p] = Ended(proc[p])]
      BY <3>1
    <3>2. CASE \E r \in Twins(p) : Answered(p, r)
      BY <2>1, <3>2 DEF Answered, Twins
    <3>3. CASE Creates(proc[p].ask, Quoted(proc[p].ask), proc[p].op)
      <4>1. Len(refunds') = Len(refunds) + 1
        BY <1>2, <3>3 DEF Creates, TypeInv, StripeTyped
      <4>2. Len(refunds') = Len(refunds)
        BY <2>3 DEF stripe
      <4>3. FALSE
        BY <1>2, <4>1, <4>2
      <4> QED BY <4>3
    <3> QED BY <3>1, <3>2, <3>3 DEF Pay, Ends
  <2> QED BY <2>2, <2>3
<1>5. ASSUME NEW r \in 0..MaxRefunds
      PROVE  Sound([proc[p] EXCEPT !.pc = "record", !.ref = r])
  <2> DEFINE h == [proc[p] EXCEPT !.pc = "record", !.ref = r]
  <2>1. h \in HandlerType
    BY <1>1 DEF HandlerType
  <2>2. h.pc = "record" /\ h.ev = proc[p].ev
    BY <1>1 DEF HandlerType
  <2> HIDE DEF h
  <2>3. Sound(h)
    BY <1>1, <2>1, <2>2 DEF Sound
  <2> QED BY <2>3 DEF h
<1> QED BY <1>3, <1>4, <1>5, EndedSound

LEMMA ReceiveSound ==
  ASSUME TypeInv, NEW p \in Procs, NEW e \in events, Receive(p, e),
         status # "REFUNDED"
  PROVE  \E h : Sound(h) /\ proc' = [proc EXCEPT ![p] = h]
<1> DEFINE cum == IF e.cum = 0 THEN Refunded ELSE e.cum
           op == IF cum < Total THEN "part" ELSE "whole"
           h(r, named) == [Idle EXCEPT !.pc = "wait", !.op = op, !.ref = r,
                             !.cum = cum, !.ask = named, !.ev = e]
<1>1. PICK r, named : /\ r \in About(e) /\ named \in Learnt(op, r)
                      /\ proc' = [proc EXCEPT ![p] = h(r, named)]
  BY DEF Receive
<1>2. e \in Event /\ e.ref \in DOMAIN refunds
  BY DEF TypeInv, StripeTyped
<1>3. r \in DOMAIN refunds /\ r \in 0..MaxRefunds
  BY <1>1, <1>2, Amounts, TypesHold, RefundAssumptions DEF About
<1>4. cum \in 0..Total
  BY <1>2, Amounts, TypesHold, TotalIsNat DEF TypeInv, StripeTyped, Event
<1>5. named \in SUBSET Items
  <2>1. refunds[r] \in RefundType
    BY <1>3 DEF TypeInv, StripeTyped
  <2> QED BY <1>1, <2>1 DEF Learnt, Named, RefundType
<1>6. DOMAIN refunds = 1..Len(refunds) /\ Len(refunds) \in Nat
  BY Amounts, TypesHold
<1>7. e # NoEvent
  BY <1>2, <1>6 DEF NoEvent
<1>8. Idle \in HandlerType
  BY IdleSound DEF Sound
<1> HIDE DEF cum
<1>9. h(r, named) \in HandlerType
  BY <1>2, <1>3, <1>4, <1>5, <1>8 DEF HandlerType
<1>10. h(r, named).pc = "wait" /\ h(r, named).op = op /\ h(r, named).ev = e
  BY <1>8 DEF HandlerType
<1> HIDE DEF h
<1>11. Sound(h(r, named))
  BY <1>2, <1>7, <1>9, <1>10 DEF Sound
<1> QED BY <1>1, <1>11

\* Enter, Record, Overrun: the record of a handler goes on.
LEMMA GoSound ==
  ASSUME TypeInv, NEW p \in Procs, Enter(p) \/ Record(p) \/ Overrun(p)
  PROVE  \E h : Sound(h) /\ proc' = [proc EXCEPT ![p] = h]
<1>1. /\ proc[p] \in HandlerType
      /\ proc[p].ev = NoEvent \/ proc[p].ev.ref \in DOMAIN refunds
      /\ proc[p].pc \in {"quote", "pay"} => proc[p].op \in Asks
  BY DEF TypeInv, HandlersTyped
<1>2. CASE Enter(p)
  <2> DEFINE h == [proc[p] EXCEPT !.pc = "record"]
  <2>1. h \in HandlerType /\ h.pc = "record" /\ h.ev = proc[p].ev
    BY <1>1 DEF HandlerType
  <2>2. proc' = [proc EXCEPT ![p] = h]
    BY <1>2 DEF Enter, Goes
  <2> HIDE DEF h
  <2> QED BY <1>1, <2>1, <2>2 DEF Sound
<1>3. CASE Record(p)
  <2> DEFINE seen == IF proc[p].op = "full" THEN proc[p].seen ELSE item
             h == [proc[p] EXCEPT !.pc = "write", !.seen = seen,
                                  !.prior = PriorDebits(p)]
  <2>1. CASE Overtaken(p)
    BY <1>3, <2>1, EndedSound DEF Record, Ends
  <2>2. CASE ~Overtaken(p)
    <3>1. seen \in [Items -> ItemStatuses] /\ PriorDebits(p) \in Nat
      BY <1>1, Debits1 DEF HandlerType, TypeInv, BooksTyped
    <3>2. proc' = [proc EXCEPT ![p] = h]
      BY <1>1, <1>3, <2>2 DEF Record, TypeInv, HandlersTyped, HandlerType
    <3> HIDE DEF seen
    <3>3. h \in HandlerType /\ h.pc = "write" /\ h.ev = proc[p].ev
      BY <1>1, <3>1 DEF HandlerType
    <3> HIDE DEF h
    <3> QED BY <1>1, <3>2, <3>3 DEF Sound
  <2> QED BY <2>1, <2>2
<1>4. CASE Overrun(p)
  <2> DEFINE h == [proc[p] EXCEPT !.late = TRUE]
  <2>1. /\ h \in HandlerType /\ h.pc = proc[p].pc /\ h.ev = proc[p].ev
        /\ h.op = proc[p].op
    BY <1>1 DEF HandlerType
  <2>2. proc' = [proc EXCEPT ![p] = h]
    BY <1>4 DEF Overrun
  <2>3. proc[p].pc # "wait"
    BY <1>4 DEF Overrun, Holding
  <2> HIDE DEF h
  <2> QED BY <1>1, <2>1, <2>2, <2>3 DEF Sound
<1> QED BY <1>2, <1>3, <1>4

LEMMA AskSound ==
  ASSUME NEW op \in Asks, NEW asked \in SUBSET Items
  PROVE  Sound([Idle EXCEPT !.pc = "quote", !.op = op, !.ask = asked])
<1> DEFINE h == [Idle EXCEPT !.pc = "quote", !.op = op, !.ask = asked]
<1>1. Idle \in HandlerType /\ Idle.ev = NoEvent
  BY IdleSound DEF Sound, Idle
<1>2. h \in HandlerType /\ h.pc = "quote" /\ h.op = op /\ h.ev = NoEvent
  BY <1>1 DEF HandlerType
<1> HIDE DEF h
<1>3. Sound(h)
  BY <1>2 DEF Sound
<1> QED BY <1>3 DEF h

LEMMA HandlersStep ==
  ASSUME TypeInv, Next
  PROVE  HandlersTyped'
<1>1. ASSUME NEW p \in Procs, Pay(p) PROVE HandlersTyped'
  BY <1>1, PaySound, OneSound
<1>2. ASSUME DashboardRefund PROVE HandlersTyped'
  <2>1. PICK new : refunds' = Append(refunds, new)
    BY <1>2 DEF DashboardRefund, Creates
  <2>2. DOMAIN refunds \subseteq DOMAIN refunds'
    <3>1. DOMAIN refunds = 1..Len(refunds) /\ Len(refunds) \in Nat
      BY Amounts, TypesHold
    <3>2. DOMAIN Append(refunds, new) = 1..(Len(refunds) + 1)
      BY DEF TypeInv, StripeTyped
    <3> QED BY <2>1, <3>1, <3>2
  <2>3. proc' = proc
    BY <1>2 DEF DashboardRefund
  <2> QED BY <2>2, <2>3 DEF TypeInv, HandlersTyped
<1>3. ASSUME NEW r \in DOMAIN refunds, Settle(r) PROVE HandlersTyped'
  <2>1. DOMAIN refunds' = DOMAIN refunds
    BY <1>3, TypesHold, Settling
  <2>2. proc' = proc
    BY <1>3 DEF Settle
  <2> QED BY <2>1, <2>2 DEF TypeInv, HandlersTyped
<1>4. CASE refunds' = refunds /\ proc' = proc
  BY <1>4 DEF TypeInv, HandlersTyped
<1>5. ASSUME NEW p \in Procs, refunds' = refunds,
             \E h : Sound(h) /\ proc' = [proc EXCEPT ![p] = h]
      PROVE  HandlersTyped'
  BY <1>5, OneSound
<1>6. ASSUME NEW p \in Procs, Handler(p), ~Pay(p) PROVE HandlersTyped'
  <2>1. CASE Request(p)
    <3>1. PICK op \in Asks, asked \in SUBSET Items : Ask(p, op, asked)
      BY <2>1 DEF Request, Asks
    <3> QED BY <1>5, <3>1, AskSound DEF Ask, stripe
  <2>2. CASE Quote(p)
    BY <1>5, <2>2, QuoteSound DEF Quote, stripe
  <2>3. CASE Enter(p) \/ Record(p) \/ Overrun(p)
    BY <1>5, <2>3, GoSound DEF Enter, Record, Overrun, stripe
  <2>4. CASE GiveUp(p) \/ Crash(p) \/ Release(p)
    BY <1>5, <2>4, IdleSound DEF GiveUp, Crash, Release, stripe
  <2>5. CASE Write(p) \/ Throw(p)
    BY <1>5, <2>5, EndedSound DEF Write, Throw, Ends, stripe
  <2>6. ASSUME NEW e \in events, Receive(p, e) PROVE HandlersTyped'
    <3>1. CASE status = "REFUNDED"
      BY <1>4, <2>6, <3>1 DEF Receive
    <3>2. CASE status # "REFUNDED"
      BY <1>5, <2>6, <3>2, ReceiveSound DEF Receive
    <3> QED BY <3>1, <3>2
  <2> QED BY <1>6, <2>1, <2>2, <2>3, <2>4, <2>5, <2>6 DEF Handler, Work
<1> QED
  BY <1>1, <1>2, <1>3, <1>4, <1>6
  DEF Next, Replay, Transfer, Lapse, stripe

LEMMA RestStep ==
  ASSUME TypeInv, Next
  PROVE  RestTyped'
<1>1. CASE UNCHANGED <<lock, overran, faults>>
  BY <1>1 DEF TypeInv, RestTyped
<1>2. Free \in [owner : Procs \union {NoProc}, lapsed : BOOLEAN]
  BY DEF Free
<1>3. CASE Lapse \/ \E i \in Items : Transfer(i)
  BY <1>2, <1>3 DEF TypeInv, RestTyped, Lapse, Transfer
<1>4. ASSUME NEW p \in Procs, Handler(p) PROVE RestTyped'
  <2>1. CASE Request(p) \/ Enter(p)
    <3>1. lock' = [owner |-> p, lapsed |-> FALSE]
      BY <2>1 DEF Request, Ask, Enter
    <3>2. lock' \in [owner : Procs \union {NoProc}, lapsed : BOOLEAN]
      BY <3>1
    <3>3. overran' = overran /\ faults' = faults
      BY <2>1 DEF Request, Ask, Enter
    <3> QED BY <3>2, <3>3 DEF TypeInv, RestTyped
  <2>2. CASE Release(p)
    BY <1>2, <2>2 DEF Release, ReleasesOwn, TypeInv, RestTyped
  <2>3. CASE Throw(p) \/ Crash(p)
    BY <2>3, RefundAssumptions DEF Throw, Crash, TypeInv, RestTyped
  <2>4. CASE Overrun(p)
    <3>1. lock' = [lock EXCEPT !.lapsed = TRUE]
      BY <2>4 DEF Overrun
    <3>2. lock' \in [owner : Procs \union {NoProc}, lapsed : BOOLEAN]
      BY <3>1 DEF TypeInv, RestTyped
    <3>3. overran' \in BOOLEAN
      BY <2>4 DEF Overrun
    <3>4. faults' \in 0..MaxFaults
      BY <2>4, RefundAssumptions DEF Overrun, TypeInv, RestTyped
    <3> QED BY <3>2, <3>3, <3>4 DEF RestTyped
  <2>5. CASE UNCHANGED <<lock, overran, faults>>
    BY <1>1, <2>5
  <2> QED BY <1>4, <2>1, <2>2, <2>3, <2>4, <2>5
          DEF Handler, Work, Quote, Pay, GiveUp, Record, Write, Receive
<1> QED
  BY <1>1, <1>3, <1>4 DEF Next, DashboardRefund, Settle, Replay

LEMMA TypeStep == TypeInv /\ [Next]_vars => TypeInv'
<1> SUFFICES ASSUME TypeInv, [Next]_vars PROVE TypeInv'
  OBVIOUS
<1>1. CASE UNCHANGED vars
  <2>1. Refunded' = Refunded
    BY <1>1, SameRefunds DEF vars, stripe
  <2> QED BY <1>1, <2>1 DEF TypeInv, BooksTyped, StripeTyped, RestTyped,
                            HandlersTyped, vars, books, stripe
<1> QED BY <1>1, BooksStep, StripeStep, HandlersStep, RestStep DEF TypeInv

LEMMA TypeInit == Init => TypeInv
<1> SUFFICES ASSUME Init PROVE TypeInv
  OBVIOUS
<1>1. BooksTyped
  BY FS_EmptySet DEF Init, BooksTyped, Statuses, Active, ItemStatuses
<1>2. Refunded = 0 /\ DOMAIN refunds = {}
  <2>1. DOMAIN refunds = {} /\ Alive = {}
    BY DEF Init, Alive
  <2> QED BY <2>1, SumEmpty, RefundedIsSum
<1>3. StripeTyped
  BY <1>2, TotalIsNat, RefundAssumptions DEF Init, StripeTyped
<1>4. RestTyped
  <2>1. lock \in [owner : Procs \union {NoProc}, lapsed : BOOLEAN]
    BY DEF Init, Free
  <2>2. overran \in BOOLEAN
    BY DEF Init
  <2>3. faults \in 0..MaxFaults
    BY RefundAssumptions DEF Init
  <2> QED BY <2>1, <2>2, <2>3 DEF RestTyped
<1>5. HandlersTyped
  BY IdleSound DEF Init, HandlersTyped, Sound
<1> QED BY <1>1, <1>3, <1>4, <1>5 DEF TypeInv

\* Every state of a refund has its type: no more is paid back than the buyer
\* paid, and no handler or event names a refund that is not there.
THEOREM RefundTypes == Spec => []TypeOK
<1>1. Spec => []TypeInv
  BY TypeInit, TypeStep, PTL DEF Spec
<1> QED BY <1>1, TypesHold, PTL

-----------------------------------------------------------------------------
(* What a step makes of its handler's record.                              *)

\* The mutex is not outlived by anyone yet.
LEMMA InTime ==
  ASSUME TypeInv, Next, ~overran'
  PROVE  ~overran /\ \A p \in Procs : ~Overrun(p)
<1>1. overran' = overran \/ overran' = TRUE
  BY DEF Next, Handler, Work, Request, Ask, Quote, Pay, Enter, GiveUp, Record,
         Write, Release, Receive, Throw, Crash, Overrun, DashboardRefund,
         Settle, Replay, Transfer, Lapse
<1> QED BY <1>1 DEF Overrun

\* Then one operation is inside.
LEMMA Alone ==
  ASSUME RefundInv, ~overran, NEW p \in Procs, NEW q \in Procs,
         Holding(p), Holding(q)
  PROVE  p = q
  BY DEF RefundInv, InsideOwns

LEMMA BeIdle ==
  ASSUME TypeInv, NEW p \in Procs, GiveUp(p) \/ Crash(p) \/ Release(p)
  PROVE  /\ proc'[p].pc = "idle" /\ proc'[p].ev = NoEvent
         /\ \A q \in Procs \ {p} : proc'[q] = proc[q]
<1>1. proc' = [proc EXCEPT ![p] = Idle]
  BY DEF GiveUp, Crash, Release
<1> QED BY <1>1 DEF Idle, TypeInv, HandlersTyped

LEMMA BeEnded ==
  ASSUME TypeInv, NEW p \in Procs, Ends(p)
  PROVE  /\ proc'[p].pc = "release" /\ proc'[p].ev = proc[p].ev
         /\ \A q \in Procs \ {p} : proc'[q] = proc[q]
<1>1. Ended(proc[p]).pc = "release" /\ Ended(proc[p]).ev = proc[p].ev
  BY DEF Ended, Idle
<1>2. proc' = [proc EXCEPT ![p] = Ended(proc[p])]
  BY DEF Ends
<1> QED BY <1>1, <1>2 DEF TypeInv, HandlersTyped

LEMMA BeAsking ==
  ASSUME TypeInv, NEW p \in Procs, Request(p)
  PROVE  /\ proc'[p].pc = "quote" /\ proc'[p].ev = NoEvent
         /\ \A q \in Procs \ {p} : proc'[q] = proc[q]
<1>1. PICK op, asked : Ask(p, op, asked)
  BY DEF Request
<1> DEFINE h == [Idle EXCEPT !.pc = "quote", !.op = op, !.ask = asked]
<1>2. h.pc = "quote" /\ h.ev = NoEvent
  BY DEF Idle
<1>3. proc' = [proc EXCEPT ![p] = h]
  BY <1>1 DEF Ask
<1> HIDE DEF h
<1> QED BY <1>2, <1>3 DEF TypeInv, HandlersTyped

LEMMA BeInside ==
  ASSUME TypeInv, NEW p \in Procs, Enter(p)
  PROVE  /\ proc'[p].pc = "record"
         /\ proc'[p].op = proc[p].op /\ proc'[p].ask = proc[p].ask
         /\ proc'[p].ref = proc[p].ref /\ proc'[p].cum = proc[p].cum
         /\ proc'[p].ev = proc[p].ev
         /\ \A q \in Procs \ {p} : proc'[q] = proc[q]
<1> DEFINE h == [proc[p] EXCEPT !.pc = "record"]
<1>1. proc[p] \in HandlerType
  BY DEF TypeInv, HandlersTyped
<1>2. /\ h.pc = "record" /\ h.op = proc[p].op /\ h.ask = proc[p].ask
      /\ h.ref = proc[p].ref /\ h.cum = proc[p].cum /\ h.ev = proc[p].ev
  BY <1>1 DEF HandlerType
<1>3. proc' = [proc EXCEPT ![p] = h]
  BY DEF Enter, Goes
<1> HIDE DEF h
<1> QED BY <1>2, <1>3 DEF TypeInv, HandlersTyped

LEMMA BeWriting ==
  ASSUME TypeInv, NEW p \in Procs, Record(p), ~Overtaken(p)
  PROVE  /\ proc'[p].pc = "write"
         /\ proc'[p].op = proc[p].op /\ proc'[p].ask = proc[p].ask
         /\ proc'[p].ref = proc[p].ref /\ proc'[p].cum = proc[p].cum
         /\ proc'[p].ev = proc[p].ev /\ proc'[p].prior = PriorDebits(p)
         /\ \A q \in Procs \ {p} : proc'[q] = proc[q]
<1> DEFINE seen == IF proc[p].op = "full" THEN proc[p].seen ELSE item
           h == [proc[p] EXCEPT !.pc = "write", !.seen = seen,
                                !.prior = PriorDebits(p)]
<1>1. proc[p] \in HandlerType
  BY DEF TypeInv, HandlersTyped
<1>2. /\ h.pc = "write" /\ h.op = proc[p].op /\ h.ask = proc[p].ask
      /\ h.ref = proc[p].ref /\ h.cum = proc[p].cum /\ h.ev = proc[p].ev
      /\ h.prior = PriorDebits(p)
  BY <1>1 DEF HandlerType
<1>3. proc' = [proc EXCEPT ![p] = h]
  BY <1>1 DEF Record, TypeInv, HandlersTyped, HandlerType
<1> HIDE DEF h
<1> QED BY <1>2, <1>3 DEF TypeInv, HandlersTyped

\* An answer of Stripe is recorded or left to the refund's own event.
LEMMA BeAnswered ==
  ASSUME TypeInv, NEW p \in Procs, NEW r, Answered(p, r)
  PROVE  /\ \A q \in Procs \ {p} : proc'[q] = proc[q]
         /\ proc'[p].ev = proc[p].ev
         /\ charge.async => proc'[p].pc = "release"
         /\ ~charge.async => /\ proc'[p].pc = "record" /\ proc'[p].ref = r
                             /\ proc'[p].op = proc[p].op
                             /\ proc'[p].ask = proc[p].ask
<1>1. CASE charge.async
  BY <1>1, BeEnded DEF Answered, Ends
<1>2. CASE ~charge.async
  <2> DEFINE h == [proc[p] EXCEPT !.pc = "record", !.ref = r]
  <2>1. proc[p] \in HandlerType
    BY DEF TypeInv, HandlersTyped
  <2>2. /\ h.pc = "record" /\ h.op = proc[p].op /\ h.ask = proc[p].ask
        /\ h.ref = r /\ h.ev = proc[p].ev
    BY <2>1 DEF HandlerType
  <2>3. proc' = [proc EXCEPT ![p] = h]
    BY <1>2 DEF Answered
  <2> HIDE DEF h
  <2> QED BY <1>2, <2>2, <2>3 DEF TypeInv, HandlersTyped
<1> QED BY <1>1, <1>2

LEMMA BeQuoted ==
  ASSUME TypeInv, NEW p \in Procs, Quote(p)
  PROVE  LET asked == IF proc[p].op = "full"
                      THEN {i \in Items : item[i] = "active"}
                      ELSE proc[p].ask IN
         /\ \A q \in Procs \ {p} : proc'[q] = proc[q]
         /\ proc'[p].ev = proc[p].ev
         /\ \/ proc'[p].pc = "release"
            \/ /\ proc'[p].pc = "pay" /\ Overlaps(asked) = {}
               /\ Eligible(p, asked)
               /\ proc'[p].op = proc[p].op /\ proc'[p].ask = asked
            \/ /\ proc'[p].pc = "record"
               /\ Eligible(p, asked)
               /\ proc'[p].op = proc[p].op /\ proc'[p].ask = asked
               /\ proc'[p].ref \in Reusable(asked)
               /\ refunds[proc'[p].ref].state = "succeeded"
<1> DEFINE asked == IF proc[p].op = "full"
                    THEN {i \in Items : item[i] = "active"} ELSE proc[p].ask
           r == Max(Reusable(asked))
           paying == [proc[p] EXCEPT !.pc = "pay", !.ask = asked,
                                     !.seen = Seen(p)]
           found == [proc[p] EXCEPT !.pc = "record", !.ask = asked, !.ref = r,
                                    !.seen = Seen(p)]
<1>1. proc[p] \in HandlerType /\ DOMAIN proc = Procs
  BY DEF TypeInv, HandlersTyped
<1>2. \/ Ends(p)
      \/ /\ proc' = [proc EXCEPT ![p] = paying] /\ Overlaps(asked) = {}
         /\ Eligible(p, asked)
      \/ /\ proc' = [proc EXCEPT ![p] = found] /\ Reusable(asked) # {}
         /\ Eligible(p, asked) /\ refunds[r].state = "succeeded"
  BY DEF Quote, Ends
<1>3. /\ paying.pc = "pay" /\ paying.op = proc[p].op /\ paying.ask = asked
      /\ paying.ev = proc[p].ev
  BY <1>1 DEF HandlerType
<1>4. /\ found.pc = "record" /\ found.op = proc[p].op /\ found.ask = asked
      /\ found.ref = r /\ found.ev = proc[p].ev
  BY <1>1 DEF HandlerType
<1>5. Reusable(asked) # {} => r \in Reusable(asked)
  <2>1. Reusable(asked) \subseteq 0..MaxRefunds
    BY Amounts, TypesHold, RefundAssumptions DEF Reusable, Overlaps, Alive
  <2> QED BY <2>1, MaxIsIn, RefundAssumptions
<1> HIDE DEF paying, found, r, asked
<1>6. CASE Ends(p)
  BY <1>6, BeEnded DEF asked
<1>7. CASE /\ proc' = [proc EXCEPT ![p] = paying] /\ Overlaps(asked) = {}
           /\ Eligible(p, asked)
  <2>1. proc'[p] = paying /\ \A q \in Procs \ {p} : proc'[q] = proc[q]
    BY <1>1, <1>7
  <2> QED BY <1>3, <1>7, <2>1 DEF asked
<1>8. CASE /\ proc' = [proc EXCEPT ![p] = found] /\ Reusable(asked) # {}
           /\ Eligible(p, asked) /\ refunds[r].state = "succeeded"
  <2>1. proc'[p] = found /\ \A q \in Procs \ {p} : proc'[q] = proc[q]
    BY <1>1, <1>8
  <2> QED BY <1>4, <1>5, <1>8, <2>1 DEF asked
<1> QED BY <1>2, <1>6, <1>7, <1>8

LEMMA BeWaiting ==
  ASSUME TypeInv, NEW p \in Procs, NEW e \in events, Receive(p, e),
         status # "REFUNDED"
  PROVE  /\ \A q \in Procs \ {p} : proc'[q] = proc[q]
         /\ proc'[p].pc = "wait" /\ proc'[p].ev = e
         /\ proc'[p].ref \in DOMAIN refunds
         /\ proc'[p].cum = IF e.cum = 0 THEN Refunded ELSE e.cum
         /\ proc'[p].op = IF proc'[p].cum < Total THEN "part" ELSE "whole"
         /\ proc'[p].op = "part" => proc'[p].ask \in {Named(proc'[p].ref), {}}
<1> DEFINE cum == IF e.cum = 0 THEN Refunded ELSE e.cum
           op == IF cum < Total THEN "part" ELSE "whole"
           h(r, named) == [Idle EXCEPT !.pc = "wait", !.op = op, !.ref = r,
                             !.cum = cum, !.ask = named, !.ev = e]
<1>1. PICK r, named : /\ r \in About(e) /\ named \in Learnt(op, r)
                      /\ proc' = [proc EXCEPT ![p] = h(r, named)]
  BY DEF Receive
<1>2. r \in DOMAIN refunds
  BY <1>1 DEF About, TypeInv, StripeTyped
<1>3. Idle \in HandlerType /\ DOMAIN proc = Procs
  BY IdleSound DEF Sound, TypeInv, HandlersTyped
<1> HIDE DEF cum
<1>4. /\ h(r, named).pc = "wait" /\ h(r, named).op = op
      /\ h(r, named).ev = e /\ h(r, named).ref = r
      /\ h(r, named).cum = cum /\ h(r, named).ask = named
  BY <1>3 DEF HandlerType
<1> HIDE DEF h
<1>5. proc'[p] = h(r, named) /\ \A q \in Procs \ {p} : proc'[q] = proc[q]
  BY <1>1, <1>3
<1>6. /\ proc'[p].pc = "wait" /\ proc'[p].ev = e /\ proc'[p].ref = r
      /\ proc'[p].cum = cum /\ proc'[p].op = op
      /\ proc'[p].ask = named
  BY <1>4, <1>5
<1>7. named \in {Named(r), {}}
  BY <1>1 DEF Learnt
<1> QED BY <1>2, <1>5, <1>6, <1>7 DEF cum

-----------------------------------------------------------------------------
(* No item is paid back twice.                                             *)

\* Living refunds share no item, and a handler that is about to pay found none
\* of its items among theirs.
Once == ~overran =>
  /\ \A r, s \in Alive : r # s =>
       refunds[r].names \intersect refunds[s].names = {}
  /\ \A p \in Procs : proc[p].pc = "pay" => Overlaps(proc[p].ask) = {}

\* A refund of items that no living refund names is one more of these.
LEMMA OnceCreates ==
  ASSUME TypeInv, Once, ~overran, NEW names \in SUBSET Items,
         NEW cents \in 0..Total, NEW by \in Asks \union {"staff"},
         Creates(names, cents, by), Overlaps(names) = {},
         \A p \in Procs : proc'[p].pc = "pay" =>
           proc[p].pc = "pay" /\ proc'[p].ask = proc[p].ask /\ names = {}
  PROVE  Once'
<1> DEFINE n == Len(refunds) + 1
<1>1. /\ n \notin DOMAIN refunds /\ Alive' = Alive \union {n}
      /\ \A r \in DOMAIN refunds : refunds'[r] = refunds[r]
      /\ refunds'[n].names = names
  <2>1. /\ Len(refunds) + 1 \notin DOMAIN refunds
        /\ Alive' = Alive \union {Len(refunds) + 1}
        /\ \A r \in DOMAIN refunds : refunds'[r] = refunds[r]
        /\ refunds'[Len(refunds) + 1] =
             [names |-> names, cents |-> cents, by |-> by,
              state |-> IF charge.async THEN "pending" ELSE "succeeded"]
    BY TypesHold, Creating
  <2> QED BY <2>1
<1> HIDE DEF n
<1>2. \A r \in Alive : /\ r \in DOMAIN refunds /\ r # n
                       /\ refunds'[r].names = refunds[r].names
                       /\ refunds[r].names \intersect names = {}
  BY <1>1 DEF Alive, Overlaps
<1>3. \A r, s \in Alive' : r # s =>
        refunds'[r].names \intersect refunds'[s].names = {}
  <2> SUFFICES ASSUME NEW r \in Alive', NEW s \in Alive', r # s
               PROVE  refunds'[r].names \intersect refunds'[s].names = {}
    OBVIOUS
  <2>1. CASE r = n
    BY <1>1, <1>2, <2>1
  <2>2. CASE s = n
    BY <1>1, <1>2, <2>2
  <2>3. CASE r # n /\ s # n
    BY <1>1, <1>2, <2>3 DEF Once
  <2> QED BY <2>1, <2>2, <2>3
<1>4. \A p \in Procs : proc'[p].pc = "pay" => Overlaps(proc[p].ask)' = {}
  <2> SUFFICES ASSUME NEW p \in Procs, proc'[p].pc = "pay",
                      NEW r \in Alive',
                      refunds'[r].names \intersect proc'[p].ask # {}
               PROVE  FALSE
    BY DEF Overlaps
  <2>1. /\ Overlaps(proc[p].ask) = {} /\ proc'[p].ask = proc[p].ask
        /\ names = {}
    BY DEF Once
  <2>2. r \in Alive
    BY <1>1, <2>1
  <2> QED BY <1>2, <2>1, <2>2 DEF Overlaps
<1> QED BY <1>3, <1>4 DEF Once

\* A step that creates no refund and prepares none.
LEMMA OnceKept ==
  ASSUME Once, Alive' \subseteq Alive,
         \A r \in Alive : refunds'[r].names = refunds[r].names,
         overran => overran',
         \A p \in Procs : proc'[p].pc = "pay" =>
           Overlaps(proc'[p].ask) = {}
  PROVE  Once'
<1> SUFFICES ASSUME ~overran' PROVE Once'
  BY DEF Once
<1>1. ~overran
  OBVIOUS
<1>2. \A r, s \in Alive' : r # s =>
        refunds'[r].names \intersect refunds'[s].names = {}
  BY <1>1 DEF Once
<1>3. \A p \in Procs : proc'[p].pc = "pay" => Overlaps(proc[p].ask)' = {}
  BY DEF Overlaps
<1> QED BY <1>2, <1>3 DEF Once

LEMMA OnceStep ==
  ASSUME TypeInv, RefundInv, Once, Next
  PROVE  Once'
<1> SUFFICES ASSUME ~overran' PROVE Once'
  BY DEF Once
<1>1. ~overran /\ \A p \in Procs : ~Overrun(p)
  BY InTime
<1>2. ASSUME refunds' = refunds,
             \A p \in Procs : proc'[p].pc = "pay" =>
               Overlaps(proc'[p].ask) = {}
      PROVE  Once'
  BY <1>1, <1>2, SameRefunds, OnceKept
<1>3. \A p \in Procs : proc[p].pc = "pay" => Overlaps(proc[p].ask) = {}
  BY <1>1 DEF Once
<1>4. ASSUME NEW p \in Procs, Handler(p) PROVE Once'
  <2>1. ASSUME refunds' = refunds, proc'[p].pc # "pay",
               \A q \in Procs \ {p} : proc'[q] = proc[q]
        PROVE  Once'
    BY <1>2, <1>3, <2>1
  <2>2. CASE Pay(p)
    <3>1. /\ proc'[p].pc # "pay" /\ \A q \in Procs \ {p} : proc'[q] = proc[q]
      <4>1. PICK r : Ends(p) \/ Answered(p, r)
        BY <2>2 DEF Pay
      <4> QED BY <4>1, BeEnded, BeAnswered
    <3>2. CASE UNCHANGED stripe
      BY <2>1, <3>1, <3>2 DEF stripe
    <3>3. CASE ~UNCHANGED stripe
      <4> DEFINE cents == Quoted(proc[p].ask)
      <4>1. proc[p].ask \in SUBSET Items /\ proc[p].pc = "pay"
            /\ proc[p].op \in Asks
        BY <2>2 DEF Pay, TypeInv, HandlersTyped, HandlerType
      <4>2. cents \in 0..Total
        BY <4>1, Quotes DEF TypeInv, StripeTyped
      <4>3. Creates(proc[p].ask, cents, proc[p].op)
        BY <2>2, <3>3 DEF Pay
      <4>4. Overlaps(proc[p].ask) = {}
        BY <1>3, <4>1
      <4>5. \A q \in Procs : proc'[q].pc # "pay"
        BY <1>1, <3>1, <4>1, Alone DEF Holding
      <4> HIDE DEF cents
      <4> QED BY <1>1, <4>1, <4>2, <4>3, <4>4, <4>5, OnceCreates
    <3> QED BY <3>2, <3>3
  <2>3. CASE Quote(p)
    <3>1. refunds' = refunds
      BY <2>3 DEF Quote, stripe
    <3>2. /\ proc'[p].pc = "pay" => Overlaps(proc'[p].ask) = {}
          /\ \A q \in Procs \ {p} : proc'[q] = proc[q]
      BY <2>3, BeQuoted
    <3> QED BY <1>2, <1>3, <3>1, <3>2
  <2>4. CASE Request(p)
    BY <2>1, <2>4, BeAsking DEF Request, Ask, stripe
  <2>5. CASE Enter(p)
    BY <2>1, <2>5, BeInside DEF Enter, stripe
  <2>6. CASE Write(p) \/ Throw(p) \/ (Record(p) /\ Overtaken(p))
    BY <2>1, <2>6, BeEnded DEF Write, Throw, Record, stripe
  <2>7. CASE Record(p) /\ ~Overtaken(p)
    BY <2>1, <2>7, BeWriting DEF Record, stripe
  <2>8. CASE GiveUp(p) \/ Crash(p) \/ Release(p)
    BY <2>1, <2>8, BeIdle DEF GiveUp, Crash, Release, stripe
  <2>9. ASSUME NEW e \in events, Receive(p, e) PROVE Once'
    <3>1. refunds' = refunds
      BY <2>9 DEF Receive
    <3>2. CASE status = "REFUNDED"
      BY <1>2, <1>3, <2>9, <3>1, <3>2 DEF Receive
    <3>3. CASE status # "REFUNDED"
      BY <2>1, <2>9, <3>1, <3>3, BeWaiting
    <3> QED BY <3>2, <3>3
  <2> QED
    BY <1>1, <1>4, <2>2, <2>3, <2>4, <2>5, <2>6, <2>7, <2>8, <2>9
    DEF Handler, Work
<1>5. CASE DashboardRefund
  <2>1. PICK cents \in 1..(Total - Refunded) : Creates({}, cents, "staff")
    BY <1>5 DEF DashboardRefund
  <2>2. cents \in 0..Total
    BY Amounts, TypesHold, TotalIsNat
  <2>3. proc' = proc
    BY <1>5 DEF DashboardRefund
  <2>4. Overlaps({}) = {}
    BY DEF Overlaps
  <2> QED BY <1>1, <2>1, <2>2, <2>3, <2>4, OnceCreates
<1>6. ASSUME NEW r \in DOMAIN refunds, Settle(r) PROVE Once'
  <2>1. \A s \in DOMAIN refunds : refunds'[s].names = refunds[s].names
    BY <1>6, TypesHold, Settling
  <2>2. Alive' \subseteq Alive
    BY <1>6, TypesHold, Settling
  <2>3. proc' = proc
    BY <1>6 DEF Settle
  <2> QED BY <1>1, <1>3, <2>1, <2>2, <2>3, OnceKept DEF Alive
<1>7. CASE Lapse \/ (\E e \in parked : Replay(e)) \/ \E i \in Items : Transfer(i)
  BY <1>2, <1>3, <1>7 DEF Lapse, Replay, Transfer, stripe
<1> QED BY <1>4, <1>5, <1>6, <1>7 DEF Next

\* What the buyer of an item gets back, the platform's refunds pay once, for
\* any items and charges: an earlier refund is found under the mutex.
THEOREM OncePaidBack == Spec => []RefundedOnce
<1>1. Init => Once
  BY DEF Init, Once, Alive, Idle
<1>2. TypeInv /\ RefundInv /\ Once /\ [Next]_vars => Once'
  <2> SUFFICES ASSUME TypeInv, RefundInv, Once, [Next]_vars PROVE Once'
    OBVIOUS
  <2>1. CASE UNCHANGED vars
    BY <2>1 DEF Once, Alive, Overlaps, vars, stripe
  <2> QED BY <2>1, OnceStep
<1>3. TypeInv /\ Once => RefundedOnce
  <2> SUFFICES ASSUME TypeInv, Once, ~overran, NEW i \in Items
               PROVE  Cardinality({r \in Alive : i \in refunds[r].names}) <= 1
    BY DEF RefundedOnce
  <2> DEFINE S == {r \in Alive : i \in refunds[r].names}
  <2>1. \A r, s \in S : r = s
    BY DEF Once
  <2>2. CASE S = {}
    <3>1. Cardinality(S) = 0
      BY <2>2, FS_EmptySet
    <3> QED BY <3>1
  <2>3. CASE S # {}
    <3>1. PICK r : S = {r}
      BY <2>1, <2>3
    <3>2. Cardinality(S) = 1
      BY <3>1, FS_Singleton
    <3> QED BY <3>2
  <2> QED BY <2>2, <2>3
<1> QED
  BY <1>1, <1>2, <1>3, TypeInit, TypeStep, RefundInvariance, PTL DEF Spec

-----------------------------------------------------------------------------
(* The payee's debits cover what Stripe paid back.                         *)

Arms == {"whole", "part"}

\* The reconciliation under way of an event, and where an event can still be.
Carries(p) == /\ proc[p].pc \in {"wait", "record", "write"}
              /\ proc[p].op \in Arms
Outstanding(e) == \/ e \in events \union parked
                  \/ \E p \in Procs : Carries(p) /\ proc[p].ev = e

Carried == ~overran => \A p \in Procs : Carries(p) =>
  /\ proc[p].ref \in DOMAIN refunds
  /\ proc[p].ev # NoEvent
  /\ proc[p].ev.cum # 0 => proc[p].cum = proc[p].ev.cum
  /\ proc[p].op = "whole" <=> proc[p].cum >= Total

\* A recording transaction writes on what it read.
Judged == ~overran => \A p \in Procs :
  /\ proc[p].pc = "write" =>
       proc[p].prior = PriorDebits(p) /\ status # "REFUNDED"
  /\ proc[p].pc \in {"pay", "record"} /\ proc[p].op \notin Arms \union {"full"}
       => status # "REFUNDED"

\* A row that is keyed by a cumulative amount brought the debits up to it; and
\* what the debits still lack, some event that has not been handled tells.
Covered == ~overran =>
  /\ \A row \in ledger : row.key[2] <= Debited
  /\ Debited <= Total
  /\ \/ status = "REFUNDED" \/ Refunded <= Debited
     \/ \E e \in Event : Outstanding(e) /\ e.cum >= Refunded

BooksInv == Carried /\ Judged /\ Covered

LEMMA PriorSame ==
  ASSUME NEW p, ledger' = ledger, RowKey(p)' = RowKey(p)
  PROVE  PriorDebits(p)' = PriorDebits(p)
<1>1. (PriorDebits(p) =
         SumOver(Debit, {row \in ledger : row.key # RowKey(p)}))'
  BY PriorIsSum, PTL
<1>2. Debit' = Debit
  BY DEF Debit
<1> QED BY <1>1, <1>2, PriorIsSum

\* The steps that change the refunds: a payment, the dashboard's, an end.
LEMMA RefundKinds ==
  ASSUME TypeInv, Next
  PROVE  \/ refunds' = refunds
         \/ \E p \in Procs :
              /\ Pay(p) /\ proc[p].pc = "pay" /\ proc[p].ask \in SUBSET Items
              /\ proc[p].op \in Asks /\ Quoted(proc[p].ask) \in 0..Total
              /\ Creates(proc[p].ask, Quoted(proc[p].ask), proc[p].op)
         \/ charge.staff /\ \E cents \in 0..Total : Creates({}, cents, "staff")
         \/ \E r \in DOMAIN refunds : Settle(r)
<1>1. ASSUME NEW p \in Procs, Pay(p), refunds' # refunds
      PROVE  /\ proc[p].pc = "pay" /\ proc[p].ask \in SUBSET Items
             /\ proc[p].op \in Asks /\ Quoted(proc[p].ask) \in 0..Total
             /\ Creates(proc[p].ask, Quoted(proc[p].ask), proc[p].op)
  <2>1. /\ proc[p].pc = "pay" /\ proc[p].ask \in SUBSET Items
        /\ proc[p].op \in Asks
    BY <1>1 DEF Pay, TypeInv, HandlersTyped, HandlerType
  <2>2. Quoted(proc[p].ask) \in 0..Total
    BY <2>1, Quotes DEF TypeInv, StripeTyped
  <2>3. Creates(proc[p].ask, Quoted(proc[p].ask), proc[p].op)
    BY <1>1 DEF Pay, stripe
  <2> QED BY <2>1, <2>2, <2>3
<1>2. ASSUME DashboardRefund
      PROVE  charge.staff /\ \E cents \in 0..Total : Creates({}, cents, "staff")
  <2>1. PICK cents \in 1..(Total - Refunded) : Creates({}, cents, "staff")
    BY <1>2 DEF DashboardRefund
  <2>2. cents \in 0..Total
    BY Amounts, TypesHold, TotalIsNat
  <2> QED BY <1>2, <2>1, <2>2 DEF DashboardRefund
<1>3. \/ refunds' = refunds \/ (\E p \in Procs : Pay(p) /\ refunds' # refunds)
      \/ DashboardRefund \/ \E r \in DOMAIN refunds : Settle(r)
  BY DEF Next, Handler, Work, Request, Ask, Quote, Enter, GiveUp, Record, Write,
         Release, Receive, Throw, Crash, Overrun, Replay, Transfer, Lapse, stripe
<1> QED BY <1>1, <1>2, <1>3

\* Refunds are not forgotten, and those that have moved do not change.
LEMMA RefundsStay ==
  ASSUME TypeInv, Next
  PROVE  /\ DOMAIN refunds \subseteq DOMAIN refunds'
         /\ \A r \in DOMAIN refunds :
              /\ refunds'[r].names = refunds[r].names
              /\ refunds'[r].cents = refunds[r].cents
              /\ refunds[r].state = "succeeded" => refunds'[r] = refunds[r]
<1>1. CASE refunds' = refunds
  BY <1>1
<1>2. ASSUME NEW names \in SUBSET Items, NEW cents \in 0..Total,
             NEW by \in Asks \union {"staff"}, Creates(names, cents, by)
      PROVE  /\ DOMAIN refunds \subseteq DOMAIN refunds'
             /\ \A r \in DOMAIN refunds : refunds'[r] = refunds[r]
  <2>1. /\ DOMAIN refunds' = DOMAIN refunds \union {Len(refunds) + 1}
        /\ \A r \in DOMAIN refunds : refunds'[r] = refunds[r]
    BY <1>2, Creating, TypesHold
  <2> QED BY <2>1
<1>3. CASE \E r \in DOMAIN refunds : Settle(r)
  BY <1>3, Settling, TypesHold
<1> QED BY <1>1, <1>2, <1>3, RefundKinds

\* A step of one handler leaves the others where they are.
LEMMA OthersSame ==
  ASSUME TypeInv, NEW q \in Procs, Handler(q), ~Overrun(q),
         NEW p \in Procs, p # q
  PROVE  proc'[p] = proc[p]
<1>1. CASE Quote(q)
  BY <1>1, BeQuoted
<1>2. CASE Pay(q)
  <2>1. PICK r : Ends(q) \/ Answered(q, r)
    BY <1>2 DEF Pay
  <2> QED BY <2>1, BeEnded, BeAnswered
<1>3. CASE Request(q) \/ Enter(q) \/ (Record(q) /\ ~Overtaken(q))
  BY <1>3, BeAsking, BeInside, BeWriting
<1>4. CASE Write(q) \/ Throw(q) \/ (Record(q) /\ Overtaken(q))
  BY <1>4, BeEnded DEF Write, Throw, Record
<1>5. CASE GiveUp(q) \/ Crash(q) \/ Release(q)
  BY <1>5, BeIdle
<1>6. ASSUME NEW e \in events, Receive(q, e) PROVE proc'[p] = proc[p]
  <2>1. CASE status = "REFUNDED"
    BY <1>6, <2>1 DEF Receive
  <2> QED BY <1>6, <2>1, BeWaiting
<1> QED BY <1>1, <1>2, <1>3, <1>4, <1>5, <1>6 DEF Handler, Work

LEMMA CarriedStep ==
  ASSUME TypeInv, RefundInv, Carried, Next
  PROVE  Carried'
<1> SUFFICES ASSUME ~overran', NEW p \in Procs, Carries(p)'
             PROVE  /\ proc'[p].ref \in DOMAIN refunds'
                    /\ proc'[p].ev # NoEvent
                    /\ proc'[p].ev.cum # 0 => proc'[p].cum = proc'[p].ev.cum
                    /\ proc'[p].op = "whole" <=> proc'[p].cum >= Total
  BY DEF Carried
<1>1. ~overran /\ \A q \in Procs : ~Overrun(q)
  BY InTime
<1>2. DOMAIN refunds \subseteq DOMAIN refunds'
  BY RefundsStay
<1>3. /\ proc'[p].pc \in {"wait", "record", "write"} /\ proc'[p].op \in Arms
  BY DEF Carries
<1>4. CASE /\ proc[p].pc \in {"wait", "record", "write"}
           /\ proc'[p].op = proc[p].op /\ proc'[p].ref = proc[p].ref
           /\ proc'[p].cum = proc[p].cum /\ proc'[p].ev = proc[p].ev
  BY <1>1, <1>2, <1>3, <1>4 DEF Carried, Carries
<1>5. CASE proc'[p] = proc[p]
  BY <1>3, <1>4, <1>5
<1>6. ASSUME NEW q \in Procs, Handler(q), q # p PROVE proc'[p] = proc[p]
  BY <1>1, <1>6, OthersSame
<1>7. CASE Handler(p)
  <2>1. CASE Quote(p)
    <3>1. proc[p].op \in Asks
      BY <2>1 DEF Quote, TypeInv, HandlersTyped
    <3>2. proc'[p].op = proc[p].op
      BY <2>1, <1>3, BeQuoted
    <3>3. FALSE
      BY <3>1, <3>2, <1>3 DEF Asks, Arms
    <3> QED BY <3>3
  <2>2. CASE Pay(p)
    <3>1. proc[p].op \in Asks
      BY <2>2 DEF Pay, TypeInv, HandlersTyped
    <3>2. PICK r : Ends(p) \/ Answered(p, r)
      BY <2>2 DEF Pay
    <3>3. proc'[p].op = proc[p].op
      BY <3>2, <1>3, BeEnded, BeAnswered
    <3>4. FALSE
      BY <3>1, <3>3, <1>3 DEF Asks, Arms
    <3> QED BY <3>4
  <2>3. CASE Request(p)
    BY <2>3, <1>3, BeAsking
  <2>4. CASE Enter(p)
    BY <2>4, <1>4, BeInside DEF Enter
  <2>5. CASE Record(p) /\ ~Overtaken(p)
    BY <2>5, <1>4, BeWriting DEF Record
  <2>6. CASE Write(p) \/ Throw(p) \/ (Record(p) /\ Overtaken(p))
    BY <2>6, <1>3, BeEnded DEF Write, Throw, Record
  <2>7. CASE GiveUp(p) \/ Crash(p) \/ Release(p)
    BY <2>7, <1>3, BeIdle
  <2>8. ASSUME NEW e \in events, Receive(p, e), status # "REFUNDED"
        PROVE  /\ proc'[p].ref \in DOMAIN refunds'
               /\ proc'[p].ev # NoEvent
               /\ proc'[p].ev.cum # 0 => proc'[p].cum = proc'[p].ev.cum
               /\ proc'[p].op = "whole" <=> proc'[p].cum >= Total
    <3>1. /\ proc'[p].ev = e /\ proc'[p].ref \in DOMAIN refunds
          /\ proc'[p].cum = IF e.cum = 0 THEN Refunded ELSE e.cum
          /\ proc'[p].op = IF proc'[p].cum < Total THEN "part" ELSE "whole"
      BY <2>8, BeWaiting
    <3>2. e \in Event /\ e.ref \in DOMAIN refunds
      BY DEF TypeInv, StripeTyped
    <3>3. e # NoEvent
      BY <3>2, Amounts, TypesHold DEF NoEvent
    <3>4. proc'[p].cum \in 0..Total
      BY <3>1, <3>2, Amounts, TypesHold, TotalIsNat
         DEF TypeInv, StripeTyped, Event
    <3> QED BY <3>1, <3>3, <3>4, <1>2, TotalIsNat
  <2>9. ASSUME NEW e \in events, Receive(p, e), status = "REFUNDED"
        PROVE  proc'[p] = proc[p]
    BY <2>9 DEF Receive
  <2> QED
    BY <1>1, <1>5, <1>7, <2>1, <2>2, <2>3, <2>4, <2>5, <2>6, <2>7, <2>8, <2>9
    DEF Handler, Work
<1>8. CASE proc' = proc
  BY <1>5, <1>8
<1> QED
  BY <1>5, <1>6, <1>7, <1>8
  DEF Next, DashboardRefund, Settle, Replay, Transfer, Lapse

\* Only the writes of a recording transaction change the order or its debits.
LEMMA OnlyWrites ==
  ASSUME Next, \A p \in Procs : ~Write(p)
  PROVE  ledger' = ledger /\ status' = status
  BY DEF Next, Handler, Work, Request, Ask, Quote, Pay, Enter, GiveUp, Record,
         Release, Receive, Throw, Crash, Overrun, DashboardRefund, Settle,
         Replay, Transfer, Lapse, books

LEMMA JudgedStep ==
  ASSUME TypeInv, RefundInv, Judged, Next
  PROVE  Judged'
<1> SUFFICES ASSUME ~overran', NEW p \in Procs
             PROVE  /\ proc'[p].pc = "write" =>
                         /\ proc'[p].prior = PriorDebits(p)'
                         /\ status' # "REFUNDED"
                    /\ /\ proc'[p].pc \in {"pay", "record"}
                       /\ proc'[p].op \notin Arms \union {"full"}
                       => status' # "REFUNDED"
  BY DEF Judged
<1>1. ~overran /\ \A q \in Procs : ~Overrun(q)
  BY InTime
<1>2. CASE proc'[p].pc \notin {"pay", "record", "write"}
  BY <1>2
<1>3. ASSUME NEW q \in Procs, Write(q), proc'[p].pc \in {"pay", "record", "write"}
      PROVE  FALSE
  <2>1. proc[q].pc = "write" /\ proc'[q].pc = "release"
    BY <1>3, BeEnded DEF Write
  <2>2. p # q
    BY <1>3, <2>1
  <2>3. Handler(q)
    BY <1>3 DEF Handler, Work
  <2>4. proc'[p] = proc[p]
    BY <1>1, <2>2, <2>3, OthersSame
  <2> QED BY <1>1, <1>3, <2>1, <2>2, <2>4, Alone DEF Holding
<1>4. ASSUME ledger' = ledger, status' = status, proc'[p] = proc[p]
      PROVE  /\ proc'[p].pc = "write" =>
                  /\ proc'[p].prior = PriorDebits(p)'
                  /\ status' # "REFUNDED"
             /\ /\ proc'[p].pc \in {"pay", "record"}
                /\ proc'[p].op \notin Arms \union {"full"}
                => status' # "REFUNDED"
  <2>1. RowKey(p)' = RowKey(p)
    BY <1>4 DEF RowKey
  <2>2. PriorDebits(p)' = PriorDebits(p)
    BY <1>4, <2>1, PriorSame
  <2> QED BY <1>1, <1>4, <2>2 DEF Judged
<1>5. ASSUME Handler(p), ledger' = ledger, status' = status,
             proc'[p].pc \in {"pay", "record", "write"}
      PROVE  /\ proc'[p].pc = "write" =>
                  /\ proc'[p].prior = PriorDebits(p)'
                  /\ status' # "REFUNDED"
             /\ /\ proc'[p].pc \in {"pay", "record"}
                /\ proc'[p].op \notin Arms \union {"full"}
                => status' # "REFUNDED"
  <2>1. CASE Quote(p)
    <3> DEFINE asked == IF proc[p].op = "full"
                        THEN {i \in Items : item[i] = "active"}
                        ELSE proc[p].ask
    <3>1. /\ proc'[p].pc \in {"pay", "record"} /\ proc'[p].op = proc[p].op
          /\ Eligible(p, asked)
      BY <2>1, <1>5, BeQuoted
    <3> QED BY <1>5, <3>1 DEF Eligible, Arms
  <2>2. CASE Pay(p)
    <3>1. PICK r : Ends(p) \/ Answered(p, r)
      BY <2>2 DEF Pay
    <3>2. proc'[p].pc = "record" /\ proc'[p].op = proc[p].op
      BY <3>1, <1>5, BeEnded, BeAnswered
    <3> QED BY <1>1, <1>5, <2>2, <3>2 DEF Pay, Judged
  <2>3. CASE Enter(p)
    BY <2>3, BeInside DEF Enter, TypeInv, HandlersTyped, Arms
  <2>4. CASE Record(p) /\ ~Overtaken(p)
    <3>1. /\ proc'[p].pc = "write" /\ proc'[p].op = proc[p].op
          /\ proc'[p].ref = proc[p].ref /\ proc'[p].cum = proc[p].cum
          /\ proc'[p].prior = PriorDebits(p)
      BY <2>4, BeWriting
    <3>2. RowKey(p)' = RowKey(p)
      BY <3>1 DEF RowKey
    <3>3. PriorDebits(p)' = PriorDebits(p)
      BY <1>5, <3>2, PriorSame
    <3>4. status # "REFUNDED"
      BY <1>1, <2>4 DEF Record, Overtaken, Judged, Arms
    <3> QED BY <1>5, <3>1, <3>3, <3>4
  <2>5. CASE Request(p)
    BY <2>5, <1>5, BeAsking
  <2>6. CASE Write(p) \/ Throw(p) \/ (Record(p) /\ Overtaken(p))
    BY <2>6, <1>5, BeEnded DEF Write, Throw, Record
  <2>7. CASE GiveUp(p) \/ Crash(p) \/ Release(p)
    BY <2>7, <1>5, BeIdle
  <2>8. ASSUME NEW e \in events, Receive(p, e), status # "REFUNDED"
        PROVE  FALSE
    BY <2>8, <1>5, BeWaiting
  <2>9. ASSUME NEW e \in events, Receive(p, e), status = "REFUNDED"
        PROVE  proc'[p] = proc[p]
    BY <2>9 DEF Receive
  <2> QED
    BY <1>1, <1>4, <1>5, <2>1, <2>2, <2>3, <2>4, <2>5, <2>6, <2>7, <2>8, <2>9
    DEF Handler, Work
<1>6. CASE \E q \in Procs : Write(q)
  BY <1>2, <1>3, <1>6
<1>7. ASSUME \A q \in Procs : ~Write(q), proc'[p] # proc[p]
      PROVE  Handler(p)
  BY <1>1, <1>7, OthersSame
  DEF Next, DashboardRefund, Settle, Replay, Transfer, Lapse
<1>8. CASE \A q \in Procs : ~Write(q)
  <2>1. ledger' = ledger /\ status' = status
    BY <1>8, OnlyWrites
  <2> QED BY <1>2, <1>4, <1>5, <1>7, <1>8, <2>1
<1> QED BY <1>6, <1>8

\* What a recording transaction adds to the debits, or that it adds nothing.
LEMMA Debiting ==
  ASSUME TypeInv, NEW p \in Procs, proc[p].prior = PriorDebits(p),
         NEW cents \in 0..Total, Debits(p, cents)
  PROVE  \/ /\ ledger' = ledger /\ Debited' = Debited
            /\ cents = 0 \/ \E row \in ledger : row.key = RowKey(p)
         \/ /\ cents # 0 /\ proc[p].prior = Debited
            /\ ledger' = ledger \union {[key |-> RowKey(p), cents |-> cents]}
            /\ Debited' = Debited + cents
<1> DEFINE new == [key |-> RowKey(p), cents |-> cents]
<1>1. CASE /\ ledger' = ledger
           /\ cents = 0 \/ \E row \in ledger : row.key = RowKey(p)
  <2>1. Debited' = Debited
    BY <1>1, SameLedger
  <2> QED BY <1>1, <2>1
<1>2. CASE /\ cents # 0 /\ ledger' = ledger \union {new}
           /\ ~\E row \in ledger : row.key = RowKey(p)
  <2>1. new \notin ledger /\ new.cents = cents
    BY <1>2
  <2> HIDE DEF new
  <2>2. {row \in ledger : row.key # RowKey(p)} = ledger
    BY <1>2
  <2>3. PriorDebits(p) = Debited
    BY <2>2, PriorIsSum, DebitedIsSum
  <2>4. \A row \in ledger \union {new} : Debit'[row] = row.cents
    BY <1>2 DEF Debit
  <2>5. \A row \in ledger \union {new} : row.cents \in Nat
    BY <2>1, Debits1, TotalIsNat DEF TypeInv
  <2>6. IsFiniteSet(ledger)
    BY DEF TypeInv, BooksTyped
  <2>7. SumOver(Debit', ledger \union {new}) = SumOver(Debit', ledger) + cents
    BY <2>1, <2>4, <2>5, <2>6, SumAdds
  <2>8. SumOver(Debit', ledger) = SumOver(Debit, ledger)
    <3>1. \A row \in ledger : Debit'[row] = Debit[row]
      BY <2>4 DEF Debit
    <3> QED BY <3>1, <2>6, SumAgrees
  <2>9. Debited' = Debited + cents
    BY <1>2, <2>7, <2>8, DebitedIsSum, DebitedIsSumNext
  <2> QED BY <1>2, <2>3, <2>9 DEF new
<1> QED BY <1>1, <1>2 DEF Debits

LEMMA WriteDebits ==
  ASSUME TypeInv, Judged, Covered, ~overran, NEW p \in Procs, Write(p)
  PROVE  /\ Debited' >= Debited /\ Debited' <= Total
         /\ \A row \in ledger' : row.key[2] <= Debited'
         /\ proc[p].op = "part" => Debited' >= proc[p].cum
<1>1. /\ proc[p].prior = PriorDebits(p) /\ proc[p].prior \in Nat
      /\ proc[p].prior <= Debited /\ Debited \in Nat /\ Total \in Nat
      /\ proc[p].cum \in 0..Total /\ Debited <= Total
  BY TotalIsNat, Debits1
     DEF Write, Judged, Covered, TypeInv, HandlersTyped, HandlerType
<1>2. \A row \in ledger : row.key[2] \in 0..Total /\ row.key[2] <= Debited
  BY Debits1 DEF Covered, Key, TypeInv
<1>3. CASE proc[p].op = "part"
  <2> DEFINE cents == AmountDebit(p)
  <2>1. cents \in 0..Total /\ Debits(p, cents)
    BY <1>3, DebitBounds DEF Write, WritesPart
  <2>2. cents = IF proc[p].cum > proc[p].prior
                THEN proc[p].cum - proc[p].prior ELSE 0
    BY DEF AmountDebit, Minus
  <2>3. RowKey(p)[2] = proc[p].cum
    BY <1>3 DEF RowKey
  <2> HIDE DEF cents
  <2>4. CASE /\ ledger' = ledger /\ Debited' = Debited
             /\ cents = 0 \/ \E row \in ledger : row.key = RowKey(p)
    <3>1. Debited >= proc[p].cum
      BY <1>1, <1>2, <2>2, <2>3, <2>4
    <3> QED BY <1>1, <1>2, <2>4, <3>1
  <2>5. CASE /\ cents # 0 /\ proc[p].prior = Debited
             /\ ledger' = ledger \union {[key |-> RowKey(p), cents |-> cents]}
             /\ Debited' = Debited + cents
    <3>1. Debited' = proc[p].cum /\ Debited' >= Debited
      <4>1. cents # 0 /\ proc[p].prior = Debited /\ Debited' = Debited + cents
        BY <2>5
      <4>2. proc[p].cum \in Nat /\ Debited \in Nat
        BY <1>1
      <4>3. proc[p].cum > Debited /\ cents = proc[p].cum - Debited
        BY <2>2, <4>1
      <4> QED BY <4>1, <4>2, <4>3
    <3>2. \A row \in ledger' : row \in ledger \/ row.key = RowKey(p)
      BY <2>5
    <3>3. \A row \in ledger' : row.key[2] <= Debited'
      BY <1>1, <1>2, <2>3, <3>1, <3>2
    <3> QED BY <1>1, <3>1, <3>3
  <2> QED BY <1>1, <2>1, <2>4, <2>5, Debiting
<1>4. CASE proc[p].op # "part"
  <2>1. PICK S \in SUBSET Items, whole \in BOOLEAN :
          Debits(p, ItemDebit(p, S, whole))
    <3>1. proc[p].ask \in SUBSET Items
      BY DEF TypeInv, HandlersTyped, HandlerType
    <3>2. CASE proc[p].op = "whole"
      BY <3>2 DEF Write, WritesWhole, AllAre
    <3>3. CASE proc[p].op # "whole"
      BY <1>4, <3>1, <3>3 DEF Write, WritesRefund, AllAre
    <3> QED BY <3>2, <3>3
  <2> DEFINE cents == ItemDebit(p, S, whole)
  <2>2. cents \in 0..Total /\ cents <= Minus(Total, proc[p].prior)
    BY DebitBounds
  <2>3. RowKey(p)[2] = 0
    BY <1>4 DEF RowKey
  <2> HIDE DEF cents
  <2>4. CASE ledger' = ledger /\ Debited' = Debited
    BY <1>1, <1>2, <1>4, <2>4
  <2>5. CASE /\ cents # 0 /\ proc[p].prior = Debited
             /\ ledger' = ledger \union {[key |-> RowKey(p), cents |-> cents]}
             /\ Debited' = Debited + cents
    <3>1. Debited' <= Total /\ Debited' >= Debited
      BY <1>1, <2>2, <2>5 DEF Minus
    <3>2. \A row \in ledger' : row \in ledger \/ row.key = RowKey(p)
      BY <2>5
    <3>3. \A row \in ledger' : row.key[2] <= Debited'
      BY <1>1, <1>2, <2>2, <2>3, <2>5, <3>2
    <3> QED BY <1>4, <3>1, <3>3
  <2>6. Debits(p, cents)
    BY <2>1 DEF cents
  <2> QED BY <1>1, <2>2, <2>4, <2>5, <2>6, Debiting
<1> QED BY <1>3, <1>4

\* An event is only done with when its debit is written, or when the order was
\* closed before it.
LEMMA StaysOutstanding ==
  ASSUME TypeInv, RefundInv, Carried, Next, ~overran', status # "REFUNDED",
         NEW e \in Event, Outstanding(e),
         \A p \in Procs : ~(Write(p) /\ Carries(p) /\ proc[p].ev = e)
  PROVE  Outstanding(e)'
<1>1. ~overran /\ \A q \in Procs : ~Overrun(q)
  BY InTime
<1>2. CASE e \in events' \union parked'
  BY <1>2 DEF Outstanding
<1>3. ASSUME NEW p \in Procs, Carries(p)', proc'[p].ev = e
      PROVE  Outstanding(e)'
  BY <1>3 DEF Outstanding
<1>4. CASE e \in events \union parked
  <2>1. CASE e \in events
    <3>1. ASSUME NEW p \in Procs, Receive(p, e)
          PROVE  Outstanding(e)'
      <4>1. proc'[p].pc = "wait" /\ proc'[p].op \in Arms /\ proc'[p].ev = e
        BY <2>1, <3>1, BeWaiting DEF Arms
      <4>2. Carries(p)'
        BY <4>1 DEF Carries
      <4> QED BY <1>3, <4>1, <4>2
    <3>2. CASE events \subseteq events'
      BY <1>2, <2>1, <3>2
    <3>3. ASSUME NEW p \in Procs, NEW f \in events, Receive(p, f), f # e
          PROVE  Outstanding(e)'
      <4>1. e \in events'
        BY <2>1, <3>3 DEF Receive
      <4> QED BY <1>2, <4>1
    <3> QED
      BY <3>1, <3>2, <3>3
      DEF Next, Handler, Work, Request, Ask, Quote, Pay, Enter, GiveUp, Record,
          Write, Release, Throw, Crash, Overrun, DashboardRefund, Settle,
          Replay, Transfer, Lapse, Creates, stripe
  <2>2. CASE e \in parked
    <3>1. CASE parked \subseteq parked'
      BY <1>2, <2>2, <3>1
    <3>2. ASSUME NEW f \in parked, Replay(f)
          PROVE  Outstanding(e)'
      <4>1. e \in events' \union parked'
        BY <2>2, <3>2 DEF Replay
      <4> QED BY <1>2, <4>1
    <3> QED
      BY <3>1, <3>2
      DEF Next, Handler, Work, Request, Ask, Quote, Pay, Enter, GiveUp, Record,
          Write, Release, Receive, Throw, Parks, Crash, Overrun,
          DashboardRefund, Settle, Transfer, Lapse
  <2> QED BY <1>4, <2>1, <2>2
<1>5. ASSUME NEW p \in Procs, Carries(p), proc[p].ev = e
      PROVE  Outstanding(e)'
  <2>1. CASE /\ proc'[p].pc \in {"wait", "record", "write"}
             /\ proc'[p].op = proc[p].op /\ proc'[p].ev = proc[p].ev
    <3>1. Carries(p)'
      BY <1>5, <2>1 DEF Carries
    <3> QED BY <1>3, <1>5, <2>1, <3>1
  <2>2. CASE proc'[p] = proc[p]
    BY <1>5, <2>1, <2>2 DEF Carries
  <2>3. e # NoEvent
    BY <1>1, <1>5 DEF Carried
  <2>4. CASE Handler(p)
    <3>1. CASE Quote(p) \/ Pay(p)
      <4>1. proc[p].op \in Asks
        BY <3>1 DEF Quote, Pay, TypeInv, HandlersTyped
      <4>2. FALSE
        BY <1>5, <4>1 DEF Carries, Arms, Asks
      <4> QED BY <4>2
    <3>2. CASE Request(p) \/ Release(p) \/ \E f \in events : Receive(p, f)
      <4>1. proc[p].pc \in {"idle", "release"}
        BY <3>2 DEF Request, Ask, Release, Receive
      <4>2. FALSE
        BY <1>5, <4>1 DEF Carries
      <4> QED BY <4>2
    <3>3. CASE Enter(p)
      BY <2>1, <3>3, BeInside
    <3>4. CASE Record(p) /\ ~Overtaken(p)
      BY <2>1, <3>4, BeWriting
    <3>5. CASE Record(p) /\ Overtaken(p)
      <4>1. FALSE
        BY <1>5, <3>5 DEF Overtaken, Carries, Arms
      <4> QED BY <4>1
    <3>6. CASE Write(p)
      BY <1>5, <3>6
    <3>7. CASE GiveUp(p) \/ Throw(p)
      <4>1. e \in parked'
        BY <1>5, <2>3, <3>7 DEF GiveUp, Throw, Parks
      <4> QED BY <1>2, <4>1
    <3>8. CASE Crash(p)
      <4>1. e \in events'
        BY <1>5, <2>3, <3>8 DEF Crash
      <4> QED BY <1>2, <4>1
    <3> QED
      BY <1>1, <2>4, <3>1, <3>2, <3>3, <3>4, <3>5, <3>6, <3>7, <3>8
      DEF Handler, Work
  <2>5. ASSUME proc'[p] # proc[p] PROVE Handler(p)
    BY <1>1, <2>5, OthersSame
    DEF Next, DashboardRefund, Settle, Replay, Transfer, Lapse
  <2> QED BY <2>2, <2>4, <2>5
<1> QED BY <1>4, <1>5 DEF Outstanding

\* A refund is created with an event that tells of it; one that ends takes
\* nothing from the debits that cover it.
LEMMA RefundedGrows ==
  ASSUME TypeInv, Next
  PROVE  \/ Refunded' <= Refunded
         \/ \E e \in Event : e \in events' /\ e.cum = Refunded'
<1>1. Refunded \in Nat
  BY Amounts, TypesHold
<1>2. CASE refunds' = refunds
  BY <1>1, <1>2, SameRefunds
<1>3. ASSUME NEW names \in SUBSET Items, NEW cents \in 0..Total,
             NEW by \in Asks \union {"staff"}, Creates(names, cents, by)
      PROVE  \E e \in Event : e \in events' /\ e.cum = Refunded'
  <2> DEFINE e == [ref |-> Len(refunds) + 1, cum |-> Refunded + cents]
  <2>1. e \in events' /\ e.cum = Refunded + cents
    BY <1>3 DEF Creates
  <2>2. Refunded' = Refunded + cents
    BY <1>3, Creating, TypesHold
  <2>3. events' \subseteq Event
    BY StripeStep DEF StripeTyped
  <2> HIDE DEF e
  <2> QED BY <2>1, <2>2, <2>3
<1>4. ASSUME NEW r \in DOMAIN refunds, Settle(r) PROVE Refunded' <= Refunded
  <2>1. refunds[r].cents \in Nat
    BY Amounts, TypesHold
  <2>2. /\ Refunded' \in Nat
        /\ Refunded' = Refunded \/ Refunded = Refunded' + refunds[r].cents
    BY <1>4, Settling, TypesHold
  <2> QED BY <1>1, <2>1, <2>2
<1> QED BY <1>2, <1>3, <1>4, RefundKinds

LEMMA CoveredStep ==
  ASSUME TypeInv, RefundInv, BooksInv, Next
  PROVE  Covered'
<1> SUFFICES ASSUME ~overran' PROVE Covered'
  BY DEF Covered
<1>1. ~overran /\ Carried /\ Judged /\ Covered
  BY InTime DEF BooksInv
<1>2. Refunded \in Nat /\ Debited \in Nat /\ Refunded' \in Nat /\ Debited' \in Nat
  <2>1. Refunded' \in Nat
    <3>1. TypeInv'
      BY TypeStep
    <3>2. (TypeInv => TypeOK)'
      BY TypesHold, PTL
    <3> QED BY <3>1, <3>2, AmountsNext
  <2>2. Debited' \in Nat
    <3>1. (BooksTyped => Debited \in Nat)'
      BY Debits1, PTL
    <3> QED BY <3>1, BooksStep
  <2> QED BY <2>1, <2>2, Amounts, TypesHold, Debits1 DEF TypeInv
<1>3. /\ Debited' >= Debited /\ Debited' <= Total
      /\ \A row \in ledger' : row.key[2] <= Debited'
  <2>1. CASE \E p \in Procs : Write(p)
    BY <1>1, <2>1, WriteDebits
  <2>2. CASE \A p \in Procs : ~Write(p)
    <3>1. ledger' = ledger /\ Debited' = Debited
      BY <2>2, OnlyWrites, SameLedger
    <3> QED BY <1>1, <1>2, <3>1 DEF Covered
  <2> QED BY <2>1, <2>2
<1>4. \/ status' = "REFUNDED" \/ Refunded' <= Debited'
      \/ \E e \in Event : Outstanding(e)' /\ e.cum >= Refunded'
  <2>1. CASE status = "REFUNDED"
    <3>1. \A p \in Procs : ~Write(p)
      BY <1>1, <2>1 DEF Write, Judged
    <3> QED BY <2>1, <3>1, OnlyWrites
  <2>2. ASSUME NEW e \in Event, e \in events', e.cum = Refunded'
        PROVE  Outstanding(e)' /\ e.cum >= Refunded'
    BY <1>2, <2>2 DEF Outstanding
  <2>3. CASE Refunded' <= Refunded /\ Refunded <= Debited
    BY <1>2, <1>3, <2>3
  <2>4. ASSUME Refunded' <= Refunded, status # "REFUNDED",
               NEW e \in Event, Outstanding(e), e.cum >= Refunded
        PROVE  \/ status' = "REFUNDED" \/ Refunded' <= Debited'
               \/ Outstanding(e)' /\ e.cum >= Refunded'
    <3>1. e.cum \in Nat /\ e.cum >= Refunded'
      BY <1>2, <2>4, TotalIsNat DEF Event
    <3>2. CASE \A p \in Procs : ~(Write(p) /\ Carries(p) /\ proc[p].ev = e)
      BY <1>1, <2>4, <3>1, <3>2, StaysOutstanding
    <3>3. ASSUME NEW p \in Procs, Write(p), Carries(p), proc[p].ev = e
          PROVE  status' = "REFUNDED" \/ Refunded' <= Debited'
      <4>1. CASE proc[p].op = "whole"
        BY <3>3, <4>1 DEF Write, WritesWhole, Marks
      <4>2. CASE proc[p].op = "part"
        <5>1. Debited' >= proc[p].cum
          BY <1>1, <3>3, <4>2, WriteDebits
        <5>2. CASE e.cum = 0
          BY <1>2, <3>1, <5>2
        <5>3. CASE e.cum # 0
          <6>1. proc[p].cum = e.cum
            BY <1>1, <3>3, <5>3 DEF Carried
          <6> QED BY <1>2, <3>1, <5>1, <6>1
        <5> QED BY <5>2, <5>3
      <4> QED BY <3>3, <4>1, <4>2 DEF Carries, Arms
    <3> QED BY <3>2, <3>3
  <2> QED BY <1>1, <2>1, <2>2, <2>3, <2>4, RefundedGrows DEF Covered
<1> QED BY <1>3, <1>4 DEF Covered

\* The inductive invariant of the debits: what the operations under way read
\* still stands, and whatever the rows lack is told by an event still to come.
THEOREM BooksInvariance == Spec => [](TypeInv /\ RefundInv /\ BooksInv)
<1>1. Init => BooksInv
  <2> SUFFICES ASSUME Init PROVE BooksInv
    OBVIOUS
  <2>1. \A p \in Procs : proc[p].pc = "idle"
    BY DEF Init, Idle
  <2>2. ledger = {} /\ refunds = <<>>
    BY DEF Init
  <2>3. Debited = 0 /\ Refunded = 0
    <3>1. Alive = {}
      BY <2>2 DEF Alive
    <3> QED BY <2>2, <3>1, SumEmpty, DebitedIsSum, RefundedIsSum
  <2>4. Covered
    BY <2>2, <2>3, TotalIsNat DEF Covered
  <2> QED BY <2>1, <2>4 DEF BooksInv, Carried, Carries, Judged
<1>2. TypeInv /\ RefundInv /\ BooksInv /\ [Next]_vars => BooksInv'
  <2> SUFFICES ASSUME TypeInv, RefundInv, BooksInv, [Next]_vars PROVE BooksInv'
    OBVIOUS
  <2>1. CASE UNCHANGED vars
    <3>1. Refunded' = Refunded /\ Debited' = Debited
      BY <2>1, SameRefunds, SameLedger DEF vars, books, stripe
    <3>2. \A p \in Procs : PriorDebits(p)' = PriorDebits(p)
      BY <2>1, PriorSame DEF vars, books, RowKey
    <3>3. \A p \in Procs : Carries(p)' <=> Carries(p)
      BY <2>1 DEF vars, Carries
    <3>4. \A e : Outstanding(e) => Outstanding(e)'
      BY <2>1, <3>3 DEF vars, stripe, Outstanding
    <3>5. Carried' /\ Judged'
      BY <2>1, <3>2, <3>3 DEF BooksInv, Carried, Judged, vars, books, stripe
    <3>6. Covered'
      BY <2>1, <3>1, <3>4 DEF BooksInv, Covered, vars, books
    <3> QED BY <3>5, <3>6 DEF BooksInv
  <2> QED BY <2>1, CarriedStep, JudgedStep, CoveredStep DEF BooksInv
<1> QED
  BY <1>1, <1>2, TypeInit, TypeStep, RefundInvariance, PTL DEF Spec

\* The payee is never debited for more than the credit, whichever of refunds
\* and reconciliations write, and however often they are repeated.
THEOREM DebitedWithinCredit == Spec => []DebitsWithinCredit
<1>1. BooksInv => DebitsWithinCredit
  BY DEF BooksInv, Covered, DebitsWithinCredit
<1> QED BY <1>1, BooksInvariance, PTL

\* When everything has been handled, the debits of an order that is not closed
\* cover what Stripe paid back: a refund whose handler died, and one made in
\* the dashboard, included.
THEOREM StripeIsCovered == Spec => []LedgerCoversStripe
<1>1. TypeInv /\ BooksInv => LedgerCoversStripe
  <2> SUFFICES ASSUME TypeInv, BooksInv, ~overran, status # "REFUNDED",
                      events = {}, parked = {},
                      \A p \in Procs : proc[p].pc = "idle"
               PROVE  Debited >= Refunded
    BY DEF LedgerCoversStripe
  <2>1. \A e : ~Outstanding(e)
    BY DEF Outstanding, Carries
  <2>2. Refunded <= Debited
    BY <2>1 DEF BooksInv, Covered
  <2> QED BY <2>2, Amounts, TypesHold, Debits1 DEF TypeInv
<1> QED BY <1>1, BooksInvariance, PTL

-----------------------------------------------------------------------------
(* A ticket is voided for money that has moved.                            *)

\* Refunds that are pending at first leave part of the payment: only the
\* platform makes them, and it keeps a fee.  A bank debit that is refunded whole
\* is left out: the full arm voids its tickets while the refund is pending.
PendingIsPartial == \A c \in Charges : c.async => ~c.staff /\ c.fee > 0

Moved == {r \in DOMAIN refunds : refunds[r].state = "succeeded"}
PaidFor(r, S) == r \in Moved /\ refunds[r].names = S
NamedAlive == UNION {refunds[r].names : r \in Alive}

\* The payment is back with the buyer.
Full == ~charge.async /\ Refunded >= Total

\* What pending refunds add up to: the quotes of the items they name.
DebitsQuoted == charge.async =>
  /\ \A r \in DOMAIN refunds : refunds[r].cents = Quoted(refunds[r].names)
  /\ ~overran => Refunded <= Quoted(NamedAlive)

\* The handlers that may flip items know a refund that has moved.
Backed == ~overran => \A p \in Procs :
  /\ proc[p].pc \in {"record", "write"} /\ proc[p].op \notin Arms
       => PaidFor(proc[p].ref, proc[p].ask)
  /\ Carries(p) /\ proc[p].op = "part" /\ proc[p].ask # {}
       => PaidFor(proc[p].ref, proc[p].ask)
  /\ Carries(p) /\ proc[p].op = "whole" => Full

\* So do the events that call for the whole payment, which come back even
\* from a handler that is done with them, and the items.
Known(e) == e \in events \union parked \/ \E p \in Procs : proc[p].ev = e
Told == ~overran => \A e \in Event : Known(e) /\ e.cum >= Total => Full
ItemsPaid == ~overran => \A i \in Items : item[i] = "refunded" =>
  Full \/ \E r \in Moved : i \in refunds[r].names

MoneyInv == DebitsQuoted /\ Backed /\ Told /\ ItemsPaid

\* Quotes add up, and those of all items keep below the payment.
LEMMA QuotesAdd ==
  ASSUME charge \in Charges, NEW S \in SUBSET Items, NEW T \in SUBSET Items
  PROVE  /\ Quoted(S) \in Nat /\ Quoted(T) \in Nat
         /\ Quoted(S \union T) <= Quoted(S) + Quoted(T)
         /\ S \intersect T = {} => Quoted(S \union T) = Quoted(S) + Quoted(T)
         /\ S \subseteq T => Quoted(S) <= Quoted(T)
<1> DEFINE price == Price - charge.fee
           s == Cardinality(S)
           t == Cardinality(T)
           b == Cardinality(S \union T)
           m == Cardinality(S \intersect T)
<1>1. price \in Nat
  BY Quotes
<1>2. IsFiniteSet(S) /\ IsFiniteSet(T) /\ s \in Nat /\ t \in Nat
  BY Costs
<1>3. b \in Nat /\ m \in Nat /\ b = s + t - m
  <2>1. S \union T \in SUBSET Items /\ S \intersect T \in SUBSET Items
    OBVIOUS
  <2>2. b \in Nat /\ m \in Nat
    BY <2>1, Costs
  <2> QED BY <1>2, <2>2, FS_Union
<1>4. S \intersect T = {} => m = 0
  BY FS_EmptySet
<1>5. S \subseteq T => s <= t
  BY <1>2, FS_Subset
<1>6. /\ Quoted(S) = s * price /\ Quoted(T) = t * price
      /\ Quoted(S \union T) = b * price
  BY DEF Quoted
<1> HIDE DEF price, s, t, b, m
<1>7. (s + t) * price = s * price + t * price
  BY <1>1, <1>2
<1>8. b * price <= (s + t) * price
  <2>1. b <= s + t
    BY <1>2, <1>3
  <2> QED BY <1>1, <1>2, <1>3, <2>1, TimesMore
<1>9. s * price \in Nat /\ t * price \in Nat
  BY <1>1, <1>2, Times
<1>10. S \intersect T = {} => b * price = s * price + t * price
  BY <1>2, <1>3, <1>4, <1>7
<1>11. S \subseteq T => s * price <= t * price
  BY <1>1, <1>2, <1>5, TimesMore
<1> QED BY <1>6, <1>7, <1>8, <1>9, <1>10, <1>11

LEMMA QuotesLess ==
  ASSUME charge \in Charges, charge.fee > 0, NEW S \in SUBSET Items
  PROVE  Quoted(S) < Total
<1> DEFINE price == Price - charge.fee
           n == Cardinality(Items)
<1>1. price \in Nat /\ price < Price /\ Price \in Nat
  BY Quotes, RefundAssumptions DEF ChargeType
<1>2. n \in Nat /\ n # 0
  BY RefundAssumptions, Costs, FS_EmptySet
<1>3. Quoted(S) \in Nat /\ Quoted(S) <= Quoted(Items)
  BY QuotesAdd
<1>4. Quoted(Items) = n * price
  BY DEF Quoted
<1>5. Total = n * Price
  BY <1>1, <1>2 DEF Total
<1> HIDE DEF price, n
<1>6. n * price < n * Price
  BY <1>1, <1>2
<1>7. n * price \in Nat /\ n * Price \in Nat
  BY <1>1, <1>2, Times
<1> QED BY <1>3, <1>4, <1>5, <1>6, <1>7

LEMMA ChargeStays ==
  ASSUME Next
  PROVE  charge' = charge
  BY DEF Next, Handler, Work, Request, Ask, Quote, Pay, Enter, GiveUp, Record,
         Write, Release, Receive, Throw, Crash, Overrun, DashboardRefund,
         Settle, Replay, Transfer, Lapse

LEMMA PaidStays ==
  ASSUME TypeInv, Next, NEW r, NEW S, PaidFor(r, S)
  PROVE  PaidFor(r, S)'
  BY RefundsStay DEF PaidFor, Moved

LEMMA FullStays ==
  ASSUME TypeInv, Next, Full
  PROVE  Full'
<1>1. ~charge.async /\ charge' = charge /\ Refunded >= Total
  BY ChargeStays DEF Full
<1>2. Refunded \in Nat /\ Total \in Nat
  BY Amounts, TypesHold, TotalIsNat
<1>3. CASE refunds' = refunds
  BY <1>1, <1>3, SameRefunds DEF Full
<1>4. ASSUME NEW names \in SUBSET Items, NEW cents \in 0..Total,
             NEW by \in Asks \union {"staff"}, Creates(names, cents, by)
      PROVE  Full'
  <2>1. Refunded' = Refunded + cents
    BY <1>4, Creating, TypesHold
  <2>2. Refunded' >= Total
    BY <1>1, <1>2, <2>1
  <2> QED BY <1>1, <2>2 DEF Full
<1>5. ASSUME NEW r \in DOMAIN refunds, Settle(r) PROVE FALSE
  BY <1>1, <1>5 DEF Settle, TypeInv, StripeTyped
<1> QED BY <1>3, <1>4, <1>5, RefundKinds

LEMMA NamesAreItems ==
  ASSUME TypeInv
  PROVE  /\ \A r \in DOMAIN refunds : refunds[r].names \in SUBSET Items
         /\ NamedAlive \in SUBSET Items
<1>1. ASSUME NEW r \in DOMAIN refunds PROVE refunds[r].names \in SUBSET Items
  <2>1. refunds[r] \in RefundType
    BY DEF TypeInv, StripeTyped
  <2> QED BY <2>1 DEF RefundType
<1> QED BY <1>1 DEF NamedAlive, Alive

LEMMA AsyncLess ==
  ASSUME PendingIsPartial, TypeInv, DebitsQuoted, ~overran, charge.async
  PROVE  Refunded < Total
<1>1. charge \in Charges /\ charge.fee > 0
  BY DEF TypeInv, StripeTyped, PendingIsPartial
<1>2. NamedAlive \in SUBSET Items
  BY NamesAreItems
<1>3. Quoted(NamedAlive) < Total /\ Quoted(NamedAlive) \in Nat
  BY <1>1, <1>2, QuotesLess, QuotesAdd
<1>4. Refunded <= Quoted(NamedAlive)
  BY DEF DebitsQuoted
<1> QED BY <1>3, <1>4, Amounts, TypesHold, TotalIsNat

LEMMA DebitsQuotedStep ==
  ASSUME PendingIsPartial, TypeInv, RefundInv, Once, DebitsQuoted, Next
  PROVE  DebitsQuoted'
<1>1. charge' = charge /\ charge \in Charges
  BY ChargeStays DEF TypeInv, StripeTyped
<1> SUFFICES ASSUME charge.async PROVE DebitsQuoted'
  BY <1>1 DEF DebitsQuoted
<1>2. ~charge.staff /\ overran' \in {overran, TRUE}
  <2>1. ~charge.staff
    BY <1>1 DEF PendingIsPartial
  <2>2. overran' = overran \/ overran' = TRUE
    BY DEF Next, Handler, Work, Request, Ask, Quote, Pay, Enter, GiveUp, Record,
           Write, Release, Receive, Throw, Crash, Overrun, DashboardRefund,
           Settle, Replay, Transfer, Lapse
  <2> QED BY <2>1, <2>2
<1>3. ASSUME \A r \in DOMAIN refunds' :
               refunds'[r].cents = Quoted(refunds'[r].names),
             ~overran => Refunded' <= Quoted(NamedAlive')
      PROVE  DebitsQuoted'
  BY <1>1, <1>2, <1>3 DEF DebitsQuoted, Quoted
<1>4. /\ \A r \in DOMAIN refunds :
           /\ refunds[r].names \in SUBSET Items
           /\ refunds[r].cents = Quoted(refunds[r].names)
      /\ NamedAlive \in SUBSET Items
      /\ ~overran => Refunded <= Quoted(NamedAlive)
  BY NamesAreItems DEF DebitsQuoted
<1>5. CASE refunds' = refunds
  <2>1. Refunded' = Refunded /\ NamedAlive' = NamedAlive
    BY <1>5, SameRefunds DEF NamedAlive
  <2> QED BY <1>3, <1>4, <1>5, <2>1
<1>6. ASSUME NEW p \in Procs, proc[p].pc = "pay", proc[p].ask \in SUBSET Items,
             proc[p].op \in Asks, Quoted(proc[p].ask) \in 0..Total,
             Creates(proc[p].ask, Quoted(proc[p].ask), proc[p].op)
      PROVE  DebitsQuoted'
  <2> DEFINE S == proc[p].ask
             n == Len(refunds) + 1
  <2>1. /\ DOMAIN refunds' = DOMAIN refunds \union {n} /\ n \notin DOMAIN refunds
        /\ \A r \in DOMAIN refunds : refunds'[r] = refunds[r]
        /\ refunds'[n].names = S /\ refunds'[n].cents = Quoted(S)
        /\ Alive' = Alive \union {n} /\ Refunded' = Refunded + Quoted(S)
    <3>1. /\ DOMAIN refunds' = DOMAIN refunds \union {Len(refunds) + 1}
          /\ Len(refunds) + 1 \notin DOMAIN refunds
          /\ \A r \in DOMAIN refunds : refunds'[r] = refunds[r]
          /\ refunds'[Len(refunds) + 1] =
               [names |-> proc[p].ask, cents |-> Quoted(proc[p].ask),
                by |-> proc[p].op,
                state |-> IF charge.async THEN "pending" ELSE "succeeded"]
          /\ Alive' = Alive \union {Len(refunds) + 1}
          /\ Refunded' = Refunded + Quoted(proc[p].ask)
      BY <1>6, Creating, TypesHold
    <3> QED BY <3>1
  <2>2. S \in SUBSET Items
    BY <1>6
  <2> HIDE DEF S, n
  <2>3. \A r \in DOMAIN refunds' : refunds'[r].cents = Quoted(refunds'[r].names)
    BY <1>4, <2>1
  <2>4. NamedAlive' = NamedAlive \union S
    BY <2>1 DEF NamedAlive, Alive
  <2>5. ASSUME ~overran PROVE NamedAlive \intersect S = {}
    <3>1. Overlaps(S) = {}
      BY <1>6, <2>5 DEF Once, S
    <3> QED BY <3>1 DEF Overlaps, NamedAlive
  <2>6. ASSUME ~overran PROVE Refunded' <= Quoted(NamedAlive')
    <3>1. Quoted(NamedAlive \union S) = Quoted(NamedAlive) + Quoted(S)
      BY <1>1, <1>4, <2>2, <2>5, <2>6, QuotesAdd
    <3>2. Quoted(NamedAlive) \in Nat /\ Quoted(S) \in Nat
      BY <1>1, <1>4, <2>2, QuotesAdd
    <3>3. Refunded <= Quoted(NamedAlive) /\ Refunded \in Nat
      BY <1>4, <2>6, Amounts, TypesHold
    <3>4. Refunded + Quoted(S) <= Quoted(NamedAlive) + Quoted(S)
      BY <3>2, <3>3
    <3> QED BY <2>1, <2>4, <3>1, <3>4
  <2> QED BY <1>3, <2>3, <2>6
<1>7. ASSUME NEW r \in DOMAIN refunds, Settle(r) PROVE DebitsQuoted'
  <2>1. /\ DOMAIN refunds' = DOMAIN refunds
        /\ \A s \in DOMAIN refunds : /\ refunds'[s].names = refunds[s].names
                                     /\ refunds'[s].cents = refunds[s].cents
        /\ Refunded' \in Nat
        /\ \/ Alive' = Alive /\ Refunded' = Refunded
           \/ /\ r \in Alive /\ Alive' = Alive \ {r}
              /\ Refunded = Refunded' + refunds[r].cents
    BY <1>7, Settling, TypesHold
  <2>2. \A s \in DOMAIN refunds' : refunds'[s].cents = Quoted(refunds'[s].names)
    BY <1>4, <2>1
  <2>3. CASE Alive' = Alive /\ Refunded' = Refunded
    <3>1. NamedAlive' = NamedAlive
      BY <2>1, <2>3 DEF NamedAlive, Alive
    <3> QED BY <1>3, <1>4, <2>2, <2>3, <3>1
  <2>4. CASE /\ r \in Alive /\ Alive' = Alive \ {r}
             /\ Refunded = Refunded' + refunds[r].cents
    <3> DEFINE S == refunds[r].names
               T == NamedAlive'
    <3>1. S \in SUBSET Items /\ refunds[r].cents = Quoted(S)
      BY <1>4
    <3>2. T \in SUBSET Items /\ NamedAlive \subseteq T \union S
      <4>1. T \subseteq NamedAlive
        BY <2>1, <2>4 DEF NamedAlive, Alive
      <4>2. NamedAlive \subseteq T \union S
        BY <2>1, <2>4 DEF NamedAlive, Alive
      <4> QED BY <1>4, <4>1, <4>2
    <3> HIDE DEF S, T
    <3>3. T \union S \in SUBSET Items
      BY <3>1, <3>2
    <3>4. /\ Quoted(NamedAlive) <= Quoted(T \union S)
          /\ Quoted(NamedAlive) \in Nat /\ Quoted(T \union S) \in Nat
      BY <1>1, <1>4, <3>2, <3>3, QuotesAdd
    <3>5. /\ Quoted(T \union S) <= Quoted(T) + Quoted(S)
          /\ Quoted(T) \in Nat /\ Quoted(S) \in Nat
      BY <1>1, <3>1, <3>2, QuotesAdd
    <3>6. ~overran => Refunded' <= Quoted(T)
      BY <1>4, <2>1, <2>4, <3>1, <3>4, <3>5
    <3> QED BY <1>3, <2>2, <3>6 DEF T
  <2> QED BY <2>1, <2>3, <2>4
<1> QED BY <1>2, <1>5, <1>6, <1>7, RefundKinds

\* Where an event comes from: it was about, or it tells of a new refund.
LEMMA KnownStep ==
  ASSUME TypeInv, Next, \A p \in Procs : ~Overrun(p),
         NEW e \in Event, e.cum # 0, Known(e)'
  PROVE  Known(e) \/ e.cum = Refunded'
<1>1. ASSUME NEW p \in Procs, proc'[p].ev = e
      PROVE  Known(e)
  <2>1. e # NoEvent
    BY DEF NoEvent
  <2>2. \/ proc'[p].ev \in {proc[p].ev, NoEvent} \/ proc'[p].ev \in events
    <3>1. CASE proc'[p] = proc[p]
      BY <3>1
    <3>2. CASE Quote(p)
      BY <3>2, BeQuoted
    <3>3. CASE Pay(p)
      <4>1. PICK r : Ends(p) \/ Answered(p, r)
        BY <3>3 DEF Pay
      <4> QED BY <4>1, BeEnded, BeAnswered
    <3>4. CASE Request(p) \/ Enter(p) \/ (Record(p) /\ ~Overtaken(p))
      BY <3>4, BeAsking, BeInside, BeWriting
    <3>5. CASE Write(p) \/ Throw(p) \/ (Record(p) /\ Overtaken(p))
      BY <3>5, BeEnded DEF Write, Throw, Record
    <3>6. CASE GiveUp(p) \/ Crash(p) \/ Release(p)
      BY <3>6, BeIdle
    <3>7. ASSUME NEW f \in events, Receive(p, f), status # "REFUNDED"
          PROVE  proc'[p].ev \in events
      BY <3>7, BeWaiting
    <3>8. ASSUME NEW f \in events, Receive(p, f), status = "REFUNDED"
          PROVE  proc'[p] = proc[p]
      BY <3>8 DEF Receive
    <3>9. ASSUME proc'[p] # proc[p] PROVE Handler(p)
      BY <3>9, OthersSame
      DEF Next, DashboardRefund, Settle, Replay, Transfer, Lapse
    <3> QED
      BY <3>1, <3>2, <3>3, <3>4, <3>5, <3>6, <3>7, <3>8, <3>9
      DEF Handler, Work
  <2> QED BY <1>1, <2>1, <2>2 DEF Known
<1>2. CASE e \in parked'
  <2>1. e \in parked \/ \E p \in Procs : proc[p].ev = e
    BY <1>2 DEF Next, Handler, Work, Request, Ask, Quote, Pay, Enter, GiveUp,
         Record, Write, Release, Receive, Throw, Parks, Crash, Overrun,
         DashboardRefund, Settle, Replay, Transfer, Lapse
  <2> QED BY <2>1 DEF Known
<1>3. ASSUME e \in events', e \notin events
      PROVE  Known(e) \/ e.cum = Refunded'
  <2>1. CASE refunds' = refunds
    <3>1. e \in parked \/ \E p \in Procs : proc[p].ev = e
      <4>1. CASE \E r \in DOMAIN refunds : Settle(r)
        BY <1>3, <4>1 DEF Settle
      <4>2. ASSUME NEW names, NEW cents, NEW by, Creates(names, cents, by)
            PROVE  FALSE
        <5>1. /\ refunds \in Seq(RefundType)
              /\ \E new : refunds' = Append(refunds, new)
          BY <4>2 DEF Creates, TypeInv, StripeTyped
        <5>2. Len(refunds') = Len(refunds) + 1 /\ Len(refunds) \in Nat
          BY <5>1
        <5> QED BY <2>1, <5>2
      <4> QED
        BY <1>3, <4>1, <4>2
        DEF Next, Handler, Work, Request, Ask, Quote, Pay, Enter, GiveUp,
            Record, Write, Release, Receive, Throw, Crash, Overrun,
            DashboardRefund, Replay, Transfer, Lapse, stripe
    <3> QED BY <3>1 DEF Known
  <2>2. ASSUME NEW names \in SUBSET Items, NEW cents \in 0..Total,
               NEW by \in Asks \union {"staff"}, Creates(names, cents, by)
        PROVE  e.cum = Refunded'
    <3> DEFINE f == [ref |-> Len(refunds) + 1, cum |-> Refunded + cents]
    <3>1. e = f /\ f.cum = Refunded + cents
      BY <1>3, <2>2 DEF Creates
    <3>2. Refunded' = Refunded + cents
      BY <2>2, Creating, TypesHold
    <3> HIDE DEF f
    <3> QED BY <3>1, <3>2
  <2>3. ASSUME NEW r \in DOMAIN refunds, Settle(r) PROVE FALSE
    <3> DEFINE f == [ref |-> r, cum |-> 0]
    <3>1. e = f
      BY <1>3, <2>3 DEF Settle
    <3> QED BY <3>1
  <2> QED BY <2>1, <2>2, <2>3, RefundKinds
<1>4. CASE e \in events
  BY <1>4 DEF Known
<1> QED BY <1>1, <1>2, <1>3, <1>4 DEF Known

LEMMA ToldStep ==
  ASSUME PendingIsPartial, TypeInv, RefundInv, Once, DebitsQuoted, Told, Next
  PROVE  Told'
<1> SUFFICES ASSUME ~overran', NEW e \in Event, Known(e)', e.cum >= Total
             PROVE  Full'
  BY DEF Told
<1>1. ~overran /\ \A p \in Procs : ~Overrun(p)
  BY InTime
<1>2. Total \in Nat /\ Total # 0 /\ e.cum \in Nat
  <2>1. Cardinality(Items) \in Nat /\ Cardinality(Items) # 0
    BY RefundAssumptions, FS_EmptySet, Costs
  <2> QED BY <2>1, TotalIsNat, RefundAssumptions DEF Total, Event
<1>3. Known(e) \/ e.cum = Refunded'
  BY <1>1, <1>2, KnownStep
<1>4. CASE Known(e)
  BY <1>1, <1>4, FullStays DEF Told
<1>5. CASE e.cum = Refunded'
  <2>1. TypeInv' /\ DebitsQuoted'
    BY TypeStep, DebitsQuotedStep
  <2>2. (TypeInv /\ DebitsQuoted /\ ~overran /\ charge.async
           => Refunded < Total)'
    BY AsyncLess, PTL
  <2>3. Refunded' >= Total
    BY <1>5
  <2>4. ~(Refunded' < Total)
    BY <1>2, <1>5, <2>3
  <2>5. ~charge'.async
    BY <2>1, <2>2, <2>4
  <2> QED BY <2>3, <2>5 DEF Full
<1> QED BY <1>3, <1>4, <1>5

LEMMA BackedStep ==
  ASSUME PendingIsPartial, TypeInv, RefundInv, DebitsQuoted, Backed, Told, Next
  PROVE  Backed'
<1> SUFFICES ASSUME ~overran', NEW p \in Procs,
                    proc'[p].pc \in {"wait", "record", "write"}
             PROVE  /\ /\ proc'[p].pc \in {"record", "write"}
                       /\ proc'[p].op \notin Arms
                       => PaidFor(proc[p].ref, proc[p].ask)'
                    /\ /\ Carries(p)' /\ proc'[p].op = "part"
                       /\ proc'[p].ask # {}
                       => PaidFor(proc[p].ref, proc[p].ask)'
                    /\ Carries(p)' /\ proc'[p].op = "whole" => Full'
  BY DEF Backed, Carries
<1>1. ~overran /\ \A q \in Procs : ~Overrun(q)
  BY InTime
<1>2. CASE /\ proc[p].pc \in {"record", "write"} \/ proc[p].pc = "wait"
           /\ proc[p].pc = "wait" => proc[p].op \in Arms
           /\ proc'[p].op = proc[p].op /\ proc'[p].ask = proc[p].ask
           /\ proc'[p].ref = proc[p].ref
  <2>1. CASE proc[p].op \notin Arms
    <3>1. PaidFor(proc[p].ref, proc[p].ask)
      BY <1>1, <1>2, <2>1 DEF Backed
    <3>2. PaidFor(proc'[p].ref, proc'[p].ask)
      BY <1>2, <3>1
    <3>3. PaidFor(proc[p].ref, proc[p].ask)'
      BY <3>2, RefundsStay DEF PaidFor, Moved
    <3> QED BY <1>2, <2>1, <3>3 DEF Arms
  <2>2. CASE proc[p].op \in Arms
    <3>1. Carries(p)
      BY <1>2, <2>2 DEF Carries
    <3>2. CASE proc[p].op = "whole"
      BY <1>1, <1>2, <3>1, <3>2, FullStays DEF Backed, Arms
    <3>3. CASE proc[p].op = "part" /\ proc[p].ask # {}
      <4>1. PaidFor(proc[p].ref, proc[p].ask)
        BY <1>1, <3>1, <3>3 DEF Backed
      <4>2. PaidFor(proc'[p].ref, proc'[p].ask)
        BY <1>2, <4>1
      <4>3. PaidFor(proc[p].ref, proc[p].ask)'
        BY <4>2, RefundsStay DEF PaidFor, Moved
      <4> QED BY <1>2, <3>3, <4>3 DEF Arms
    <3> QED BY <1>2, <2>2, <3>2, <3>3 DEF Arms
  <2> QED BY <2>1, <2>2
<1>3. CASE proc'[p] = proc[p]
  <2>1. proc[p].pc = "wait" => proc[p].op \in Arms
    BY DEF TypeInv, HandlersTyped, Arms
  <2> QED BY <1>2, <1>3, <2>1
<1>4. CASE Handler(p)
  <2>1. CASE Quote(p)
    <3> DEFINE asked == IF proc[p].op = "full"
                        THEN {i \in Items : item[i] = "active"}
                        ELSE proc[p].ask
    <3>1. /\ proc'[p].op = proc[p].op /\ proc'[p].ask = asked
          /\ proc'[p].ref \in Reusable(asked)
          /\ refunds[proc'[p].ref].state = "succeeded"
      BY <2>1, BeQuoted
    <3>2. refunds' = refunds
      BY <2>1 DEF Quote, stripe
    <3> HIDE DEF asked
    <3>3. PaidFor(proc[p].ref, proc[p].ask)'
      BY <3>1, <3>2 DEF PaidFor, Moved, Reusable, Overlaps, Alive
    <3>4. proc'[p].op \notin Arms
      BY <2>1, <3>1 DEF Quote, TypeInv, HandlersTyped, Arms, Asks
    <3> QED BY <3>3, <3>4 DEF Arms
  <2>2. CASE Pay(p)
    <3>1. /\ proc[p].op \in Asks /\ proc[p].ask \in SUBSET Items
          /\ proc[p].op \notin Arms
      BY <2>2 DEF Pay, TypeInv, HandlersTyped, HandlerType, Arms, Asks
    <3>2. ASSUME NEW r, Answered(p, r), ~charge.async => r \in Moved',
                 refunds'[r].names = proc[p].ask
          PROVE  PaidFor(proc[p].ref, proc[p].ask)' /\ proc'[p].op \notin Arms
      <4>1. ~charge.async
        BY <3>2, BeAnswered
      <4>2. /\ proc'[p].ref = r /\ proc'[p].op = proc[p].op
            /\ proc'[p].ask = proc[p].ask
        BY <3>2, <4>1, BeAnswered
      <4> QED BY <3>1, <3>2, <4>1, <4>2 DEF PaidFor
    <3>3. ASSUME Creates(proc[p].ask, Quoted(proc[p].ask), proc[p].op),
                 Answered(p, Len(refunds) + 1)
          PROVE  PaidFor(proc[p].ref, proc[p].ask)' /\ proc'[p].op \notin Arms
      <4>1. Quoted(proc[p].ask) \in 0..Total
        BY <3>1, Quotes DEF TypeInv, StripeTyped
      <4>2. /\ Len(refunds) + 1 \in DOMAIN refunds'
            /\ refunds'[Len(refunds) + 1] =
                 [names |-> proc[p].ask, cents |-> Quoted(proc[p].ask),
                  by |-> proc[p].op,
                  state |-> IF charge.async THEN "pending" ELSE "succeeded"]
        <5>1. DOMAIN refunds' = DOMAIN refunds \union {Len(refunds) + 1}
          BY <3>1, <3>3, <4>1, Creating, TypesHold
        <5> QED BY <3>1, <3>3, <4>1, <5>1, Creating, TypesHold
      <4>3. ~charge.async => Len(refunds) + 1 \in Moved'
        BY <4>2 DEF Moved
      <4>4. refunds'[Len(refunds) + 1].names = proc[p].ask
        BY <4>2
      <4> QED BY <3>2, <3>3, <4>3, <4>4
    <3>4. ASSUME NEW r \in Twins(p), refunds[r].names = proc[p].ask,
                 Answered(p, r), UNCHANGED stripe
          PROVE  PaidFor(proc[p].ref, proc[p].ask)' /\ proc'[p].op \notin Arms
      <4>1. r \in DOMAIN refunds /\ refunds' = refunds
        BY <3>4 DEF Twins, stripe
      <4>2. ~charge.async => r \in Moved'
        BY <4>1 DEF Moved, TypeInv, StripeTyped
      <4> QED BY <3>2, <3>4, <4>1, <4>2
    <3>5. CASE Ends(p)
      BY <3>5, BeEnded
    <3>6. \/ PaidFor(proc[p].ref, proc[p].ask)' /\ proc'[p].op \notin Arms
          \/ Ends(p)
      BY <2>2, <3>3, <3>4 DEF Pay
    <3> QED BY <3>5, <3>6 DEF Arms
  <2>3. CASE Enter(p)
    BY <1>2, <2>3, BeInside DEF Enter, TypeInv, HandlersTyped, Arms
  <2>4. CASE Record(p) /\ ~Overtaken(p)
    BY <1>2, <2>4, BeWriting DEF Record
  <2>5. CASE Write(p) \/ Throw(p) \/ (Record(p) /\ Overtaken(p))
    BY <2>5, BeEnded DEF Write, Throw, Record
  <2>6. CASE Request(p) \/ GiveUp(p) \/ Crash(p) \/ Release(p)
    BY <2>6, BeIdle, BeAsking
  <2>7. ASSUME NEW e \in events, Receive(p, e), status = "REFUNDED"
        PROVE  proc'[p] = proc[p]
    BY <2>7 DEF Receive
  <2>8. ASSUME NEW e \in events, Receive(p, e), status # "REFUNDED"
        PROVE  /\ proc'[p].pc = "wait"
               /\ proc'[p].op = "part" /\ proc'[p].ask # {}
                    => PaidFor(proc[p].ref, proc[p].ask)'
               /\ proc'[p].op = "whole" => Full'
    <3>1. /\ proc'[p].pc = "wait"
          /\ proc'[p].ref \in DOMAIN refunds
          /\ proc'[p].cum = IF e.cum = 0 THEN Refunded ELSE e.cum
          /\ proc'[p].op = IF proc'[p].cum < Total THEN "part" ELSE "whole"
          /\ proc'[p].op = "part" => proc'[p].ask \in {Named(proc'[p].ref), {}}
      BY <2>8, BeWaiting
    <3>2. refunds' = refunds
      BY <2>8 DEF Receive
    <3>3. proc'[p].op = "part" /\ proc'[p].ask # {}
            => PaidFor(proc[p].ref, proc[p].ask)'
      BY <3>1, <3>2 DEF PaidFor, Moved, Named
    <3>4. ASSUME proc'[p].op = "whole" PROVE Full
      <4>1. e \in Event /\ e.cum \in Nat /\ Refunded \in Nat /\ Total \in Nat
        BY Amounts, TypesHold, TotalIsNat DEF TypeInv, StripeTyped, Event
      <4>2. proc'[p].cum >= Total
        BY <3>1, <3>4, <4>1
      <4>3. CASE e.cum # 0
        <5>1. e.cum >= Total /\ Known(e)
          BY <3>1, <4>2, <4>3 DEF Known
        <5> QED BY <1>1, <4>1, <5>1 DEF Told
      <4>4. CASE e.cum = 0
        <5>1. Refunded >= Total
          BY <3>1, <4>2, <4>4
        <5>2. ~charge.async
          BY <1>1, <4>1, <5>1, AsyncLess
        <5> QED BY <5>1, <5>2 DEF Full
      <4> QED BY <4>3, <4>4
    <3> QED BY <3>1, <3>3, <3>4, FullStays
  <2> QED
    BY <1>1, <1>3, <1>4, <2>1, <2>2, <2>3, <2>4, <2>5, <2>6, <2>7, <2>8
    DEF Handler, Work, Carries
<1>5. ASSUME proc'[p] # proc[p] PROVE Handler(p)
  BY <1>1, <1>5, OthersSame
  DEF Next, DashboardRefund, Settle, Replay, Transfer, Lapse
<1> QED BY <1>3, <1>4, <1>5

LEMMA ItemsPaidStep ==
  ASSUME TypeInv, Backed, ItemsPaid, Next
  PROVE  ItemsPaid'
<1> SUFFICES ASSUME ~overran', NEW i \in Items, item'[i] = "refunded"
             PROVE  Full' \/ \E r \in Moved' : i \in refunds'[r].names
  BY DEF ItemsPaid
<1>1. ~overran
  BY InTime
<1>2. ASSUME NEW r, NEW S, PaidFor(r, S), i \in S
      PROVE  \E s \in Moved' : i \in refunds'[s].names
  BY <1>2, PaidStays DEF PaidFor
<1>3. CASE item[i] = "refunded"
  <2>1. CASE Full
    BY <2>1, FullStays
  <2>2. ASSUME NEW r \in Moved, i \in refunds[r].names
        PROVE  \E s \in Moved' : i \in refunds'[s].names
    BY <1>2, <2>2 DEF PaidFor
  <2> QED BY <1>1, <1>3, <2>1, <2>2 DEF ItemsPaid
<1>4. ASSUME NEW p \in Procs, Write(p), item[i] # "refunded"
      PROVE  Full' \/ \E r \in Moved' : i \in refunds'[r].names
  <2>1. CASE proc[p].op = "whole"
    BY <1>1, <1>4, <2>1, FullStays DEF Write, Backed, Carries, Arms
  <2>2. CASE proc[p].op = "part"
    <3>1. i \in proc[p].ask
      BY <1>4, <2>2 DEF Write, WritesPart, Flips
    <3>2. PaidFor(proc[p].ref, proc[p].ask)
      BY <1>1, <1>4, <2>2, <3>1 DEF Write, Backed, Carries, Arms
    <3> QED BY <1>2, <3>1, <3>2
  <2>3. CASE proc[p].op \notin Arms
    <3>1. i \in proc[p].ask
      BY <1>4, <2>3 DEF Write, WritesRefund, Flips, Arms
    <3>2. PaidFor(proc[p].ref, proc[p].ask)
      BY <1>1, <1>4, <2>3 DEF Write, Backed
    <3> QED BY <1>2, <3>1, <3>2
  <2> QED BY <2>1, <2>2, <2>3 DEF Arms
<1>5. item'[i] = item[i] \/ \E p \in Procs : Write(p)
  <2>1. CASE item' = item
    BY <2>1
  <2>2. ASSUME NEW j \in Items, Transfer(j) PROVE item'[i] = item[i]
    <3>1. item' = [item EXCEPT ![j] = "transferred"]
      BY <2>2 DEF Transfer
    <3>2. i # j
      BY <3>1 DEF TypeInv, BooksTyped
    <3> QED BY <3>1, <3>2 DEF TypeInv, BooksTyped
  <2> QED
    BY <2>1, <2>2
    DEF Next, Handler, Work, Request, Ask, Quote, Pay, Enter, GiveUp, Record,
        Release, Receive, Throw, Crash, Overrun, DashboardRefund, Settle,
        Replay, Lapse, books
<1> QED BY <1>3, <1>4, <1>5

\* The inductive invariant of the tickets: whoever may void one, and whatever
\* event may still call for it, is backed by money that has moved.
THEOREM MoneyInvariance ==
  ASSUME PendingIsPartial
  PROVE  Spec => [](TypeInv /\ RefundInv /\ Once /\ MoneyInv)
<1>1. Init => Once /\ MoneyInv
  <2> SUFFICES ASSUME Init PROVE Once /\ MoneyInv
    OBVIOUS
  <2>1. /\ \A p \in Procs : proc[p].pc = "idle" /\ proc[p].ev = NoEvent
        /\ refunds = <<>> /\ events = {} /\ parked = {}
        /\ \A i \in Items : item[i] = "active"
    BY DEF Init, Idle, Active
  <2>2. Once
    BY <2>1 DEF Once, Alive
  <2>3. DebitsQuoted
    <3>1. Alive = {}
      BY <2>1 DEF Alive
    <3>2. Refunded = 0
      BY <3>1, SumEmpty, RefundedIsSum
    <3>3. TypeInv
      BY TypeInit
    <3>4. NamedAlive \in SUBSET Items
      BY <3>3, NamesAreItems
    <3>5. Quoted(NamedAlive) \in Nat
      BY <3>3, <3>4, QuotesAdd DEF TypeInv, StripeTyped
    <3> QED BY <2>1, <3>2, <3>5 DEF DebitsQuoted
  <2>4. Backed /\ ItemsPaid
    BY <2>1 DEF Backed, Carries, ItemsPaid
  <2>5. Told
    <3>1. \A e : Known(e) => e.cum = 0
      BY <2>1 DEF Known, NoEvent, Init
    <3>2. Total > 0
      <4>1. Cardinality(Items) \in Nat /\ Cardinality(Items) # 0
        BY RefundAssumptions, FS_EmptySet, Costs
      <4> QED BY <4>1, TotalIsNat, RefundAssumptions DEF Total
    <3> QED BY <3>1, <3>2, TotalIsNat DEF Told
  <2> QED BY <2>2, <2>3, <2>4, <2>5 DEF MoneyInv
<1>2. TypeInv /\ RefundInv /\ Once /\ MoneyInv /\ [Next]_vars
        => Once' /\ MoneyInv'
  <2> SUFFICES ASSUME TypeInv, RefundInv, Once, MoneyInv, [Next]_vars
               PROVE  Once' /\ MoneyInv'
    OBVIOUS
  <2>1. CASE UNCHANGED vars
    <3>1. Refunded' = Refunded /\ Alive' = Alive
      BY <2>1, SameRefunds DEF vars, stripe
    <3>2. Once'
      BY <2>1, <3>1 DEF Once, Overlaps, vars, stripe
    <3>3. Moved' = Moved /\ NamedAlive' = NamedAlive /\ (Full' <=> Full)
      BY <2>1, <3>1 DEF Moved, NamedAlive, Full, vars, stripe
    <3>4. DebitsQuoted'
      BY <2>1, <3>1, <3>3 DEF MoneyInv, DebitsQuoted, Quoted, vars, stripe
    <3>5. Backed'
      BY <2>1, <3>3 DEF MoneyInv, Backed, Carries, PaidFor, vars, stripe
    <3>6. Told'
      BY <2>1, <3>3 DEF MoneyInv, Told, Known, vars, stripe
    <3>7. ItemsPaid'
      BY <2>1, <3>3 DEF MoneyInv, ItemsPaid, vars, books, stripe
    <3> QED BY <3>2, <3>4, <3>5, <3>6, <3>7 DEF MoneyInv
  <2> QED BY <2>1, OnceStep, DebitsQuotedStep, BackedStep, ToldStep,
             ItemsPaidStep DEF MoneyInv
<1> QED
  BY <1>1, <1>2, TypeInit, TypeStep, RefundInvariance, PTL DEF Spec

\* A ticket is voided for money that has moved, if a refund that is pending at
\* first is the platform's and leaves it a fee: then no event of such a refund
\* ever calls for the whole payment (reconcileStripeFullRefund's full arm does
\* not ask whether the refund succeeded).
THEOREM VoidedForMoney ==
  ASSUME PendingIsPartial
  PROVE  Spec => []RefundedItemHasMoney
<1>1. TypeInv /\ MoneyInv => RefundedItemHasMoney
  <2> SUFFICES ASSUME TypeInv, MoneyInv PROVE RefundedItemHasMoney
    OBVIOUS
  <2>1. ASSUME Full PROVE MapThenSumSet(CentsOf, Moved) >= Total
    <3>1. Moved = Alive
      BY <2>1 DEF Full, Moved, Alive, TypeInv, StripeTyped
    <3> QED BY <2>1, <3>1 DEF Refunded, Full
  <2> QED BY <2>1 DEF MoneyInv, ItemsPaid, RefundedItemHasMoney, Moved
<1> QED BY <1>1, MoneyInvariance, PTL
=============================================================================
