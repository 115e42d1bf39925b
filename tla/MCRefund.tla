------------------------------ MODULE MCRefund ------------------------------
(* Refund on small instances: items and handlers are interchangeable. *)
EXTENDS Refund, TLC

Symmetry == Permutations(Items) \union Permutations(Procs)

Charge(async, staff, exact, answers) ==
  [fee |-> 1, async |-> async, staff |-> staff, exact |-> exact,
   answers |-> answers]

\* Cards: a refund succeeds at once, and staff use the dashboard.  A
\* charge.refunded that may be taken for another refund can also be taken right,
\* and a question to Stripe that may fail can also be answered.
Cards == {Charge(FALSE, TRUE, FALSE, FALSE)}
\* Events that name their refund, on a card and on a bank debit.
CardAndDebit == {Charge(async, FALSE, TRUE, answers) : async, answers \in BOOLEAN}
=============================================================================
