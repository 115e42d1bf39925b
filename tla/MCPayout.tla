------------------------------ MODULE MCPayout ------------------------------
(* Payout on small instances: credits are interchangeable, and so are runs. *)
EXTENDS Payout, TLC

Symmetry == Permutations(Credits) \union Permutations(Runs)

\* A run dies, or its last writes fail, about a refund; the claim's commit
\* fails about a dispute; the sweep and its heal fail; Stripe's answer is lost;
\* the stamps of the credits or of the items fail, in a run or in the heal of
\* one that died.
OneOfEach == {{"crash", "refund"}, {"mark", "ledger", "refund"},
              {"commit", "dispute"}, {"heal", "recover"}, {"lost"},
              {"crash", "consume", "stamp"}, {"consume", "refund"}}
\* The same ledger write fails twice, in the run and in the next one's heal.
LedgerTwice == {{"ledger", "heal"}}
=============================================================================
