------------------------------ MODULE Purchase ------------------------------
(***************************************************************************)
(* What the ticket checkout promises a buyer, with no database, payment    *)
(* processor or job in sight.  A purchase that is opened is paid for at    *)
(* most once, is fulfilled only after it was paid for, and is voided only  *)
(* while it has not been paid for.  A purchase that costs nothing is       *)
(* granted at once.  Checkout.tla implements this specification.           *)
(***************************************************************************)
CONSTANT Orders

VARIABLES phase,    \* where each purchase stands
          charged   \* the purchases the buyer's money was taken for

purchaseVars == <<phase, charged>>

Phases == {"none", "open", "fulfilled", "void"}

PurchaseInit ==
  /\ phase = [o \in Orders |-> "none"]
  /\ charged = {}

\* A checkout commits an order that still has to be paid for.
Open(o) ==
  /\ phase[o] = "none"
  /\ phase' = [phase EXCEPT ![o] = "open"]
  /\ UNCHANGED charged

\* A checkout whose whole price platform credit covers issues its tickets.
Grant(o) ==
  /\ phase[o] = "none"
  /\ phase' = [phase EXCEPT ![o] = "fulfilled"]
  /\ UNCHANGED charged

\* The buyer's money is taken: only for a purchase that is still open.
Charge(o) ==
  /\ phase[o] = "open"
  /\ o \notin charged
  /\ charged' = charged \union {o}
  /\ UNCHANGED phase

\* The tickets are issued: only for money that was taken.
Fulfil(o) ==
  /\ phase[o] = "open"
  /\ o \in charged
  /\ phase' = [phase EXCEPT ![o] = "fulfilled"]
  /\ UNCHANGED charged

\* The purchase is given up: never after money was taken for it.
Void(o) ==
  /\ phase[o] = "open"
  /\ o \notin charged
  /\ phase' = [phase EXCEPT ![o] = "void"]
  /\ UNCHANGED charged

(***************************************************************************)
(* One checkout transaction may void the cart it supersedes and open (or   *)
(* grant) its own order in the same commit.                                *)
(***************************************************************************)
Supersede(o, p) ==
  /\ o # p
  /\ phase[o] = "none"
  /\ phase[p] = "open"
  /\ p \notin charged
  /\ \E ph \in {"open", "fulfilled"} :
       phase' = [phase EXCEPT ![p] = "void", ![o] = ph]
  /\ UNCHANGED charged

PurchaseNext ==
  \E o \in Orders :
    \/ Open(o) \/ Grant(o) \/ Charge(o) \/ Fulfil(o) \/ Void(o)
    \/ \E p \in Orders : Supersede(o, p)

PurchaseSpec == PurchaseInit /\ [][PurchaseNext]_purchaseVars
=============================================================================
