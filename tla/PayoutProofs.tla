---------------------------- MODULE PayoutProofs ----------------------------
(***************************************************************************)
(* Theorems about Payout for any credits, runs and bounds.  What a ledger  *)
(* entry or a failed item says of Stripe holds under every fault.  That    *)
(* the payee is not sent more than the credits needs three things: the     *)
(* claim of a transfer outlives the next day's sweep; a ledger write that  *)
(* was cut short is not cut short again in the sweep that heals it; and no *)
(* behaviour has both a lost consumption, which nothing makes good, and a  *)
(* dispute, which is what such a loss can be mistaken under.               *)
(***************************************************************************)
EXTENDS Payout, Sums, SequenceTheorems

ItemType == [hash : Hash, amount : Cents \ {0},
             status : {"pending", "transferred", "failed"}]

Unsent == {"begin", "check", "send"}
Marked == {"ledger", "consume", "stamp", "settle"}

\* The run has the cell and works on its item.
Working(r) ==
  run[r].pc \in Unsent \union {"sent", "repair", "mark"} \union Marked

\* Stripe transferred the item.
Paid(n) == [item |-> n, amount |-> items[n].amount] \in sent

Shaped == items \in Seq(ItemType) /\ IsFiniteSet(sent)

Runner(r) ==
  /\ run[r].asOf \subseteq matured /\ run[r].plan \subseteq run[r].asOf
  /\ run[r].pc = "idle" => run[r] = Idle
  /\ run[r].pc \in {"plan", "feed", "claim"} => run[r].item = 0
  /\ run[r].pc \in {"feed", "claim"} => run[r].amount # 0
  /\ run[r].pc = "claim" => run[r].plan # {}
  /\ Working(r) => run[r].item \in DOMAIN items /\ cell = "busy"

\* One run at a time works on an item, and it has the cell.
Runners ==
  /\ \A r \in Runs : Runner(r)
  /\ \A r, q \in Runs : Working(r) /\ Working(q) => r = q
  /\ \A n \in DOMAIN items : items[n].hash \subseteq matured

\* How far a run has come says whether its item was transferred.
Progress(r) ==
  /\ Working(r) /\ run[r].pc \notin Unsent => Paid(run[r].item)
  /\ run[r].pc \in Unsent =>
       /\ \A t \in sent : t.item # run[r].item
       /\ items[run[r].item].status # "failed"

\* And so do an item's status and the committed claim of its hash.
Truths ==
  /\ \A t \in sent : t.amount = items[t.item].amount
  /\ \A n \in DOMAIN items : items[n].status = "transferred" => Paid(n)
  /\ \A h \in DOMAIN claims : claims[h].by # 0 =>
       items[claims[h].by].hash = h /\ Paid(claims[h].by)
  /\ \A r \in Runs : Progress(r)

PayoutInv ==
  /\ TypeOK /\ Shaped /\ Runners /\ Truths
  /\ DebitsWereSent /\ FailedWasNotSent

-----------------------------------------------------------------------------
(* Items.                                                                  *)

LEMMA ItemTypes ==
  ASSUME Shaped
  PROVE  /\ Len(items) \in Nat /\ DOMAIN items = 1..Len(items)
         /\ items \in [DOMAIN items -> ItemType]
<1>1. items \in Seq(ItemType)
  BY DEF Shaped
<1> QED BY <1>1, LenProperties, Zenon

\* The next items are the same plans, with other statuses.
SamePlans ==
  /\ items' \in Seq(ItemType)
  /\ Len(items') = Len(items) /\ DOMAIN items' = DOMAIN items
  /\ \A n \in DOMAIN items : /\ items'[n].hash = items[n].hash
                             /\ items'[n].amount = items[n].amount

LEMMA ItemsChange ==
  ASSUME Shaped, NEW f \in [DOMAIN items -> ItemType]
  PROVE  /\ f \in Seq(ItemType) /\ Len(f) = Len(items)
         /\ DOMAIN f = DOMAIN items
<1>1. Len(items) \in Nat /\ DOMAIN items = 1..Len(items)
  BY ItemTypes
<1>2. f \in Seq(ItemType)
  BY <1>1, SeqDef
<1> QED BY <1>1, <1>2, LenProperties

LEMMA ItemsStay ==
  ASSUME Shaped, items' = items
  PROVE  SamePlans
  BY DEF SamePlans, Shaped

\* The status of some items changes.
LEMMA Restates ==
  ASSUME Shaped, NEW done,
         NEW status \in {"pending", "transferred", "failed"}
  PROVE  /\ Stamped(done, status) \in [DOMAIN items -> ItemType]
         /\ \A n \in DOMAIN items :
              /\ Stamped(done, status)[n].hash = items[n].hash
              /\ Stamped(done, status)[n].amount = items[n].amount
              /\ Stamped(done, status)[n].status =
                   IF n \in done THEN status ELSE items[n].status
<1>1. items \in [DOMAIN items -> ItemType]
  BY ItemTypes
<1>2. ASSUME NEW n \in DOMAIN items
      PROVE  /\ [items[n] EXCEPT !.status = status] \in ItemType
             /\ items[n] \in ItemType
             /\ [items[n] EXCEPT !.status = status].hash = items[n].hash
             /\ [items[n] EXCEPT !.status = status].amount = items[n].amount
             /\ [items[n] EXCEPT !.status = status].status = status
  BY <1>1 DEF ItemType
<1> HIDE DEF ItemType
<1> QED BY <1>2 DEF Stamped

LEMMA StatusSteps ==
  ASSUME Shaped, NEW done,
         NEW status \in {"pending", "transferred", "failed"},
         items' = Stamped(done, status)
  PROVE  /\ SamePlans
         /\ \A n \in DOMAIN items :
              items'[n].status =
                   IF n \in done THEN status ELSE items[n].status
<1>1. items' \in [DOMAIN items -> ItemType]
  BY Restates
<1>2. /\ items' \in Seq(ItemType)
      /\ Len(items') = Len(items) /\ DOMAIN items' = DOMAIN items
  BY <1>1, ItemsChange
<1> QED BY <1>2, Restates DEF SamePlans

LEMMA LosesSteps ==
  ASSUME Shaped, NEW r \in Runs, LosesClaim(r), run[r].item \notin Probed(r)
  PROVE  /\ SamePlans
         /\ \A n \in DOMAIN items :
              items'[n].status =
                   IF n = run[r].item THEN "failed"
                   ELSE IF n \in Probed(r) THEN "transferred"
                   ELSE items[n].status
<1> DEFINE status(n) == IF n = run[r].item THEN "failed"
                        ELSE IF n \in Probed(r) THEN "transferred"
                        ELSE items[n].status
<1>1. items \in [DOMAIN items -> ItemType]
  BY ItemTypes
<1>2. ASSUME NEW n \in DOMAIN items
      PROVE  /\ items'[n] = [items[n] EXCEPT !.status = status(n)]
             /\ items'[n] \in ItemType
             /\ items'[n].hash = items[n].hash
             /\ items'[n].amount = items[n].amount
             /\ items'[n].status = status(n)
  <2>1. items[n] \in ItemType /\ status(n) \in {"pending", "transferred", "failed"}
    BY <1>1 DEF ItemType
  <2>2. items'[n] = [items[n] EXCEPT !.status = status(n)]
    <3>1. (CASE n = run[r].item -> "failed"
             [] n \in Probed(r) -> "transferred"
             [] OTHER -> items[n].status) = status(n)
      <4>1. CASE n = run[r].item
        BY <4>1
      <4>2. CASE n # run[r].item
        BY <4>2
      <4> QED BY <4>1, <4>2
    <3> QED BY <3>1 DEF LosesClaim
  <2> HIDE DEF status
  <2> QED BY <2>1, <2>2 DEF ItemType
<1>3. items' = [n \in DOMAIN items |-> items'[n]]
  BY DEF LosesClaim
<1>4. items' \in [DOMAIN items -> ItemType]
  BY <1>2, <1>3
<1>5. /\ items' \in Seq(ItemType)
      /\ Len(items') = Len(items) /\ DOMAIN items' = DOMAIN items
  BY <1>4, ItemsChange
<1> QED BY <1>2, <1>5 DEF SamePlans

LEMMA ItemsGrow ==
  ASSUME Shaped, NEW it \in ItemType, items' = Append(items, it)
  PROVE  /\ items' \in Seq(ItemType) /\ Len(items') = Len(items) + 1
         /\ DOMAIN items' = DOMAIN items \union {Len(items) + 1}
         /\ Len(items) + 1 \notin DOMAIN items
         /\ \A n \in DOMAIN items : items'[n] = items[n]
         /\ items'[Len(items) + 1] = it
<1>1. Len(items) \in Nat /\ DOMAIN items = 1..Len(items) /\ items \in Seq(ItemType)
  BY ItemTypes DEF Shaped
<1> HIDE DEF ItemType
<1>2. items' \in Seq(ItemType) /\ Len(items') = Len(items) + 1
  BY <1>1, AppendProperties
<1>3. DOMAIN items' = 1..(Len(items) + 1)
  BY <1>2, LenProperties
<1>4. \A n \in 1..Len(items) : items'[n] = items[n]
  BY <1>1, AppendProperties
<1>5. items'[Len(items) + 1] = it
  BY <1>1, AppendProperties
<1> QED BY <1>1, <1>2, <1>3, <1>4, <1>5

\* A new ledger entry has the amount of an item it is written for.
LEMMA DebitsNew ==
  ASSUME Shaped, NEW ns, ns \subseteq DOMAIN items
  PROVE  /\ DOMAIN PayoutDebits(ns) =
              DOMAIN rows \union {items[n].hash : n \in ns}
         /\ \A h \in DOMAIN PayoutDebits(ns) :
              \/ h \in DOMAIN rows /\ PayoutDebits(ns)[h] = rows[h]
              \/ \E n \in ns : /\ items[n].hash = h
                               /\ PayoutDebits(ns)[h] = items[n].amount
<1> DEFINE first(h) == CHOOSE n \in ns :
                         /\ LedgerKey(n) = h
                         /\ \A k \in ns : LedgerKey(k) = h => n <= k
           new == {LedgerKey(n) : n \in ns} \ DOMAIN rows
<1>1. ASSUME NEW h \in new
      PROVE  first(h) \in ns /\ LedgerKey(first(h)) = h
  <2> DEFINE N == {n \in ns : LedgerKey(n) = h}
  <2>1. N \subseteq Nat /\ N # {}
    BY ItemTypes
  <2>2. PICK n \in N : \A k \in N : n <= k
    BY <2>1, HasLeast
  <2> QED BY <2>2
<1>2. DOMAIN PayoutDebits(ns) = DOMAIN rows \union new
  BY DEF PayoutDebits
<1>3. \A h \in new : PayoutDebits(ns)[h] = items[first(h)].amount
  BY DEF PayoutDebits
<1>4. \A h \in DOMAIN rows : PayoutDebits(ns)[h] = rows[h]
  BY DEF PayoutDebits
<1>5. DOMAIN rows \union new = DOMAIN rows \union {items[n].hash : n \in ns}
  BY DEF LedgerKey
<1>6. \A n \in ns : LedgerKey(n) = items[n].hash
  BY DEF LedgerKey
<1> HIDE DEF first
<1> QED BY <1>1, <1>2, <1>3, <1>4, <1>5, <1>6

-----------------------------------------------------------------------------
(* Types.                                                                  *)

RunType ==
  [pc : {"idle", "plan", "feed", "claim", "begin", "check",
         "send", "sent", "repair", "mark", "ledger", "consume", "stamp",
         "settle"},
   asOf : SUBSET Credits, amount : Cents, plan : SUBSET Credits,
   item : 0..MaxItems]

LedgerTypes ==
  /\ matured \subseteq Credits /\ consumed \subseteq matured
  /\ debited \subseteq Credits /\ held \subseteq Credits \ debited
  /\ paidOut \subseteq Credits

RowTypes ==
  /\ DOMAIN rows \subseteq Hash
  /\ \A h \in DOMAIN rows : rows[h] \in Cents \ {0}

ClaimTypes ==
  /\ DOMAIN claims \subseteq Hash
  /\ \A h \in DOMAIN claims :
       claims[h] \in [by : {0} \union DOMAIN items, day : 0..MaxDay]

LEMMA TypeParts ==
  ASSUME Shaped
  PROVE  TypeOK <=>
           /\ day \in 0..MaxDay /\ swept \in BOOLEAN
           /\ LedgerTypes /\ RowTypes /\ Len(items) <= MaxItems
           /\ sent \subseteq [item : DOMAIN items, amount : Cents \ {0}]
           /\ keys \subseteq Hash /\ ClaimTypes
           /\ cell \in {"free", "busy", "failed", "done"}
           /\ run \in [Runs -> RunType]
           /\ faults \in SUBSET FaultKinds /\ lost \in BOOLEAN
<1>1. \A n \in DOMAIN items : items[n] \in ItemType
  BY ItemTypes
<1> QED BY <1>1 DEF TypeOK, LedgerTypes, RowTypes, ClaimTypes, RunType, ItemType

LEMMA TypePartsNext ==
  Shaped' =>
    (TypeOK' <=>
       /\ day' \in 0..MaxDay /\ swept' \in BOOLEAN
       /\ LedgerTypes' /\ RowTypes' /\ Len(items') <= MaxItems
       /\ sent' \subseteq [item : DOMAIN items', amount : Cents \ {0}]
       /\ keys' \subseteq Hash /\ ClaimTypes'
       /\ cell' \in {"free", "busy", "failed", "done"}
       /\ run' \in [Runs -> RunType]
       /\ faults' \in SUBSET FaultKinds /\ lost' \in BOOLEAN)
<1>1. (Shaped => (TypeOK <=>
           /\ day \in 0..MaxDay /\ swept \in BOOLEAN
           /\ LedgerTypes /\ RowTypes /\ Len(items) <= MaxItems
           /\ sent \subseteq [item : DOMAIN items, amount : Cents \ {0}]
           /\ keys \subseteq Hash /\ ClaimTypes
           /\ cell \in {"free", "busy", "failed", "done"}
           /\ run \in [Runs -> RunType]
           /\ faults \in SUBSET FaultKinds /\ lost \in BOOLEAN))'
  BY TypeParts, PTL
<1> QED BY <1>1

\* How a run goes on.
LEMMA RunGoes ==
  ASSUME NEW r \in Runs, run \in [Runs -> RunType],
         NEW pc \in {"idle", "plan", "feed", "claim", "begin", "check", "send",
                     "sent", "repair", "mark", "ledger", "consume", "stamp",
                     "settle"},
         Goes(r, pc)
  PROVE  /\ run' \in [Runs -> RunType]
         /\ run'[r] = [run[r] EXCEPT !.pc = pc]
         /\ run'[r].pc = pc /\ run'[r].asOf = run[r].asOf
         /\ run'[r].amount = run[r].amount /\ run'[r].plan = run[r].plan
         /\ run'[r].item = run[r].item
         /\ \A q \in Runs \ {r} : run'[q] = run[q]
<1>1. /\ run[r] \in RunType /\ [run[r] EXCEPT !.pc = pc] \in RunType
      /\ run'[r] = [run[r] EXCEPT !.pc = pc]
  BY DEF Goes, RunType
<1> QED BY <1>1 DEF Goes, RunType

LEMMA IdleType == Idle \in RunType
  BY FS_CardinalityType, PayoutAssumptions DEF Idle, RunType, Cents

LEMMA RunEnds ==
  ASSUME NEW r \in Runs, run \in [Runs -> RunType], Ends(r)
  PROVE  /\ run' \in [Runs -> RunType] /\ run'[r] = Idle
         /\ \A q \in Runs \ {r} : run'[q] = run[q]
  BY IdleType DEF Ends

\* Taking, committing or failing a claim.
LEMMA Claiming ==
  ASSUME NEW h, NEW by, claims' = With(h, by)
  PROVE  /\ DOMAIN claims' = DOMAIN claims \union {h}
         /\ claims'[h] = [by |-> by, day |-> day]
         /\ \A k \in DOMAIN claims \ {h} : claims'[k] = claims[k]
  BY DEF With

LEMMA ClaimingTypes ==
  ASSUME ClaimTypes, SamePlans, NEW h \in Hash,
         NEW by \in {0} \union DOMAIN items, claims' = With(h, by),
         day \in 0..MaxDay
  PROVE  ClaimTypes'
<1> DEFINE ClaimType == [by : {0} \union DOMAIN items, day : 0..MaxDay]
<1>1. DOMAIN items' = DOMAIN items
  BY DEF SamePlans
<1>2. [by |-> by, day |-> day] \in ClaimType
  OBVIOUS
<1>3. \A k \in DOMAIN claims : claims[k] \in ClaimType
  BY DEF ClaimTypes
<1> HIDE DEF ClaimType
<1>4. /\ DOMAIN claims' = DOMAIN claims \union {h}
      /\ claims'[h] = [by |-> by, day |-> day]
      /\ \A k \in DOMAIN claims \ {h} : claims'[k] = claims[k]
  BY Claiming
<1>5. /\ DOMAIN claims' \subseteq Hash
      /\ \A k \in DOMAIN claims' : claims'[k] \in ClaimType
  BY <1>2, <1>3, <1>4 DEF ClaimTypes
<1> QED BY <1>1, <1>5 DEF ClaimTypes, ClaimType

LEMMA KeptClaims ==
  ASSUME NEW gone, claims' = Kept(gone)
  PROVE  /\ DOMAIN claims' = DOMAIN claims \ gone
         /\ \A k \in DOMAIN claims \ gone : claims'[k] = claims[k]
  BY DEF Kept

\* The item of a run at work.
LEMMA MineTypes ==
  ASSUME PayoutInv, NEW r \in Runs, Working(r)
  PROVE  /\ run[r].item \in DOMAIN items /\ Mine(r) \in ItemType
         /\ Mine(r).hash \in Hash /\ Mine(r).amount \in Cents \ {0}
         /\ Mine(r).hash \subseteq matured /\ cell = "busy"
         /\ \A q \in Runs \ {r} : ~Working(q)
<1>1. run[r].item \in DOMAIN items /\ Shaped
  BY DEF PayoutInv, Runners, Runner
<1>2. Mine(r) \in ItemType
  BY <1>1, ItemTypes DEF Mine
<1> QED BY <1>1, <1>2 DEF ItemType, Mine, PayoutInv, Runners, Runner

\* A run that is not at work has no item.
LEMMA NoItem ==
  ASSUME PayoutInv, NEW r \in Runs, ~Working(r)
  PROVE  run[r].item = 0 /\ run[r].item \notin DOMAIN items
<1>1. run \in [Runs -> RunType] /\ Shaped
  BY TypeParts DEF PayoutInv
<1>2. 0 \notin DOMAIN items
  BY <1>1, ItemTypes
<1>3. run[r].pc \in {"idle", "plan", "feed", "claim"}
  BY <1>1 DEF RunType, Working, Unsent, Marked
<1> QED BY <1>2, <1>3 DEF PayoutInv, Runners, Runner, Idle

\* The parts of the type, by name, and what the steps below read of it.
LEMMA Types ==
  ASSUME PayoutInv
  PROVE  /\ Shaped /\ run \in [Runs -> RunType]
         /\ day \in 0..MaxDay /\ swept \in BOOLEAN
         /\ LedgerTypes /\ RowTypes /\ Len(items) <= MaxItems
         /\ sent \subseteq [item : DOMAIN items, amount : Cents \ {0}]
         /\ keys \subseteq Hash /\ ClaimTypes
         /\ cell \in {"free", "busy", "failed", "done"}
         /\ faults \in SUBSET FaultKinds /\ lost \in BOOLEAN
  BY TypeParts DEF PayoutInv

\* What the transfers of a step leave.
LEMMA SentTypes ==
  ASSUME PayoutInv, SamePlans, sent' = sent
  PROVE  /\ Shaped' /\ Len(items') <= MaxItems
         /\ sent' \subseteq [item : DOMAIN items', amount : Cents \ {0}]
  BY Types DEF SamePlans, Shaped

LEMMA StruckTypes ==
  ASSUME PayoutInv, NEW f, faults' = faults \ {f}
  PROVE  faults' \in SUBSET FaultKinds
  BY Types

\* What a run does to its record, and the others' stay.
LEMMA RunTurns ==
  ASSUME PayoutInv, NEW r \in Runs, NEW h \in RunType,
         run' = [run EXCEPT ![r] = h]
  PROVE  /\ run' \in [Runs -> RunType] /\ run'[r] = h
         /\ \A q \in Runs \ {r} : run'[q] = run[q]
  BY Types

Others(r) == \A q \in Runs \ {r} : run'[q] = run[q]

\* What is consumed and stamped of some items, of which one may be missed.
Covered(ns) ==
  /\ consumed \subseteq consumed' /\ consumed' \subseteq consumed \union Covers(ns)
  /\ "consume" \notin faults => Covers(ns) \subseteq consumed'
  /\ paidOut \subseteq paidOut' /\ paidOut' \subseteq paidOut \union Covers(ns)

LEMMA HealCovers ==
  ASSUME NEW ns, Heals(ns)
  PROVE  Covered(ns) /\ faults' \subseteq faults
<1>1. \A n \in ns : Covers(ns \ {n}) \subseteq Covers(ns)
  BY DEF Covers
<1>2. PICK fail \in SUBSET (faults \intersect {"consume", "stamp"}) :
        /\ faults' = faults \ fail
        /\ IF "consume" \in fail THEN \E n \in ns : Consumes(ns \ {n})
           ELSE Consumes(ns)
        /\ IF "stamp" \in fail THEN \E n \in ns : Stamps(ns \ {n})
           ELSE Stamps(ns)
  BY DEF Heals
<1> HIDE DEF Covers
<1>3. /\ consumed \subseteq consumed'
      /\ consumed' \subseteq consumed \union Covers(ns)
      /\ "consume" \notin faults => Covers(ns) \subseteq consumed'
  BY <1>1, <1>2 DEF Consumes
<1>4. paidOut \subseteq paidOut' /\ paidOut' \subseteq paidOut \union Covers(ns)
  BY <1>1, <1>2 DEF Stamps
<1> QED BY <1>2, <1>3, <1>4 DEF Covered

\* The sweep: every ledger entry it writes and every item it recovers.
LEMMA SweepEffect ==
  ASSUME PayoutInv, NEW r \in Runs, Sweep(r)
  PROVE  \E young \in SUBSET {run[q].item : q \in Runs} :
         \E heal \in SUBSET DOMAIN items :
         /\ \/ heal = NeedsHeal(Recovered(young))
            \/ heal = {} /\ Strikes("heal")
         /\ SamePlans /\ faults' \subseteq faults
         /\ \A n \in DOMAIN items :
              items'[n].status = IF n \in Recovered(young) THEN "transferred"
                                 ELSE items[n].status
         /\ DOMAIN rows' = DOMAIN rows \union {items[n].hash : n \in heal}
         /\ \A h \in DOMAIN rows' :
              \/ h \in DOMAIN rows /\ rows'[h] = rows[h]
              \/ \E n \in heal : items[n].hash = h /\ rows'[h] = items[n].amount
         /\ Covered(heal)
         /\ run' \in [Runs -> RunType]
         /\ run'[r] = [Idle EXCEPT !.pc = "plan", !.asOf = matured]
         /\ Others(r)
<1>1. PICK young \in SUBSET {run[q].item : q \in Runs} :
        LET done == Recovered(young)
            heal == NeedsHeal(done)
        IN  /\ items' = Stamped(done, "transferred")
            /\ \/ Heals(heal)
               \/ /\ heal # {} /\ Strikes("heal")
                  /\ UNCHANGED <<rows, consumed, paidOut>>
  BY DEF Sweep
<1>2. PICK heal \in SUBSET DOMAIN items :
        /\ \/ heal = NeedsHeal(Recovered(young))
           \/ heal = {} /\ Strikes("heal")
        /\ faults' \subseteq faults
        /\ \/ rows' = PayoutDebits(heal)
           \/ rows' = rows /\ heal = {}
        /\ Covered(heal)
  <2>1. CASE Heals(NeedsHeal(Recovered(young)))
    <3>1. NeedsHeal(Recovered(young)) \in SUBSET DOMAIN items
      BY DEF NeedsHeal
    <3> QED BY <2>1, <3>1, HealCovers DEF Heals
  <2>2. CASE Strikes("heal") /\ UNCHANGED <<rows, consumed, paidOut>>
    <3>1. Covered({}) /\ faults' \subseteq faults
      BY <2>2 DEF Covered, Covers, Strikes
    <3>2. {} \in SUBSET DOMAIN items
      OBVIOUS
    <3> QED BY <2>2, <3>1, <3>2
  <2> QED BY <1>1, <2>1, <2>2
<1>3. /\ SamePlans
      /\ \A n \in DOMAIN items :
           items'[n].status = IF n \in Recovered(young) THEN "transferred"
                              ELSE items[n].status
  BY <1>1, Types, StatusSteps
<1>4. /\ DOMAIN rows' = DOMAIN rows \union {items[n].hash : n \in heal}
      /\ \A h \in DOMAIN rows' :
           \/ h \in DOMAIN rows /\ rows'[h] = rows[h]
           \/ \E n \in heal : items[n].hash = h /\ rows'[h] = items[n].amount
  <2>1. CASE rows' = PayoutDebits(heal)
    <3>1. Shaped /\ heal \subseteq DOMAIN items
      BY Types
    <3>2. /\ DOMAIN PayoutDebits(heal) =
               DOMAIN rows \union {items[n].hash : n \in heal}
          /\ \A h \in DOMAIN PayoutDebits(heal) :
               \/ h \in DOMAIN rows /\ PayoutDebits(heal)[h] = rows[h]
               \/ \E n \in heal : /\ items[n].hash = h
                                  /\ PayoutDebits(heal)[h] = items[n].amount
      BY <3>1, DebitsNew
    <3> QED BY <2>1, <3>2
  <2>2. CASE rows' = rows /\ heal = {}
    BY <2>2
  <2> QED BY <1>2, <2>1, <2>2
<1>5. /\ run' \in [Runs -> RunType]
      /\ run'[r] = [Idle EXCEPT !.pc = "plan", !.asOf = matured]
      /\ Others(r)
  <2>1. run[r] = Idle /\ run \in [Runs -> RunType] /\ matured \in SUBSET Credits
    BY Types DEF Sweep, PayoutInv, Runners, Runner, LedgerTypes
  <2>2. run'[r] = [Idle EXCEPT !.pc = "plan", !.asOf = matured]
    BY <2>1 DEF Sweep
  <2>3. [Idle EXCEPT !.pc = "plan", !.asOf = matured] \in RunType
    BY <2>1, IdleType DEF RunType
  <2>4. run' = [run EXCEPT ![r] = [Idle EXCEPT !.pc = "plan", !.asOf = matured]]
    BY <2>1 DEF Sweep
  <2> HIDE DEF RunType
  <2> QED BY <2>1, <2>2, <2>3, <2>4 DEF Others
<1> QED BY <1>2, <1>3, <1>4, <1>5

\* What a run leaves that ends its item as failed.
LEMMA FailsEffect ==
  ASSUME PayoutInv, NEW r \in Runs, Working(r), Fails(r)
  PROVE  /\ SamePlans
         /\ \A n \in DOMAIN items :
              items'[n].status = IF n = run[r].item THEN "failed"
                                    ELSE items[n].status
         /\ claims' = With(Mine(r).hash, 0) /\ ClaimTypes'
         /\ DOMAIN claims' = DOMAIN claims \union {Mine(r).hash}
         /\ claims'[Mine(r).hash].by = 0
         /\ \A k \in DOMAIN claims \ {Mine(r).hash} : claims'[k] = claims[k]
         /\ cell' = "failed"
         /\ run' \in [Runs -> RunType] /\ run'[r] = Idle /\ Others(r)
<1>1. /\ SamePlans
      /\ \A n \in DOMAIN items :
           items'[n].status = IF n \in {run[r].item} THEN "failed"
                                 ELSE items[n].status
  BY Types, StatusSteps DEF Fails, FailItem
<1>2. claims' = With(Mine(r).hash, 0) /\ cell' = "failed" /\ Ends(r)
  BY DEF Fails
<1>3. Mine(r).hash \in Hash /\ ClaimTypes /\ day \in 0..MaxDay
  BY Types, MineTypes
<1>4. ClaimTypes'
  <2>1. 0 \in {0} \union DOMAIN items
    OBVIOUS
  <2> QED BY <1>1, <1>2, <1>3, <2>1, ClaimingTypes
<1>5. /\ DOMAIN claims' = DOMAIN claims \union {Mine(r).hash}
      /\ claims'[Mine(r).hash] = [by |-> 0, day |-> day]
      /\ \A k \in DOMAIN claims \ {Mine(r).hash} : claims'[k] = claims[k]
  BY <1>2, Claiming
<1>6. run' \in [Runs -> RunType] /\ run'[r] = Idle /\ Others(r)
  BY <1>2, Types, RunEnds DEF Others
<1> QED BY <1>1, <1>2, <1>4, <1>5, <1>6

\* What taking or committing the transfer claim leaves.
LEMMA ClaimsEffect ==
  ASSUME PayoutInv, NEW r \in Runs, Working(r), SamePlans,
         NEW by \in {0, run[r].item}, claims' = With(Mine(r).hash, by)
  PROVE  /\ ClaimTypes'
         /\ DOMAIN claims' = DOMAIN claims \union {Mine(r).hash}
         /\ claims'[Mine(r).hash].by = by
         /\ claims'[Mine(r).hash].day = day
         /\ \A k \in DOMAIN claims \ {Mine(r).hash} : claims'[k] = claims[k]
<1>1. /\ Mine(r).hash \in Hash /\ ClaimTypes /\ day \in 0..MaxDay
      /\ by \in {0} \union DOMAIN items
  BY Types, MineTypes
<1>2. ClaimTypes'
  BY <1>1, ClaimingTypes
<1>3. /\ DOMAIN claims' = DOMAIN claims \union {Mine(r).hash}
      /\ claims'[Mine(r).hash] = [by |-> by, day |-> day]
      /\ \A k \in DOMAIN claims \ {Mine(r).hash} : claims'[k] = claims[k]
  BY Claiming
<1> QED BY <1>2, <1>3

\* What the run that lost the transfer claim leaves.
LEMMA LosesEffect ==
  ASSUME PayoutInv, NEW r \in Runs, run[r].pc = "begin",
         ~Claimable(Mine(r).hash), LosesClaim(r), Ends(r)
  PROVE  /\ SamePlans /\ claims' = claims
         /\ \A n \in DOMAIN items :
              items'[n].status =
                   IF n = run[r].item THEN "failed"
                   ELSE IF n \in Probed(r) THEN "transferred"
                   ELSE items[n].status
         /\ run[r].item \notin Probed(r)
         /\ \A n \in Probed(r) : Paid(n)
         /\ run' \in [Runs -> RunType] /\ run'[r] = Idle /\ Others(r)
<1>1. run[r].pc \in Unsent /\ Working(r)
  BY DEF Unsent, Working
<1>2. Mine(r).hash \in DOMAIN claims
  BY DEF Claimable
<1>3. \A n \in Probed(r) : n \in DOMAIN items /\ n # 0 /\ Paid(n)
  <2>1. 0 \notin DOMAIN items
    BY Types, ItemTypes
  <2> QED BY <1>2, <2>1 DEF Probed, PayoutInv, Truths
<1>4. ~Paid(run[r].item)
  BY <1>1 DEF PayoutInv, Truths, Progress, Paid
<1>5. run[r].item \notin Probed(r)
  BY <1>3, <1>4
<1>6. /\ SamePlans
      /\ \A n \in DOMAIN items :
           items'[n].status =
                IF n = run[r].item THEN "failed"
                ELSE IF n \in Probed(r) THEN "transferred"
                ELSE items[n].status
  BY <1>5, Types, LosesSteps
<1>7. run' \in [Runs -> RunType] /\ run'[r] = Idle /\ Others(r)
  BY Types, RunEnds DEF Others
<1> QED BY <1>3, <1>5, <1>6, <1>7 DEF LosesClaim

-----------------------------------------------------------------------------
(* What ledger entries, items, claims and runs say of Stripe.              *)

LEMMA TypesStay ==
  ASSUME PayoutInv, SamePlans, sent' = sent,
         day' \in 0..MaxDay, swept' \in BOOLEAN,
         LedgerTypes', RowTypes', ClaimTypes', keys' \subseteq Hash,
         cell' \in {"free", "busy", "failed", "done"},
         run' \in [Runs -> RunType],
         faults' \subseteq faults, lost' \in BOOLEAN
  PROVE  TypeOK' /\ Shaped'
<1>1. faults' \in SUBSET FaultKinds
  BY Types
<1>2. /\ Shaped' /\ Len(items') <= MaxItems
      /\ sent' \subseteq [item : DOMAIN items', amount : Cents \ {0}]
  BY SentTypes
<1> QED BY <1>1, <1>2, TypePartsNext

\* The types of what a step leaves alone.
LEMMA UnchangedTypes ==
  ASSUME PayoutInv
  PROVE  /\ UNCHANGED ledger => LedgerTypes' /\ RowTypes'
         /\ UNCHANGED rows => RowTypes'
         /\ UNCHANGED <<matured, consumed, debited, held, paidOut>> => LedgerTypes'
         /\ UNCHANGED time => day' \in 0..MaxDay /\ swept' \in BOOLEAN
         /\ SamePlans /\ UNCHANGED claims => ClaimTypes'
         /\ UNCHANGED keys => keys' \subseteq Hash
         /\ UNCHANGED cell => cell' \in {"free", "busy", "failed", "done"}
         /\ UNCHANGED lost => lost' \in BOOLEAN
<1>1. ASSUME SamePlans, UNCHANGED claims PROVE ClaimTypes'
  BY <1>1, Types DEF ClaimTypes, SamePlans
<1> QED BY <1>1, Types DEF ledger, time, LedgerTypes, RowTypes

\* One run moves: the others are where they were.
LEMMA RunnersTurn ==
  ASSUME PayoutInv, SamePlans, matured' = matured, NEW r \in Runs, Others(r),
         Runner(r)', Working(r)' => Working(r), cell' = cell \/ Working(r)
  PROVE  Runners'
<1>1. ASSUME NEW q \in Runs, q # r
      PROVE  Runner(q)' /\ (Working(q)' <=> Working(q))
  <2>1. run'[q] = run[q]
    BY <1>1 DEF Others
  <2>2. Working(q)' <=> Working(q)
    BY <2>1 DEF Working
  <2>3. Working(q) => cell' = cell
    BY <1>1 DEF PayoutInv, Runners
  <2> QED BY <2>1, <2>2, <2>3 DEF PayoutInv, Runners, Runner, SamePlans
<1>2. \A n \in DOMAIN items' : items'[n].hash \subseteq matured'
  BY DEF PayoutInv, Runners, SamePlans
<1>3. \A q, p \in Runs : Working(q)' /\ Working(p)' => q = p
  BY <1>1 DEF PayoutInv, Runners
<1> QED BY <1>1, <1>2, <1>3 DEF Runners

\* A run that ends fits anywhere.
LEMMA IdleFits ==
  ASSUME NEW r \in Runs, run'[r] = Idle
  PROVE  Runner(r)' /\ ~Working(r)' /\ Progress(r)'
  BY DEF Runner, Working, Progress, Unsent, Marked, Idle

LEMMA TruthsTurn ==
  ASSUME PayoutInv, SamePlans, sent' = sent, NEW r \in Runs, Others(r),
         Progress(r)',
         \A n \in DOMAIN items :
           /\ items'[n].status = "transferred" =>
                items[n].status = "transferred" \/ Paid(n)
           /\ items'[n].status = "failed" =>
                items[n].status = "failed" \/ n = run[r].item,
         \A h \in DOMAIN claims' : claims'[h].by # 0 =>
           \/ h \in DOMAIN claims /\ claims'[h].by = claims[h].by
           \/ /\ items[claims'[h].by].hash = h
              /\ claims'[h].by \in DOMAIN items /\ Paid(claims'[h].by)
  PROVE  Truths'
<1>1. \A n \in DOMAIN items : Paid(n)' <=> Paid(n)
  BY DEF Paid, SamePlans
<1>2. \A t \in sent' : t.amount = items'[t.item].amount
  BY Types DEF PayoutInv, Truths, SamePlans
<1>3. \A n \in DOMAIN items' : items'[n].status = "transferred" => Paid(n)'
  BY <1>1 DEF PayoutInv, Truths, SamePlans
<1>4. ASSUME NEW h \in DOMAIN claims', NEW n, n = claims'[h].by, n # 0
      PROVE  items'[n].hash = h /\ Paid(n)'
  <2>1. n \in DOMAIN items /\ items[n].hash = h /\ Paid(n)
    BY <1>4, Types DEF PayoutInv, Truths, ClaimTypes
  <2> QED BY <1>1, <2>1 DEF SamePlans
<1>5. ASSUME NEW q \in Runs, q # r
      PROVE  Progress(q)'
  <2>1. run'[q] = run[q] /\ Progress(q)
    BY <1>5 DEF Others, PayoutInv, Truths
  <2>2. Working(q) => run[q].item \in DOMAIN items /\ run[q].item # run[r].item
    <3>1. Working(r) \/ run[r].item \notin DOMAIN items
      BY NoItem
    <3> QED BY <1>5, <3>1, MineTypes
  <2> QED
    BY <1>1, <2>1, <2>2 DEF Progress, Working, Unsent, SamePlans
<1> QED BY <1>2, <1>3, <1>4, <1>5 DEF Truths

LEMMA FailedTurn ==
  ASSUME PayoutInv, SamePlans, sent' = sent, NEW r \in Runs,
         lost => lost',
         \A n \in DOMAIN items :
           items'[n].status = "failed" =>
             \/ items[n].status = "failed"
             \/ n = run[r].item /\ run[r].pc \in Unsent
  PROVE  FailedWasNotSent'
<1> SUFFICES ASSUME ~lost', NEW t \in sent'
             PROVE  items'[t.item].status # "failed"
  BY DEF FailedWasNotSent
<1>1. t \in sent /\ t.item \in DOMAIN items
  BY Types
<1>2. items[t.item].status # "failed"
  BY <1>1 DEF PayoutInv, FailedWasNotSent
<1>3. run[r].pc \in Unsent => t.item # run[r].item
  BY <1>1 DEF PayoutInv, Truths, Progress
<1> QED BY <1>1, <1>2, <1>3

LEMMA DebitsStay ==
  ASSUME PayoutInv, SamePlans, sent \subseteq sent', rows' = rows
  PROVE  DebitsWereSent'
<1> SUFFICES ASSUME NEW h \in DOMAIN rows
             PROVE  \E t \in sent' : items'[t.item].hash = h /\ t.amount = rows[h]
  BY DEF DebitsWereSent
<1>1. PICK t \in sent : items[t.item].hash = h /\ t.amount = rows[h]
  BY DEF PayoutInv, DebitsWereSent
<1>2. t.item \in DOMAIN items
  BY Types
<1> QED BY <1>1, <1>2 DEF SamePlans

\* A ledger entry is for a transfer that Stripe accepted.
LEMMA DebitsGrow ==
  ASSUME PayoutInv, SamePlans, sent' = sent, NEW ns \in SUBSET DOMAIN items,
         \A n \in ns : Paid(n),
         \A h \in DOMAIN rows' :
           \/ h \in DOMAIN rows /\ rows'[h] = rows[h]
           \/ \E n \in ns : items[n].hash = h /\ rows'[h] = items[n].amount
  PROVE  DebitsWereSent' /\ RowTypes'
<1>1. ASSUME NEW h \in DOMAIN rows'
      PROVE  /\ \E t \in sent' : items'[t.item].hash = h /\ t.amount = rows'[h]
             /\ h \in Hash /\ rows'[h] \in Cents \ {0}
  <2>1. CASE h \in DOMAIN rows /\ rows'[h] = rows[h]
    <3>1. PICK t \in sent : items[t.item].hash = h /\ t.amount = rows[h]
      BY <2>1 DEF PayoutInv, DebitsWereSent
    <3>2. t.item \in DOMAIN items
      BY Types
    <3> QED BY <2>1, <3>1, <3>2, Types DEF SamePlans, RowTypes
  <2>2. CASE \E n \in ns : items[n].hash = h /\ rows'[h] = items[n].amount
    <3>1. PICK n \in ns : items[n].hash = h /\ rows'[h] = items[n].amount
      BY <2>2
    <3>2. [item |-> n, amount |-> items[n].amount] \in sent
      BY DEF Paid
    <3>3. items[n] \in ItemType
      BY Types, ItemTypes
    <3> QED BY <3>1, <3>2, <3>3 DEF SamePlans, ItemType
  <2> QED BY <1>1, <2>1, <2>2
<1> QED BY <1>1 DEF DebitsWereSent, RowTypes

LEMMA SweepStep == ASSUME PayoutInv, NEW r \in Runs, Sweep(r) PROVE PayoutInv'
<1>1. PICK young \in SUBSET {run[q].item : q \in Runs},
           heal \in SUBSET DOMAIN items :
        /\ \/ heal = NeedsHeal(Recovered(young))
           \/ heal = {} /\ Strikes("heal")
        /\ SamePlans /\ faults' \subseteq faults
        /\ \A n \in DOMAIN items :
             items'[n].status = IF n \in Recovered(young) THEN "transferred"
                                ELSE items[n].status
        /\ DOMAIN rows' = DOMAIN rows \union {items[n].hash : n \in heal}
        /\ \A h \in DOMAIN rows' :
             \/ h \in DOMAIN rows /\ rows'[h] = rows[h]
             \/ \E n \in heal : items[n].hash = h /\ rows'[h] = items[n].amount
        /\ Covered(heal)
        /\ run' \in [Runs -> RunType]
        /\ run'[r] = [Idle EXCEPT !.pc = "plan", !.asOf = matured]
        /\ Others(r)
  BY SweepEffect
<1>2. /\ run[r].pc = "idle" /\ swept' = TRUE
      /\ UNCHANGED <<day, matured, debited, held, stripe, claims, cell, lost>>
  BY DEF Sweep
<1>3. \A n \in Recovered(young) : Paid(n)
  <2>1. 0 \notin DOMAIN items
    BY Types, ItemTypes
  <2> QED BY <2>1 DEF Recovered, Pending, Proven, PayoutInv, Truths
<1>4. \A n \in heal : Paid(n)
  BY <1>1, <1>3 DEF NeedsHeal, PayoutInv, Truths
<1>5. sent' = sent /\ keys' = keys
  BY <1>2 DEF stripe
<1>6. DebitsWereSent' /\ RowTypes'
  BY <1>1, <1>4, <1>5, DebitsGrow
<1>7. LedgerTypes'
  <2>1. Covers(heal) \subseteq matured
    BY <1>1 DEF Covers, PayoutInv, Runners
  <2> QED BY <1>1, <1>2, <2>1, Types DEF LedgerTypes, Covered
<1>8. TypeOK' /\ Shaped'
  BY <1>1, <1>2, <1>5, <1>6, <1>7, Types, TypesStay, UnchangedTypes
<1>9. Runner(r)' /\ ~Working(r)' /\ Progress(r)'
  BY <1>1, <1>2 DEF Runner, Working, Progress, Unsent, Marked, Idle
<1>10. Runners'
  BY <1>1, <1>2, <1>9, RunnersTurn
<1>11. Truths'
  BY <1>1, <1>2, <1>3, <1>5, <1>9, TruthsTurn
<1>12. FailedWasNotSent'
  BY <1>1, <1>2, <1>5, FailedTurn
<1> QED BY <1>6, <1>8, <1>10, <1>11, <1>12 DEF PayoutInv

\* A step of a run that leaves Stripe and the ledger's rows alone, and fails no
\* item that was transferred.
LEMMA RunStep ==
  ASSUME PayoutInv, NEW r \in Runs, SamePlans,
         UNCHANGED <<time, matured, debited, held, rows, stripe>>,
         LedgerTypes', ClaimTypes', run' \in [Runs -> RunType], Others(r),
         cell' \in {"free", "busy", "failed", "done"},
         cell' = cell \/ Working(r),
         faults' \subseteq faults, lost' \in BOOLEAN, lost => lost',
         Runner(r)', Working(r)' => Working(r), Progress(r)',
         \A n \in DOMAIN items :
           /\ items'[n].status = "transferred" =>
                items[n].status = "transferred" \/ Paid(n)
           /\ items'[n].status = "failed" =>
                \/ items[n].status = "failed"
                \/ n = run[r].item /\ run[r].pc \in Unsent,
         \A h \in DOMAIN claims' : claims'[h].by # 0 =>
           \/ h \in DOMAIN claims /\ claims'[h].by = claims[h].by
           \/ /\ items[claims'[h].by].hash = h
              /\ claims'[h].by \in DOMAIN items /\ Paid(claims'[h].by)
  PROVE  PayoutInv'
<1>1. sent' = sent /\ keys' = keys
  BY DEF stripe
<1>2. TypeOK' /\ Shaped'
  BY <1>1, TypesStay, UnchangedTypes
<1>3. Runners'
  BY RunnersTurn
<1>4. Truths'
  BY <1>1, TruthsTurn
<1>5. DebitsWereSent'
  BY <1>1, DebitsStay
<1>6. FailedWasNotSent'
  BY <1>1, FailedTurn
<1> QED BY <1>2, <1>3, <1>4, <1>5, <1>6 DEF PayoutInv

\* What a claim that stays says is no news.
LEMMA ClaimsStay ==
  claims' = claims =>
    \A h \in DOMAIN claims' : claims'[h].by # 0 =>
      h \in DOMAIN claims /\ claims'[h].by = claims[h].by
  OBVIOUS

\* A run ends and leaves everything else.
LEMMA EndStep ==
  ASSUME PayoutInv, NEW r \in Runs, Ends(r),
         UNCHANGED <<time, ledger, items, stripe, claims>>,
         cell' \in {"free", "busy", "failed", "done"},
         cell' = cell \/ Working(r),
         faults' \subseteq faults, lost' \in BOOLEAN, lost => lost'
  PROVE  PayoutInv'
<1>1. SamePlans
  BY Types, ItemsStay
<1>2. run' \in [Runs -> RunType] /\ run'[r] = Idle /\ Others(r)
  BY Types, RunEnds DEF Others
<1>3. Runner(r)' /\ ~Working(r)' /\ Progress(r)'
  BY <1>2, IdleFits
<1>4. LedgerTypes' /\ ClaimTypes'
  BY <1>1, UnchangedTypes
<1> QED BY <1>1, <1>2, <1>3, <1>4, ClaimsStay, RunStep DEF ledger


\* The entries' sum, and what it leaves payable.
LEMMA SumIsSum == Sum(rows) = SumOver(rows, DOMAIN rows)
  BY Zenon DEF Sum, SumOver

LEMMA PayableTypes ==
  ASSUME PayoutInv, NEW asOf \in SUBSET Credits
  PROVE  /\ IsFiniteSet(DOMAIN rows) /\ Sum(rows) \in Nat
         /\ Payable(asOf) \in Int
         /\ Payable(asOf) + Sum(rows) <= Cardinality(asOf)
         /\ Cardinality(asOf) <= Cardinality(Credits)
         /\ Cardinality(asOf) \in Nat /\ Cardinality(Credits) \in Nat
<1>1. IsFiniteSet(SUBSET Credits)
  BY PayoutAssumptions, FS_SUBSET
<1>2. RowTypes /\ debited \subseteq Credits /\ held \subseteq Credits
  BY Types DEF LedgerTypes
<1>3. DOMAIN rows \subseteq SUBSET Credits
  BY <1>2 DEF RowTypes, Hash
<1>4. IsFiniteSet(DOMAIN rows)
  BY <1>1, <1>3, FS_Subset
<1>5. \A h \in DOMAIN rows : rows[h] \in Nat
  BY <1>2 DEF RowTypes, Cents
<1>6. Sum(rows) \in Nat
  BY <1>4, <1>5, SumNat, SumIsSum
<1>7. /\ Cardinality(asOf) \in Nat /\ Cardinality(debited) \in Nat
      /\ Cardinality(held) \in Nat /\ Cardinality(Credits) \in Nat
      /\ Cardinality(asOf) <= Cardinality(Credits)
  BY <1>2, PayoutAssumptions, FS_Subset, FS_CardinalityType
<1> HIDE DEF Sum
<1> QED BY <1>4, <1>6, <1>7 DEF Payable

LEMMA PlanStep == ASSUME PayoutInv, NEW r \in Runs, Plan(r) PROVE PayoutInv'
<1>1. /\ UNCHANGED <<time, ledger, items, stripe, claims, cell, faults, lost>>
      /\ run[r].pc = "plan" /\ run \in [Runs -> RunType]
  BY Types DEF Plan
<1>2. CASE Ends(r)
  BY <1>1, <1>2, Types, EndStep
<1>3. CASE ~Ends(r)
  <2>1. /\ ~(Payable(run[r].asOf) <= 0)
        /\ run' = [run EXCEPT ![r].pc = "feed",
                              ![r].amount = Payable(run[r].asOf)]
    BY <1>3 DEF Plan
  <2>2. run[r] \in RunType /\ run[r].asOf \in SUBSET Credits
    BY <1>1 DEF RunType
  <2>3. Payable(run[r].asOf) \in Cents \ {0}
    <3>1. /\ Payable(run[r].asOf) \in Int /\ Sum(rows) \in Nat
          /\ Payable(run[r].asOf) + Sum(rows) <= Cardinality(run[r].asOf)
          /\ Cardinality(run[r].asOf) <= Cardinality(Credits)
          /\ Cardinality(run[r].asOf) \in Nat /\ Cardinality(Credits) \in Nat
      BY <2>2, PayableTypes
    <3> QED BY <2>1, <3>1 DEF Cents
  <2> DEFINE h == [run[r] EXCEPT !.pc = "feed",
                                 !.amount = Payable(run[r].asOf)]
  <2>4. /\ h \in RunType /\ h.pc = "feed" /\ h.asOf = run[r].asOf
        /\ h.plan = run[r].plan /\ h.item = run[r].item /\ h.amount # 0
    BY <2>2, <2>3 DEF RunType
  <2>5. run' = [run EXCEPT ![r] = h]
    BY <2>1
  <2> HIDE DEF h
  <2>6. run' \in [Runs -> RunType] /\ run'[r] = h /\ Others(r)
    BY <2>4, <2>5, RunTurns DEF Others
  <2>7. SamePlans
    BY <1>1, Types, ItemsStay
  <2>8. Runner(r)' /\ ~Working(r)' /\ Progress(r)'
    <3>1. matured' = matured /\ run[r].item = 0
      BY <1>1 DEF ledger, PayoutInv, Runners, Runner
    <3> QED BY <2>4, <2>6, <3>1
            DEF PayoutInv, Runners, Runner, Working, Progress, Unsent, Marked
  <2>9. LedgerTypes' /\ ClaimTypes'
    BY <1>1, <2>7, UnchangedTypes
  <2> QED BY <1>1, <2>6, <2>7, <2>8, <2>9, Types, ClaimsStay, RunStep DEF ledger
<1> QED BY <1>2, <1>3

LEMMA FeedStep == ASSUME PayoutInv, NEW r \in Runs, Feed(r) PROVE PayoutInv'
<1>1. /\ UNCHANGED <<time, ledger, items, stripe, claims, cell, faults, lost>>
      /\ run[r].pc = "feed" /\ run \in [Runs -> RunType]
  BY Types DEF Feed
<1>2. CASE Ends(r)
  BY <1>1, <1>2, Types, EndStep
<1>3. CASE ~Ends(r)
  <2>1. /\ Consumable(run[r].asOf) # {}
        /\ run' = [run EXCEPT ![r].pc = "claim",
                              ![r].plan = Consumable(run[r].asOf)]
    BY <1>3 DEF Feed
  <2> DEFINE h == [run[r] EXCEPT !.pc = "claim",
                                 !.plan = Consumable(run[r].asOf)]
  <2>2. /\ h \in RunType /\ h.pc = "claim" /\ h.asOf = run[r].asOf
        /\ h.plan # {} /\ h.plan \subseteq h.asOf
        /\ h.item = run[r].item /\ h.amount = run[r].amount
    BY <1>1, <2>1 DEF RunType, Consumable
  <2>3. run' = [run EXCEPT ![r] = h]
    BY <2>1
  <2> HIDE DEF h
  <2>4. run' \in [Runs -> RunType] /\ run'[r] = h /\ Others(r)
    BY <2>2, <2>3, RunTurns DEF Others
  <2>5. SamePlans
    BY <1>1, Types, ItemsStay
  <2>6. Runner(r)' /\ ~Working(r)' /\ Progress(r)'
    <3>1. matured' = matured /\ run[r].item = 0 /\ run[r].amount # 0
      BY <1>1 DEF ledger, PayoutInv, Runners, Runner
    <3> QED BY <2>2, <2>4, <3>1
            DEF PayoutInv, Runners, Runner, Working, Progress, Unsent, Marked
  <2>7. LedgerTypes' /\ ClaimTypes'
    BY <1>1, <2>5, UnchangedTypes
  <2> QED BY <1>1, <2>4, <2>5, <2>6, <2>7, Types, ClaimsStay, RunStep DEF ledger
<1> QED BY <1>2, <1>3

\* The new item and the run that works on it.
LEMMA ClaimCellEffect ==
  ASSUME PayoutInv, NEW r \in Runs, ClaimCell(r), ~Ends(r)
  PROVE  /\ cell = "free" /\ cell' = "busy" /\ Len(items) < MaxItems
         /\ items' \in Seq(ItemType) /\ Len(items') = Len(items) + 1
         /\ DOMAIN items' = DOMAIN items \union {Len(items) + 1}
         /\ Len(items) + 1 \notin DOMAIN items
         /\ \A n \in DOMAIN items : items'[n] = items[n]
         /\ items'[Len(items) + 1] =
              [hash |-> run[r].plan, amount |-> run[r].amount,
               status |-> "pending"]
         /\ run[r].plan \in Hash /\ run[r].plan \subseteq matured
         /\ run[r].amount \in Cents \ {0}
         /\ run' \in [Runs -> RunType] /\ Others(r)
         /\ run'[r] = [Idle EXCEPT !.pc = "begin", !.item = Len(items) + 1]
<1>1. /\ CellOpen /\ Len(items) < MaxItems /\ cell' = "busy"
      /\ items' = Append(items,
           [hash |-> run[r].plan, amount |-> run[r].amount,
            status |-> "pending"])
      /\ run' = [run EXCEPT ![r] =
           [Idle EXCEPT !.pc = "begin", !.item = Len(items) + 1]]
      /\ run[r].pc = "claim"
  BY DEF ClaimCell
<1>2. /\ run[r] \in RunType /\ Runner(r) /\ Shaped /\ matured \subseteq Credits
      /\ Len(items) \in Nat
  BY Types, ItemTypes DEF PayoutInv, Runners, LedgerTypes
<1>3. /\ run[r].plan \in Hash /\ run[r].plan \subseteq matured
      /\ run[r].amount \in Cents \ {0}
  BY <1>1, <1>2 DEF RunType, Runner, Hash
<1> DEFINE it == [hash |-> run[r].plan, amount |-> run[r].amount,
                  status |-> "pending"]
<1>4. it \in ItemType
  BY <1>3 DEF ItemType
<1>5. /\ items' \in Seq(ItemType) /\ Len(items') = Len(items) + 1
      /\ DOMAIN items' = DOMAIN items \union {Len(items) + 1}
      /\ Len(items) + 1 \notin DOMAIN items
      /\ \A n \in DOMAIN items : items'[n] = items[n]
      /\ items'[Len(items) + 1] = it
  <2>1. items' = Append(items, it)
    BY <1>1
  <2> HIDE DEF it
  <2> QED BY <1>2, <1>4, <2>1, ItemsGrow
<1>6. [Idle EXCEPT !.pc = "begin", !.item = Len(items) + 1] \in RunType
  <2>1. Len(items) + 1 \in 0..MaxItems
    BY <1>1, <1>2, PayoutAssumptions
  <2> QED BY <2>1, IdleType DEF RunType
<1>7. /\ run' \in [Runs -> RunType] /\ Others(r)
      /\ run'[r] = [Idle EXCEPT !.pc = "begin", !.item = Len(items) + 1]
  <2> DEFINE h == [Idle EXCEPT !.pc = "begin", !.item = Len(items) + 1]
  <2>1. run' = [run EXCEPT ![r] = h] /\ h \in RunType
    BY <1>1, <1>6
  <2> HIDE DEF h
  <2>2. run' \in [Runs -> RunType] /\ run'[r] = h /\ Others(r)
    BY <2>1, RunTurns DEF Others
  <2> QED BY <2>2 DEF h
<1> QED BY <1>1, <1>3, <1>5, <1>7 DEF CellOpen

LEMMA ClaimCellStep ==
  ASSUME PayoutInv, NEW r \in Runs, ClaimCell(r) PROVE PayoutInv'
<1>1. CASE Ends(r)
  <2>2. run[r].pc = "claim" /\ run \in [Runs -> RunType]
    BY Types DEF ClaimCell
  <2>3. run'[r] = Idle
    BY <1>1, <2>2, RunEnds
  <2>4. UNCHANGED <<cell, items>>
    <3>1. ASSUME run' = [run EXCEPT ![r] =
                   [Idle EXCEPT !.pc = "begin", !.item = Len(items) + 1]]
          PROVE  FALSE
      <4>1. run'[r] = [Idle EXCEPT !.pc = "begin", !.item = Len(items) + 1]
        BY <2>2, <3>1
      <4>2. run'[r].pc = "begin"
        BY <4>1 DEF Idle
      <4> QED BY <2>3, <4>2 DEF Idle
    <3> QED BY <3>1 DEF ClaimCell
  <2> QED BY <1>1, <2>4, Types, EndStep DEF ClaimCell
<1>2. CASE ~Ends(r)
  <2> DEFINE n0 == Len(items) + 1
  <2>1. /\ cell = "free" /\ cell' = "busy" /\ Len(items) < MaxItems
        /\ items' \in Seq(ItemType) /\ Len(items') = Len(items) + 1
        /\ DOMAIN items' = DOMAIN items \union {n0}
        /\ n0 \notin DOMAIN items
        /\ \A n \in DOMAIN items : items'[n] = items[n]
        /\ items'[n0] = [hash |-> run[r].plan, amount |-> run[r].amount,
                         status |-> "pending"]
        /\ run[r].plan \in Hash /\ run[r].plan \subseteq matured
        /\ run[r].amount \in Cents \ {0}
        /\ run' \in [Runs -> RunType] /\ Others(r)
        /\ run'[r] = [Idle EXCEPT !.pc = "begin", !.item = n0]
    BY <1>2, ClaimCellEffect
  <2>2. UNCHANGED <<time, ledger, stripe, claims, faults, lost>>
    BY DEF ClaimCell
  <2>3. \A q \in Runs : ~Working(q)
    BY <2>1 DEF PayoutInv, Runners, Runner
  <2> HIDE DEF n0
  <2>4. \A t \in sent : t.item \in DOMAIN items
    BY Types
  <2>5. TypeOK' /\ Shaped'
    <3>1. Shaped'
      BY <2>1, <2>2, Types DEF Shaped, stripe
    <3>2. Len(items') <= MaxItems
      BY <2>1, Types, ItemTypes, PayoutAssumptions
    <3>3. ClaimTypes'
      <4>1. \A h \in DOMAIN claims :
              claims[h] \in [by : {0} \union DOMAIN items', day : 0..MaxDay]
        BY <2>1, Types DEF ClaimTypes
      <4> QED BY <2>2, <4>1, Types DEF ClaimTypes
    <3>4. sent' \subseteq [item : DOMAIN items', amount : Cents \ {0}]
      BY <2>1, <2>2, Types DEF stripe
    <3>5. cell' \in {"free", "busy", "failed", "done"}
      BY <2>1
    <3>6. /\ day' \in 0..MaxDay /\ swept' \in BOOLEAN /\ LedgerTypes' /\ RowTypes'
          /\ keys' \subseteq Hash /\ lost' \in BOOLEAN
      BY <2>2, UnchangedTypes DEF stripe
    <3>7. faults' \in SUBSET FaultKinds
      BY <2>2, Types
    <3> QED BY <2>1, <3>1, <3>2, <3>3, <3>4, <3>5, <3>6, <3>7, TypePartsNext
  <2>6. Runners'
    <3>1. ASSUME NEW q \in Runs, q # r
          PROVE  Runner(q)' /\ ~Working(q)'
      <4>1. run'[q] = run[q] /\ Runner(q) /\ ~Working(q) /\ matured' = matured
        BY <2>1, <2>2, <2>3, <3>1 DEF Others, PayoutInv, Runners, ledger
      <4> QED BY <4>1 DEF Runner, Working
    <3>2. Runner(r)'
      BY <2>1 DEF Runner, Idle
    <3>3. \A n \in DOMAIN items' : items'[n].hash \subseteq matured'
      BY <2>1, <2>2 DEF ledger, PayoutInv, Runners
    <3> QED BY <3>1, <3>2, <3>3 DEF Runners
  <2>7. Truths'
    <3>1. \A n \in DOMAIN items : Paid(n) => Paid(n)'
      BY <2>1, <2>2 DEF Paid, stripe
    <3>2. \A t \in sent' : t.amount = items'[t.item].amount
      BY <2>1, <2>2, <2>4 DEF stripe, PayoutInv, Truths
    <3>3. \A n \in DOMAIN items' : items'[n].status = "transferred" => Paid(n)'
      BY <2>1, <3>1 DEF PayoutInv, Truths
    <3>4. ASSUME NEW h \in DOMAIN claims', NEW n, n = claims'[h].by, n # 0
          PROVE  items'[n].hash = h /\ Paid(n)'
      <4>1. n \in DOMAIN items /\ items[n].hash = h /\ Paid(n)
        BY <2>2, <3>4, Types DEF PayoutInv, Truths, ClaimTypes
      <4> QED BY <2>1, <3>1, <4>1
    <3>5. ASSUME NEW q \in Runs PROVE Progress(q)'
      <4>1. CASE q = r
        <5>1. run'[r].pc = "begin" /\ run'[r].item = n0
          BY <2>1 DEF Idle
        <5>2. items'[n0].status # "failed" /\ \A t \in sent' : t.item # n0
          BY <2>1, <2>2, <2>4 DEF stripe
        <5> QED BY <4>1, <5>1, <5>2 DEF Progress, Unsent
      <4>2. CASE q # r
        <5>1. run'[q] = run[q] /\ ~Working(q)
          BY <2>1, <2>3, <4>2 DEF Others
        <5> QED BY <5>1 DEF Progress, Working
      <4> QED BY <4>1, <4>2
    <3> QED BY <3>2, <3>3, <3>4, <3>5 DEF Truths
  <2>8. DebitsWereSent'
    BY <2>1, <2>2, <2>4 DEF DebitsWereSent, PayoutInv, ledger, stripe
  <2>9. FailedWasNotSent'
    BY <2>1, <2>2, <2>4 DEF FailedWasNotSent, PayoutInv, stripe
  <2> QED BY <2>5, <2>6, <2>7, <2>8, <2>9 DEF PayoutInv
<1> QED BY <1>1, <1>2

\* How a run that goes on fits: at work, on the same item.
LEMMA GoesFits ==
  ASSUME PayoutInv, NEW r \in Runs, Working(r), SamePlans,
         NEW pc \in Unsent \union {"sent", "repair", "mark"} \union Marked,
         Goes(r, pc), matured' = matured, cell' = cell
  PROVE  /\ run' \in [Runs -> RunType] /\ Others(r)
         /\ run'[r].pc = pc /\ run'[r].item = run[r].item
         /\ run'[r].plan = run[r].plan /\ run'[r].amount = run[r].amount
         /\ Runner(r)' /\ Working(r)'
<1>1. /\ run' \in [Runs -> RunType]
      /\ run'[r].pc = pc /\ run'[r].asOf = run[r].asOf
      /\ run'[r].amount = run[r].amount /\ run'[r].plan = run[r].plan
      /\ run'[r].item = run[r].item /\ Others(r)
  BY Types, RunGoes DEF Unsent, Marked, Others
<1> QED BY <1>1
        DEF PayoutInv, Runners, Runner, Working, Unsent, Marked, SamePlans

LEMMA BeginStep == ASSUME PayoutInv, NEW r \in Runs, Begin(r) PROVE PayoutInv'
<1>1. /\ UNCHANGED <<time, ledger, stripe, lost, faults>> /\ run[r].pc = "begin"
      /\ Working(r) /\ run[r].pc \in Unsent
  BY DEF Begin, Working, Unsent
<1>2. CASE /\ claims' = With(Mine(r).hash, 0)
           /\ Goes(r, "check") /\ UNCHANGED <<items, cell>>
  <2>1. SamePlans
    BY <1>2, Types, ItemsStay
  <2>2. /\ ClaimTypes'
        /\ DOMAIN claims' = DOMAIN claims \union {Mine(r).hash}
        /\ claims'[Mine(r).hash].by = 0
        /\ \A k \in DOMAIN claims \ {Mine(r).hash} : claims'[k] = claims[k]
    BY <1>1, <1>2, <2>1, ClaimsEffect
  <2>3. /\ run' \in [Runs -> RunType] /\ Others(r) /\ run'[r].pc = "check"
        /\ run'[r].item = run[r].item /\ Runner(r)' /\ Working(r)'
    BY <1>1, <1>2, <2>1, GoesFits DEF ledger, Unsent
  <2>4. Progress(r)'
    BY <1>1, <1>2, <2>3 DEF PayoutInv, Truths, Progress, Unsent, stripe
  <2>5. LedgerTypes'
    BY <1>1, UnchangedTypes
  <2> QED
    BY <1>1, <1>2, <2>1, <2>2, <2>3, <2>4, <2>5, Types, RunStep DEF ledger
<1>3. CASE /\ ~Claimable(Mine(r).hash) /\ LosesClaim(r)
           /\ cell' = "failed" /\ Ends(r)
  <2>1. /\ SamePlans /\ claims' = claims
        /\ \A n \in DOMAIN items :
             items'[n].status =
                  IF n = run[r].item THEN "failed"
                  ELSE IF n \in Probed(r) THEN "transferred"
                  ELSE items[n].status
        /\ \A n \in Probed(r) : Paid(n)
        /\ run' \in [Runs -> RunType] /\ run'[r] = Idle /\ Others(r)
    BY <1>1, <1>3, LosesEffect
  <2>2. Runner(r)' /\ ~Working(r)' /\ Progress(r)'
    BY <2>1, IdleFits
  <2>3. LedgerTypes' /\ ClaimTypes'
    BY <1>1, <2>1, UnchangedTypes
  <2>4. \A h \in DOMAIN claims' : claims'[h].by # 0 =>
          h \in DOMAIN claims /\ claims'[h].by = claims[h].by
    BY <2>1
  <2>5. \A n \in DOMAIN items :
          /\ items'[n].status = "transferred" =>
               items[n].status = "transferred" \/ Paid(n)
          /\ items'[n].status = "failed" =>
               \/ items[n].status = "failed"
               \/ n = run[r].item /\ run[r].pc \in Unsent
    BY <1>1, <2>1
  <2> QED
    BY <1>1, <1>3, <2>1, <2>2, <2>3, <2>4, <2>5, Types, RunStep DEF ledger
<1> QED BY <1>2, <1>3 DEF Begin

\* An item fails before anything was sent for it.
LEMMA FailsStep ==
  ASSUME PayoutInv, NEW r \in Runs, Fails(r), run[r].pc \in {"check", "send"},
         UNCHANGED <<time, ledger, stripe>>,
         faults' \subseteq faults, lost' \in BOOLEAN, lost => lost'
  PROVE  PayoutInv'
<1>1. Working(r) /\ run[r].pc \in Unsent
  BY DEF Working, Unsent
<1>2. /\ SamePlans
      /\ \A n \in DOMAIN items :
           items'[n].status = IF n = run[r].item THEN "failed"
                                 ELSE items[n].status
      /\ ClaimTypes'
      /\ DOMAIN claims' = DOMAIN claims \union {Mine(r).hash}
      /\ claims'[Mine(r).hash].by = 0
      /\ \A k \in DOMAIN claims \ {Mine(r).hash} : claims'[k] = claims[k]
      /\ cell' = "failed"
      /\ run' \in [Runs -> RunType] /\ run'[r] = Idle /\ Others(r)
  BY <1>1, FailsEffect
<1>3. Runner(r)' /\ ~Working(r)' /\ Progress(r)'
  BY <1>2, IdleFits
<1>4. LedgerTypes'
  BY UnchangedTypes
<1> QED BY <1>1, <1>2, <1>3, <1>4, Types, RunStep DEF ledger

LEMMA CheckStep ==
  ASSUME PayoutInv, NEW r \in Runs, Check(r) \/ SendRefused(r) PROVE PayoutInv'
<1>1. CASE SendRefused(r) \/ (Check(r) /\ Fails(r))
  BY <1>1, Types, FailsStep DEF Check, SendRefused
<1>2. CASE Check(r) /\ ~Fails(r)
  <2>1. /\ UNCHANGED <<time, ledger, stripe, lost, faults, items, claims, cell>>
        /\ run[r].pc = "check" /\ Working(r) /\ Goes(r, "send")
    BY <1>2 DEF Check, Working, Unsent
  <2>2. SamePlans
    BY <2>1, Types, ItemsStay
  <2>3. /\ run' \in [Runs -> RunType] /\ Others(r) /\ run'[r].pc = "send"
        /\ run'[r].item = run[r].item /\ Runner(r)' /\ Working(r)'
    BY <2>1, <2>2, GoesFits DEF ledger, Unsent
  <2>4. Progress(r)'
    BY <2>1, <2>3 DEF PayoutInv, Truths, Progress, Unsent, stripe
  <2>5. LedgerTypes' /\ ClaimTypes'
    BY <2>1, <2>2, UnchangedTypes
  <2> QED BY <2>1, <2>2, <2>3, <2>4, <2>5, Types, ClaimsStay, RunStep DEF ledger
<1> QED BY <1>1, <1>2

\* Stripe accepts the transfer of a run's item, by whatever way the run goes on.
LEMMA MovesStep ==
  ASSUME PayoutInv, NEW r \in Runs, Working(r), run[r].pc = "send", Moves(r),
         SamePlans, UNCHANGED <<time, ledger>>,
         ClaimTypes', run' \in [Runs -> RunType], Others(r),
         cell' \in {"free", "busy", "failed", "done"},
         faults' \subseteq faults, lost' \in BOOLEAN,
         Runner(r)',
         Working(r)' => run'[r].pc = "sent" /\ run'[r].item = run[r].item,
         \A n \in DOMAIN items : items'[n].status = "transferred" =>
                                  items[n].status = "transferred",
         \A h \in DOMAIN claims' : claims'[h].by # 0 =>
           h \in DOMAIN claims /\ claims'[h].by = claims[h].by,
         FailedWasNotSent'
  PROVE  PayoutInv'
<1> DEFINE new == [item |-> run[r].item, amount |-> Mine(r).amount]
<1>1. /\ sent' = sent \union {new} /\ keys' = keys \union {Mine(r).hash}
      /\ new.item = run[r].item /\ new.amount = Mine(r).amount
      /\ run[r].item \in DOMAIN items /\ Mine(r).hash \in Hash
      /\ new \in [item : DOMAIN items, amount : Cents \ {0}]
      /\ \A q \in Runs \ {r} : ~Working(q)
  BY MineTypes DEF Moves
<1> HIDE DEF new
<1>2. Shaped'
  <2>1. IsFiniteSet(sent')
    BY <1>1, Types, FS_AddElement DEF Shaped
  <2> QED BY <2>1 DEF Shaped, SamePlans
<1>3. TypeOK'
  <2>1. faults' \in SUBSET FaultKinds
    BY Types
  <2>2. /\ LedgerTypes' /\ RowTypes' /\ day' \in 0..MaxDay /\ swept' \in BOOLEAN
    BY UnchangedTypes
  <2>3. /\ sent' \subseteq [item : DOMAIN items', amount : Cents \ {0}]
        /\ keys' \subseteq Hash /\ Len(items') <= MaxItems
    BY <1>1, Types DEF SamePlans
  <2> QED BY <1>2, <2>1, <2>2, <2>3, TypePartsNext
<1>4. \A n \in DOMAIN items : Paid(n) => Paid(n)'
  BY <1>1 DEF Paid, SamePlans
<1>5. /\ Working(r)' => Paid(run[r].item)'
      /\ new.amount = items'[new.item].amount
  <2>1. new = [item |-> run[r].item, amount |-> items'[run[r].item].amount]
    BY <1>1 DEF SamePlans, Mine, new
  <2> QED BY <1>1, <2>1 DEF Paid
<1>6. Runners'
  <2>1. ASSUME NEW q \in Runs, q # r PROVE Runner(q)' /\ ~Working(q)'
    <3>1. run'[q] = run[q] /\ Runner(q) /\ ~Working(q) /\ matured' = matured
      BY <1>1, <2>1 DEF Others, PayoutInv, Runners, ledger
    <3> QED BY <3>1 DEF Runner, Working
  <2>2. \A n \in DOMAIN items' : items'[n].hash \subseteq matured'
    BY DEF PayoutInv, Runners, SamePlans, ledger
  <2> QED BY <2>1, <2>2 DEF Runners
<1>7. Truths'
  <2>1. \A t \in sent' : t.amount = items'[t.item].amount
    <3>1. \A t \in sent : t.item \in DOMAIN items /\ t.amount = items[t.item].amount
      BY Types DEF PayoutInv, Truths
    <3> QED BY <1>1, <1>5, <3>1 DEF SamePlans
  <2>2. \A n \in DOMAIN items' : items'[n].status = "transferred" => Paid(n)'
    BY <1>4 DEF PayoutInv, Truths, SamePlans
  <2>3. ASSUME NEW h \in DOMAIN claims', NEW n, n = claims'[h].by, n # 0
        PROVE  items'[n].hash = h /\ Paid(n)'
    <3>1. n \in DOMAIN items /\ items[n].hash = h /\ Paid(n)
      BY <2>3, Types DEF PayoutInv, Truths, ClaimTypes
    <3> QED BY <1>4, <3>1 DEF SamePlans
  <2>4. ASSUME NEW q \in Runs PROVE Progress(q)'
    <3>1. CASE q = r
      BY <1>5, <3>1 DEF Progress, Unsent, Working
    <3>2. CASE q # r
      <4>1. run'[q] = run[q] /\ ~Working(q)
        BY <1>1, <3>2 DEF Others
      <4> QED BY <4>1 DEF Progress, Working
    <3> QED BY <3>1, <3>2
  <2> QED BY <2>1, <2>2, <2>3, <2>4 DEF Truths
<1>8. DebitsWereSent'
  BY <1>1, DebitsStay DEF ledger
<1> QED BY <1>2, <1>3, <1>6, <1>7, <1>8 DEF PayoutInv

LEMMA SendStep == ASSUME PayoutInv, NEW r \in Runs, Send(r) PROVE PayoutInv'
<1>1. /\ UNCHANGED <<time, ledger, items, claims, cell, faults, lost>>
      /\ run[r].pc = "send" /\ Working(r) /\ Goes(r, "sent") /\ Moves(r)
  BY DEF Send, Working, Unsent
<1>2. SamePlans
  BY <1>1, Types, ItemsStay
<1>3. /\ run' \in [Runs -> RunType] /\ Others(r) /\ run'[r].pc = "sent"
      /\ run'[r].item = run[r].item /\ Runner(r)' /\ Working(r)'
  BY <1>1, <1>2, GoesFits DEF ledger
<1>4. ClaimTypes'
  BY <1>1, <1>2, UnchangedTypes
<1>5. FailedWasNotSent'
  <2>1. items[run[r].item].status # "failed"
    BY <1>1 DEF PayoutInv, Truths, Progress, Unsent
  <2>2. \A t \in sent' : t \in sent \/ t.item = run[r].item
    BY <1>1 DEF Moves
  <2> QED BY <1>1, <2>1, <2>2 DEF PayoutInv, FailedWasNotSent
<1> QED
  BY <1>1, <1>2, <1>3, <1>4, <1>5, Types, ClaimsStay, MovesStep

LEMMA SendUnansweredStep ==
  ASSUME PayoutInv, NEW r \in Runs, SendUnanswered(r) PROVE PayoutInv'
<1>1. /\ UNCHANGED <<time, ledger>> /\ lost' = TRUE /\ faults' \subseteq faults
      /\ run[r].pc = "send" /\ Working(r) /\ Fails(r) /\ Moves(r)
  BY DEF SendUnanswered, Working, Unsent, Strikes
<1>2. /\ SamePlans
      /\ \A n \in DOMAIN items :
           items'[n].status = IF n = run[r].item THEN "failed"
                                 ELSE items[n].status
      /\ ClaimTypes'
      /\ DOMAIN claims' = DOMAIN claims \union {Mine(r).hash}
      /\ claims'[Mine(r).hash].by = 0
      /\ \A k \in DOMAIN claims \ {Mine(r).hash} : claims'[k] = claims[k]
      /\ cell' = "failed"
      /\ run' \in [Runs -> RunType] /\ run'[r] = Idle /\ Others(r)
  BY <1>1, FailsEffect
<1>3. Runner(r)' /\ ~Working(r)'
  BY <1>2, IdleFits
<1>4. FailedWasNotSent'
  BY <1>1 DEF FailedWasNotSent
<1>5. \A h \in DOMAIN claims' : claims'[h].by # 0 =>
        h \in DOMAIN claims /\ claims'[h].by = claims[h].by
  BY <1>2
<1>6. \A n \in DOMAIN items : items'[n].status = "transferred" =>
                               items[n].status = "transferred"
  BY <1>2
<1> QED BY <1>1, <1>2, <1>3, <1>4, <1>5, <1>6, MovesStep

\* What a commit of the item's own claim says is true.
LEMMA CommitSays ==
  ASSUME PayoutInv, NEW r \in Runs, Working(r), run[r].pc \notin Unsent,
         SamePlans, claims' = With(Mine(r).hash, run[r].item)
  PROVE  /\ ClaimTypes'
         /\ \A h \in DOMAIN claims' : claims'[h].by # 0 =>
              \/ h \in DOMAIN claims /\ claims'[h].by = claims[h].by
              \/ /\ items[claims'[h].by].hash = h
                 /\ claims'[h].by \in DOMAIN items /\ Paid(claims'[h].by)
<1>1. /\ ClaimTypes'
      /\ DOMAIN claims' = DOMAIN claims \union {Mine(r).hash}
      /\ claims'[Mine(r).hash].by = run[r].item
      /\ \A k \in DOMAIN claims \ {Mine(r).hash} : claims'[k] = claims[k]
  BY ClaimsEffect
<1>2. Paid(run[r].item) /\ run[r].item \in DOMAIN items
  BY MineTypes DEF PayoutInv, Truths, Progress
<1> QED BY <1>1, <1>2 DEF Mine

LEMMA CommitStep == ASSUME PayoutInv, NEW r \in Runs, Commit(r) PROVE PayoutInv'
<1>1. /\ UNCHANGED <<time, ledger, items, stripe, cell, lost>>
      /\ run[r].pc = "sent" /\ Working(r) /\ run[r].pc \notin Unsent
      /\ SamePlans /\ faults' \subseteq faults
  BY Types, ItemsStay DEF Commit, Working, Unsent, Strikes
<1>2. PICK pc \in {"mark", "repair"} : Goes(r, pc)
  BY DEF Commit
<1>3. /\ run' \in [Runs -> RunType] /\ Others(r) /\ run'[r].pc = pc
      /\ run'[r].item = run[r].item /\ Runner(r)' /\ Working(r)'
  BY <1>1, <1>2, GoesFits DEF ledger
<1>4. Progress(r)'
  BY <1>1, <1>3 DEF PayoutInv, Truths, Progress, Unsent, Paid, stripe
<1>5. /\ ClaimTypes'
      /\ \A h \in DOMAIN claims' : claims'[h].by # 0 =>
           \/ h \in DOMAIN claims /\ claims'[h].by = claims[h].by
           \/ /\ items[claims'[h].by].hash = h
              /\ claims'[h].by \in DOMAIN items /\ Paid(claims'[h].by)
  <2>1. CASE claims' = With(Mine(r).hash, run[r].item)
    BY <1>1, <2>1, CommitSays
  <2>2. CASE claims' = claims
    BY <1>1, <2>2, UnchangedTypes
  <2> QED BY <2>1, <2>2 DEF Commit
<1>6. LedgerTypes'
  BY <1>1, UnchangedTypes
<1> QED BY <1>1, <1>3, <1>4, <1>5, <1>6, Types, RunStep DEF ledger

LEMMA RepairStep == ASSUME PayoutInv, NEW r \in Runs, Repair(r) PROVE PayoutInv'
<1>1. /\ UNCHANGED <<time, ledger, stripe, faults, lost>>
      /\ run[r].pc = "repair" /\ Working(r) /\ run[r].pc \notin Unsent
      /\ claims' = With(Mine(r).hash, run[r].item)
      /\ items' = Stamped({run[r].item}, "transferred")
      /\ cell' = "done" /\ Ends(r)
  BY DEF Repair, Working, Unsent
<1>2. /\ SamePlans
      /\ \A n \in DOMAIN items :
           items'[n].status = IF n \in {run[r].item} THEN "transferred"
                              ELSE items[n].status
  BY <1>1, Types, StatusSteps
<1>3. run' \in [Runs -> RunType] /\ run'[r] = Idle /\ Others(r)
  BY <1>1, Types, RunEnds DEF Others
<1>4. Runner(r)' /\ ~Working(r)' /\ Progress(r)'
  BY <1>3, IdleFits
<1>5. /\ ClaimTypes'
      /\ \A h \in DOMAIN claims' : claims'[h].by # 0 =>
           \/ h \in DOMAIN claims /\ claims'[h].by = claims[h].by
           \/ /\ items[claims'[h].by].hash = h
              /\ claims'[h].by \in DOMAIN items /\ Paid(claims'[h].by)
  BY <1>1, <1>2, CommitSays
<1>6. LedgerTypes'
  BY <1>1, UnchangedTypes
<1>7. Paid(run[r].item)
  BY <1>1 DEF PayoutInv, Truths, Progress
<1> QED
  BY <1>1, <1>2, <1>3, <1>4, <1>5, <1>6, <1>7, Types, RunStep DEF ledger

LEMMA MarkStep == ASSUME PayoutInv, NEW r \in Runs, Mark(r) PROVE PayoutInv'
<1>1. /\ UNCHANGED <<time, ledger, stripe, claims, lost>>
      /\ run[r].pc = "mark" /\ Working(r) /\ run[r].pc \notin Unsent
      /\ Paid(run[r].item)
  BY DEF Mark, Working, Unsent, PayoutInv, Truths, Progress
<1>2. /\ SamePlans
      /\ \A n \in DOMAIN items :
           \/ items'[n].status = items[n].status
           \/ n = run[r].item /\ items'[n].status = "transferred"
  <2>1. CASE items' = Stamped({run[r].item}, "transferred")
    <3>1. /\ SamePlans
          /\ \A n \in DOMAIN items :
               items'[n].status = IF n \in {run[r].item} THEN "transferred"
                                  ELSE items[n].status
      BY <2>1, Types, StatusSteps
    <3> QED BY <3>1
  <2>2. CASE items' = items
    BY <2>2, Types, ItemsStay
  <2> QED BY <2>1, <2>2 DEF Mark
<1>3. LedgerTypes' /\ ClaimTypes'
  BY <1>1, <1>2, UnchangedTypes
<1>4. CASE Goes(r, "ledger") /\ UNCHANGED <<cell, faults>>
  <2>1. /\ run' \in [Runs -> RunType] /\ Others(r) /\ run'[r].pc = "ledger"
        /\ run'[r].item = run[r].item /\ Runner(r)' /\ Working(r)'
    BY <1>1, <1>2, <1>4, GoesFits DEF ledger, Marked
  <2>2. run[r].item \in DOMAIN items
    BY <1>1, MineTypes
  <2>3. Progress(r)'
    BY <1>1, <1>2, <2>1, <2>2 DEF Progress, Unsent, Paid, stripe, SamePlans
  <2> QED
    BY <1>1, <1>2, <1>3, <1>4, <2>1, <2>3, Types, ClaimsStay, RunStep DEF ledger
<1>5. CASE Strikes("mark") /\ cell' = "done" /\ Ends(r)
  <2>1. run' \in [Runs -> RunType] /\ run'[r] = Idle /\ Others(r)
    BY <1>5, Types, RunEnds DEF Others
  <2>2. Runner(r)' /\ ~Working(r)' /\ Progress(r)'
    BY <2>1, IdleFits
  <2>3. faults' \subseteq faults
    BY <1>5 DEF Strikes
  <2> QED
    BY <1>1, <1>2, <1>3, <1>5, <2>1, <2>2, <2>3, Types, ClaimsStay, RunStep
       DEF ledger
<1> QED BY <1>4, <1>5 DEF Mark

\* What a debit of a run's own item writes.
LEMMA DebitEffect ==
  ASSUME PayoutInv, NEW r \in Runs, Working(r), run[r].pc \notin Unsent,
         rows' = PayoutDebits({run[r].item}), SamePlans, sent' = sent
  PROVE  /\ DOMAIN rows' = DOMAIN rows \union {Mine(r).hash}
         /\ DebitsWereSent' /\ RowTypes'
<1> DEFINE ns == {run[r].item}
<1>1. /\ ns \in SUBSET DOMAIN items /\ Shaped /\ \A n \in ns : Paid(n)
  BY Types, MineTypes DEF PayoutInv, Truths, Progress
<1>2. {items[n].hash : n \in ns} = {Mine(r).hash}
  BY DEF Mine
<1> HIDE DEF ns
<1>3. /\ DOMAIN PayoutDebits(ns) =
           DOMAIN rows \union {items[n].hash : n \in ns}
      /\ \A h \in DOMAIN PayoutDebits(ns) :
           \/ h \in DOMAIN rows /\ PayoutDebits(ns)[h] = rows[h]
           \/ \E n \in ns : /\ items[n].hash = h
                            /\ PayoutDebits(ns)[h] = items[n].amount
  BY <1>1, DebitsNew
<1>4. rows' = PayoutDebits(ns)
  BY DEF ns
<1>5. DebitsWereSent' /\ RowTypes'
  <2>1. \A h \in DOMAIN rows' :
          \/ h \in DOMAIN rows /\ rows'[h] = rows[h]
          \/ \E n \in ns : items[n].hash = h /\ rows'[h] = items[n].amount
    BY ONLY <1>3, <1>4
  <2> QED BY <1>1, <2>1, DebitsGrow
<1> QED BY <1>2, <1>3, <1>4, <1>5

LEMMA DebitStep == ASSUME PayoutInv, NEW r \in Runs, Debit(r) PROVE PayoutInv'
<1>1. /\ UNCHANGED <<time, matured, consumed, debited, held, paidOut, items,
                     stripe, claims, cell, lost>>
      /\ run[r].pc = "ledger" /\ Working(r) /\ run[r].pc \notin Unsent
      /\ SamePlans /\ faults' \subseteq faults
  BY Types, ItemsStay DEF Debit, Working, Unsent, Marked, Strikes
<1>2. PICK pc \in {"consume", "settle"} : Goes(r, pc)
  BY DEF Debit
<1>3. /\ run' \in [Runs -> RunType] /\ Others(r) /\ run'[r].pc = pc
      /\ run'[r].item = run[r].item /\ Runner(r)' /\ Working(r)'
  BY <1>1, <1>2, GoesFits DEF Marked
<1>4. Progress(r)'
  BY <1>1, <1>3 DEF PayoutInv, Truths, Progress, Unsent, Paid, stripe
<1>5. LedgerTypes' /\ ClaimTypes' /\ sent' = sent /\ keys' = keys
  BY <1>1, UnchangedTypes DEF stripe
<1>6. DebitsWereSent' /\ RowTypes'
  <2>1. CASE rows' = PayoutDebits({run[r].item})
    BY <1>1, <1>5, <2>1, DebitEffect
  <2>2. CASE rows' = rows
    BY <1>1, <1>5, <2>2, DebitsStay, UnchangedTypes
  <2> QED BY <2>1, <2>2 DEF Debit
<1>7. TypeOK' /\ Shaped'
  BY <1>1, <1>3, <1>5, <1>6, TypesStay, UnchangedTypes
<1>8. Runners'
  BY <1>1, <1>3, RunnersTurn
<1>9. Truths'
  BY <1>1, <1>3, <1>4, <1>5, ClaimsStay, TruthsTurn
<1>10. FailedWasNotSent'
  BY <1>1, <1>5, FailedTurn
<1> QED BY <1>6, <1>7, <1>8, <1>9, <1>10 DEF PayoutInv

\* The stamps of the credits and of the items.
LEMMA StampStep ==
  ASSUME PayoutInv, NEW r \in Runs, Consume(r) \/ Stamp(r) PROVE PayoutInv'
<1>1. /\ UNCHANGED <<time, matured, debited, held, rows, items, stripe, claims,
                     cell, lost>>
      /\ run[r].pc \in {"consume", "stamp"}
      /\ Working(r) /\ run[r].pc \notin Unsent
      /\ SamePlans /\ faults' \subseteq faults
  BY Types, ItemsStay DEF Consume, Stamp, Working, Unsent, Marked, Strikes
<1>2. PICK pc \in {"stamp", "settle"} : Goes(r, pc)
  BY DEF Consume, Stamp
<1>3. /\ run' \in [Runs -> RunType] /\ Others(r) /\ run'[r].pc = pc
      /\ run'[r].item = run[r].item /\ Runner(r)' /\ Working(r)'
  BY <1>1, <1>2, GoesFits DEF Marked
<1>4. Mine(r).hash \subseteq matured /\ run[r].item \in DOMAIN items
  BY <1>1, MineTypes
<1>5. Progress(r)'
  BY <1>1, <1>3, <1>4 DEF PayoutInv, Truths, Progress, Unsent, Paid, stripe
<1>6. LedgerTypes' /\ ClaimTypes'
  <2>1. Covers({run[r].item}) = Mine(r).hash
    BY DEF Covers, Mine
  <2>2. /\ consumed' \subseteq consumed \union Mine(r).hash
        /\ paidOut' \subseteq paidOut \union Mine(r).hash
    BY <2>1 DEF Consume, Stamp, Consumes, Stamps
  <2> QED BY <1>1, <1>4, <2>2, Types, UnchangedTypes DEF LedgerTypes
<1> QED BY <1>1, <1>3, <1>5, <1>6, Types, ClaimsStay, RunStep

\* The cell is settled, or the process dies.
LEMMA SettleStep ==
  ASSUME PayoutInv, NEW r \in Runs, Settle(r) \/ Crash(r) PROVE PayoutInv'
<1>1. CASE Settle(r)
  BY <1>1, Types, EndStep DEF Settle, Working, Marked
<1>2. CASE Crash(r)
  <2>1. lost' \in BOOLEAN /\ (lost => lost') /\ faults' \subseteq faults
    BY <1>2, Types DEF Crash, Strikes
  <2> QED BY <1>2, <2>1, Types, EndStep DEF Crash
<1> QED BY <1>1, <1>2

\* A step outside the runs: credits, days and claims pass.
LEMMA WorldStep ==
  ASSUME PayoutInv, UNCHANGED <<rows, items, sent, run, lost>>,
         day' \in 0..MaxDay, swept' \in BOOLEAN, LedgerTypes',
         matured \subseteq matured',
         keys' \subseteq keys, faults' \subseteq faults,
         cell' \in {"free", "busy", "failed", "done"},
         cell' = cell \/ Quiet,
         DOMAIN claims' \subseteq DOMAIN claims,
         \A h \in DOMAIN claims' : claims'[h] = claims[h]
  PROVE  PayoutInv'
<1>1. SamePlans /\ Shaped' /\ RowTypes' /\ ClaimTypes'
  BY Types, ItemsStay DEF Shaped, RowTypes, ClaimTypes
<1>2. TypeOK'
  <2>1. /\ run' \in [Runs -> RunType] /\ faults' \in SUBSET FaultKinds
        /\ Len(items') <= MaxItems /\ keys' \subseteq Hash /\ lost' \in BOOLEAN
        /\ sent' \subseteq [item : DOMAIN items', amount : Cents \ {0}]
    BY Types
  <2> QED BY <1>1, <2>1, TypePartsNext
<1>3. ASSUME NEW r \in Runs
      PROVE  Runner(r)' /\ Progress(r)' /\ (Working(r)' <=> Working(r))
  <2>1. Runner(r) /\ Progress(r)
    BY DEF PayoutInv, Runners, Truths
  <2>2. Working(r) => cell' = cell
    BY DEF Quiet, Working, Unsent, Marked
  <2> QED BY <2>1, <2>2 DEF Runner, Progress, Working, Paid
<1>4. Runners'
  BY <1>3 DEF PayoutInv, Runners
<1>5. Truths'
  BY <1>3 DEF PayoutInv, Truths, Paid
<1>6. DebitsWereSent' /\ FailedWasNotSent'
  BY DEF PayoutInv, DebitsWereSent, FailedWasNotSent
<1> QED BY <1>1, <1>2, <1>4, <1>5, <1>6 DEF PayoutInv

LEMMA CreditsStep ==
  ASSUME PayoutInv, NEW c \in Credits,
         Mature(c) \/ RefundOrder(c) \/ Dispute(c) \/ DisputeCloses(c)
  PROVE  PayoutInv'
<1>1. /\ UNCHANGED <<time, consumed, rows, items, stripe, claims, cell, run, lost>>
      /\ matured \subseteq matured' /\ faults' \subseteq faults
  BY DEF Mature, RefundOrder, Dispute, DisputeCloses, Strikes
<1>2. LedgerTypes'
  BY Types
     DEF LedgerTypes, Mature, RefundOrder, Dispute, DisputeCloses
<1>3. day' \in 0..MaxDay /\ swept' \in BOOLEAN
  BY <1>1, UnchangedTypes
<1> QED BY <1>1, <1>2, <1>3, Types, WorldStep DEF stripe

LEMMA TimeStep ==
  ASSUME PayoutInv, \/ Lapse \/ NextDay
                    \/ \E r \in Runs : SweepThrows(r)
  PROVE  PayoutInv'
<1>1. CASE Lapse
  <2>1. DOMAIN claims' \subseteq DOMAIN claims
        /\ \A h \in DOMAIN claims' : claims'[h] = claims[h]
    BY <1>1 DEF Lapse, Kept
  <2>2. /\ UNCHANGED <<time, ledger, items, stripe, run, faults, lost>> /\ Quiet
        /\ cell' \in {"free", "done"}
    BY <1>1 DEF Lapse
  <2> QED
    BY <2>1, <2>2, UnchangedTypes, WorldStep DEF stripe, time, ledger
<1>2. CASE NextDay
  <2>1. DOMAIN claims' \subseteq DOMAIN claims
        /\ \A h \in DOMAIN claims' : claims'[h] = claims[h]
    BY <1>2 DEF NextDay, Kept
  <2>2. /\ UNCHANGED <<ledger, items, sent, run, faults, lost>> /\ Quiet
        /\ cell' = "free" /\ swept' = FALSE /\ keys' \subseteq keys
        /\ day' = day + 1 /\ day < MaxDay
    BY <1>2 DEF NextDay
  <2>3. day' \in 0..MaxDay
    BY <2>2, Types, PayoutAssumptions
  <2> QED BY <2>1, <2>2, <2>3, UnchangedTypes, WorldStep DEF ledger
<1>3. CASE \E r \in Runs : SweepThrows(r)
  <2>1. /\ UNCHANGED <<time, ledger, items, stripe, claims, cell, run, lost>>
        /\ faults' \subseteq faults
    BY <1>3 DEF SweepThrows, Strikes
  <2> QED
    BY <2>1, Types, UnchangedTypes, WorldStep DEF stripe, time, ledger
<1> QED BY <1>1, <1>2, <1>3

LEMMA InitPayout == Init => PayoutInv
<1> SUFFICES ASSUME Init PROVE PayoutInv
  OBVIOUS
<1>1. Shaped
  BY FS_EmptySet DEF Init, Shaped
<1>2. /\ LedgerTypes /\ RowTypes /\ ClaimTypes /\ Len(items) <= MaxItems
      /\ day \in 0..MaxDay
  BY PayoutAssumptions DEF Init, LedgerTypes, RowTypes, ClaimTypes
<1>3. run \in [Runs -> RunType]
  BY IdleType DEF Init
<1>4. faults \in SUBSET FaultKinds
  BY PayoutAssumptions DEF Init
<1>5. TypeOK
  BY <1>1, <1>2, <1>3, <1>4, TypeParts DEF Init
<1>6. \A r \in Runs : Runner(r) /\ ~Working(r) /\ Progress(r)
  BY DEF Init, Runner, Working, Progress, Unsent, Marked, Idle
<1>7. Runners
  BY <1>6 DEF Runners, Init
<1>8. Truths
  BY <1>6 DEF Truths, Init
<1>9. DebitsWereSent /\ FailedWasNotSent
  BY DEF Init, DebitsWereSent, FailedWasNotSent
<1> QED BY <1>1, <1>5, <1>7, <1>8, <1>9 DEF PayoutInv

LEMMA StepPayout == PayoutInv /\ [Next]_vars => PayoutInv'
<1> SUFFICES ASSUME PayoutInv, [Next]_vars PROVE PayoutInv'
  OBVIOUS
<1>1. ASSUME NEW r \in Runs, Step(r) PROVE PayoutInv'
  BY <1>1, SweepStep, PlanStep, FeedStep, ClaimCellStep, BeginStep, CheckStep,
     SendStep, CommitStep, RepairStep, MarkStep, DebitStep, StampStep, SettleStep
     DEF Step
<1>2. ASSUME NEW r \in Runs, SendUnanswered(r) \/ Crash(r) PROVE PayoutInv'
  BY <1>2, SendUnansweredStep, SettleStep
<1>3. CASE UNCHANGED vars
  BY <1>3, Types, UnchangedTypes, WorldStep DEF vars, stripe, time, ledger
<1> QED BY <1>1, <1>2, <1>3, CreditsStep, TimeStep DEF Next

\* The invariant, under any faults.
THEOREM PayoutInvariance == Spec => []PayoutInv
  BY InitPayout, StepPayout, PTL DEF Spec

\* Every state of a batch has its type: no run, claim or transfer names an item
\* that is not there, and no amount is beyond the credits.
THEOREM PayoutTypes == Spec => []TypeOK
<1>1. PayoutInv => TypeOK
  BY DEF PayoutInv
<1> QED BY <1>1, PayoutInvariance, PTL

\* The payee is never debited for money it was not sent, whatever fails: the
\* ledger step, the heal of the sweep and the proof it asks for.
THEOREM DebitsAreReal == Spec => []DebitsWereSent
<1>1. PayoutInv => DebitsWereSent
  BY DEF PayoutInv
<1> QED BY <1>1, PayoutInvariance, PTL

\* An item whose transfer Stripe accepted is not marked failed, unless the
\* answer was lost: the two arms of the batch's catch.
THEOREM FailedIsUnsent == Spec => []FailedWasNotSent
<1>1. PayoutInv => FailedWasNotSent
  BY DEF PayoutInv
<1> QED BY <1>1, PayoutInvariance, PTL

-----------------------------------------------------------------------------
(* The books: while every answer came back, the ledger or the next sweep   *)
(* knows of every transfer before anything else is planned.                *)

\* Faults that cut a run short between its transfer and the end of its books.
Cuts == {"crash", "commit", "mark", "ledger"}

\* No behaviour has both such a cut and a sweep that fails to make it good.
HealsAlone ==
  \A plan \in FaultPlans : "heal" \in plan => plan \intersect Cuts = {}

\* None has both a consumption that fails and a dispute.
LostUndisputed ==
  \A plan \in FaultPlans : "consume" \in plan => "dispute" \notin plan

\* So the books have one of two grounds, and keep it.  If consumption is
\* certain, what was booked is consumed.  If it is not, no hold ever comes off
\* again, and the sums alone tell apart what was sent.
Booked(n, certain) ==
  /\ items[n].hash \in DOMAIN rows
  /\ certain => items[n].hash \subseteq consumed

Covering == UNION {items[t.item].hash : t \in sent}

Grounds(certain) ==
  /\ consumed \subseteq Covering
  /\ certain => "consume" \notin faults /\ paidOut \subseteq consumed
  /\ ~certain =>
       /\ "dispute" \notin faults /\ held = {}
       /\ Cardinality(Covering) <= Cardinality(debited) + SentTotal

\* The committed claim is of today, or of yesterday when nobody swept today.
Fresh(n) ==
  /\ Proven(n)
  /\ claims[items[n].hash].day + 1 >= day
  /\ swept => claims[items[n].hash].day = day

\* A sweep finds every transfer whose run is over.
Traced ==
  \A t \in sent :
    \/ items[t.item].status = "transferred" \/ Fresh(t.item)
    \/ \E r \in Runs : run[r].item = t.item /\ run[r].pc \in {"sent", "repair"}

\* No two transfers are for the same credits.
Distinct ==
  \A t, u \in sent : items[t.item].hash = items[u.item].hash => t = u

Stage(r, certain) ==
  /\ run[r].pc = "mark" => /\ Proven(run[r].item)
                           /\ claims[items[run[r].item].hash].day = day
  /\ run[r].pc \in Marked => items[run[r].item].status = "transferred"
  /\ run[r].pc = "consume" => items[run[r].item].hash \in DOMAIN rows
  /\ run[r].pc = "stamp" => Booked(run[r].item, certain)

\* A run that can still get the cell has all transfers in its sums, and what a
\* run is about to send has not been sent.
Funding(r, certain) ==
  /\ cell = "free" =>
       /\ run[r].pc \in {"plan", "feed", "claim"} =>
            /\ \A t \in sent : Booked(t.item, certain)
            /\ ~certain => Covering \subseteq run[r].asOf
       /\ run[r].pc \in {"feed", "claim"} =>
            /\ run[r].amount + SentTotal <= Cardinality(matured)
            /\ ~certain =>
                 /\ ~(run[r].asOf \subseteq Covering)
                 /\ Cardinality(run[r].asOf) <=
                      run[r].amount + Cardinality(debited) + SentTotal
       /\ run[r].pc = "claim" =>
            \A t \in sent : run[r].plan # items[t.item].hash
  /\ run[r].pc \in Unsent =>
       /\ items[run[r].item].amount + SentTotal <= Cardinality(matured)
       /\ \A t \in sent : items[t.item].hash # items[run[r].item].hash
       /\ ~certain =>
            Cardinality(Covering \union items[run[r].item].hash) <=
              items[run[r].item].amount + Cardinality(debited) + SentTotal

\* Where the sweep's heal may yet fail, no run leaves it anything to do.
Kempt(r, certain) ==
  /\ run[r].pc # "repair"
  /\ run[r].pc = "settle" => Booked(run[r].item, certain)

Whole(certain) ==
  "heal" \in faults =>
    /\ faults \intersect Cuts = {}
    /\ \A r \in Runs : Kempt(r, certain)
    /\ \A t \in sent : \/ Booked(t.item, certain)
                       \/ \E r \in Runs : Working(r) /\ run[r].item = t.item

Books(certain) ==
  /\ Traced /\ Distinct /\ Grounds(certain) /\ Whole(certain)
  /\ \A r \in Runs : Stage(r, certain) /\ Funding(r, certain)
  /\ SentTotal <= Cardinality(matured)

BooksInv == PayoutInv /\ (~lost => \E certain \in BOOLEAN : Books(certain))

\* What Stripe sent, as a sum of Sums.
Money(S) == SumOver([t \in S |-> t.amount], S)

LEMMA MoneyIsSum ==
  ASSUME NEW S
  PROVE  MapThenSumSet(LAMBDA t : t.amount, S) = Money(S)
<1> DEFINE f == [t \in S |-> t.amount]
           P(g) == g = [s \in SUBSET S |-> IF s = {} THEN 0
                          ELSE Pick(s).amount + g[s \ {Pick(s)}]]
<1>1. \A s \in SUBSET S : s # {} => f[Pick(s)] = Pick(s).amount
  BY PickIsIn
<1>2. \A g : P(g) <=> IsSum(g, f, S)
  <2> HIDE DEF f
  <2> QED BY <1>1 DEF IsSum
<1>3. MapThenSumSet(LAMBDA t : t.amount, S) = (CHOOSE g : P(g))[S]
  BY Zenon DEF MapThenSumSet, MapThenFoldSet, Pick
<1>4. (CHOOSE g : P(g)) = (CHOOSE g : IsSum(g, f, S))
  <2> HIDE DEF P
  <2> QED BY <1>2, Zenon
<1> QED BY <1>3, <1>4, SumIsIter DEF Money

LEMMA SentIsSum == SentTotal = Money(sent)
  BY MoneyIsSum, Zenon DEF SentTotal

LEMMA SentIsSumNext == SentTotal' = Money(sent')
<1>1. (SentTotal = Money(sent))'
  BY SentIsSum, PTL
<1> QED BY <1>1

LEMMA Amounts ==
  ASSUME PayoutInv
  PROVE  /\ IsFiniteSet(sent) /\ SentTotal \in Nat
         /\ \A t \in sent : t.item \in DOMAIN items /\ t.amount \in Nat
         /\ \A n \in DOMAIN items : items[n].amount \in Nat
         /\ IsFiniteSet(matured) /\ Cardinality(matured) \in Nat
<1>1. \A t \in sent : t.item \in DOMAIN items /\ t.amount \in Nat
  BY Types DEF Cents
<1>2. IsFiniteSet(sent)
  BY Types DEF Shaped
<1>3. SentTotal \in Nat
  <2> DEFINE f == [t \in sent |-> t.amount]
  <2>1. \A t \in sent : f[t] \in Nat
    BY <1>1
  <2> HIDE DEF f
  <2>2. SumOver(f, sent) \in Nat
    BY <1>2, <2>1, SumNat
  <2> QED BY <2>2, SentIsSum DEF Money, f
<1>4. \A n \in DOMAIN items : items[n].amount \in Nat
  BY Types, ItemTypes DEF ItemType, Cents
<1>5. IsFiniteSet(matured) /\ Cardinality(matured) \in Nat
  BY Types, PayoutAssumptions, FS_Subset, FS_CardinalityType DEF LedgerTypes
<1> QED BY <1>1, <1>2, <1>3, <1>4, <1>5

\* What the transfers cover has matured, and changes with them alone.
LEMMA CoveringTypes ==
  ASSUME PayoutInv
  PROVE  /\ Covering \subseteq matured /\ IsFiniteSet(Covering)
         /\ Cardinality(Covering) \in Nat /\ Cardinality(debited) \in Nat
         /\ \A n \in DOMAIN items : Paid(n) => items[n].hash \subseteq Covering
<1>1. Covering \subseteq matured
  BY Amounts DEF Covering, PayoutInv, Runners
<1>2. IsFiniteSet(Covering) /\ IsFiniteSet(debited)
  BY <1>1, Amounts, Types, PayoutAssumptions, FS_Subset DEF LedgerTypes
<1>3. \A n \in DOMAIN items : Paid(n) => items[n].hash \subseteq Covering
  <2> SUFFICES ASSUME NEW n \in DOMAIN items, Paid(n)
               PROVE  items[n].hash \subseteq Covering
    OBVIOUS
  <2> DEFINE u == [item |-> n, amount |-> items[n].amount]
  <2>1. u \in sent /\ u.item = n
    BY DEF Paid
  <2> HIDE DEF u
  <2> QED BY <2>1 DEF Covering
<1> QED BY <1>1, <1>2, <1>3, FS_CardinalityType

LEMMA CoveringStays ==
  ASSUME PayoutInv, SamePlans, sent' = sent
  PROVE  Covering' = Covering
<1>1. \A t \in sent : items'[t.item].hash = items[t.item].hash
  BY Amounts DEF SamePlans
<1> QED BY <1>1 DEF Covering

\* When the ledger has every transfer, it has their sum.
LEMMA LedgerHasAll ==
  ASSUME PayoutInv, Distinct, \A t \in sent : items[t.item].hash \in DOMAIN rows
  PROVE  SentTotal <= Sum(rows)
<1> DEFINE e == [t \in sent |-> t.amount]
           g == [t \in sent |-> items[t.item].hash]
<1>1. /\ IsFiniteSet(sent) /\ IsFiniteSet(DOMAIN rows)
      /\ \A h \in DOMAIN rows : rows[h] \in Nat
  <2>1. {} \in SUBSET Credits
    OBVIOUS
  <2>2. IsFiniteSet(DOMAIN rows)
    BY <2>1, PayableTypes
  <2> QED BY <2>2, Amounts, Types DEF RowTypes, Cents
<1>2. \A t \in sent : g[t] \in DOMAIN rows /\ e[t] = rows[g[t]]
  <2> SUFFICES ASSUME NEW t \in sent
               PROVE  /\ items[t.item].hash \in DOMAIN rows
                      /\ t.amount = rows[items[t.item].hash]
    OBVIOUS
  <2>1. PICK u \in sent : /\ items[u.item].hash = items[t.item].hash
                          /\ u.amount = rows[items[t.item].hash]
    BY DEF PayoutInv, DebitsWereSent
  <2> QED BY <2>1 DEF Distinct
<1>3. \A t, u \in sent : g[t] = g[u] => t = u
  BY DEF Distinct
<1> HIDE DEF e, g
<1>4. SumOver(e, sent) <= SumOver(rows, DOMAIN rows)
  BY <1>1, <1>2, <1>3, SumMaps
<1> QED BY <1>4, SentIsSum, SumIsSum DEF Money, e

\* The ledger's sum is never more than what was sent.
LEMMA LedgerIsSent ==
  ASSUME PayoutInv
  PROVE  Sum(rows) <= SentTotal
<1> DEFINE g == [h \in DOMAIN rows |->
                   CHOOSE t \in sent : /\ items[t.item].hash = h
                                       /\ t.amount = rows[h]]
           f == [t \in sent |-> t.amount]
<1>1. IsFiniteSet(DOMAIN rows) /\ IsFiniteSet(sent)
  <2>1. {} \in SUBSET Credits
    OBVIOUS
  <2> QED BY <2>1, PayableTypes, Amounts
<1>2. \A h \in DOMAIN rows : /\ g[h] \in sent /\ items[g[h].item].hash = h
                             /\ g[h].amount = rows[h]
  BY DEF PayoutInv, DebitsWereSent
<1>3. \A t \in sent : f[t] = t.amount /\ f[t] \in Nat
  BY Amounts
<1> HIDE DEF g, f
<1>4. /\ \A h \in DOMAIN rows : g[h] \in sent /\ rows[h] = f[g[h]]
      /\ \A h, k \in DOMAIN rows : g[h] = g[k] => h = k
  BY <1>2, <1>3
<1>5. SumOver(rows, DOMAIN rows) <= SumOver(f, sent)
  BY <1>1, <1>3, <1>4, SumMaps
<1> QED BY <1>5, SentIsSum, SumIsSum DEF Money, f

\* What is booked stays booked.
LEMMA BookedStays ==
  ASSUME NEW certain \in BOOLEAN, SamePlans,
         DOMAIN rows \subseteq DOMAIN rows', consumed \subseteq consumed',
         NEW n \in DOMAIN items, Booked(n, certain)
  PROVE  Booked(n, certain)'
  BY DEF Booked, SamePlans

\* A commit of today or one that stays is still fresh.
LEMMA FreshStays ==
  ASSUME SamePlans, UNCHANGED day, swept' => swept, NEW n \in DOMAIN items,
         Fresh(n), items[n].hash \in DOMAIN claims',
         claims'[items[n].hash] = claims[items[n].hash]
  PROVE  Fresh(n)'
  BY DEF Fresh, Proven, SamePlans

\* What a run that does not move needs is kept.
LEMMA StageStays ==
  ASSUME NEW certain \in BOOLEAN, NEW q \in Runs, Stage(q, certain),
         run'[q] = run[q], SamePlans, day' = day,
         DOMAIN rows \subseteq DOMAIN rows', consumed \subseteq consumed',
         Working(q) => run[q].item \in DOMAIN items /\ claims' = claims,
         \A n \in DOMAIN items :
           items[n].status = "transferred" => items'[n].status = "transferred"
  PROVE  Stage(q, certain)'
<1>1. run[q].pc \in {"mark"} \union Marked => Working(q)
  BY DEF Working
<1>2. run[q].pc = "stamp" => Booked(run[q].item, certain)'
  BY <1>1, BookedStays DEF Stage, Marked
<1> QED BY <1>1, <1>2 DEF Stage, Proven, SamePlans, Marked

LEMMA FundingStays ==
  ASSUME PayoutInv, NEW certain \in BOOLEAN, NEW q \in Runs, Funding(q, certain),
         run'[q] = run[q], SamePlans, UNCHANGED <<matured, debited, sent>>,
         DOMAIN rows \subseteq DOMAIN rows', consumed \subseteq consumed',
         cell' = "free" => cell = "free"
  PROVE  Funding(q, certain)'
<1>1. /\ SentTotal' = SentTotal /\ Covering' = Covering
      /\ \A t \in sent : /\ items'[t.item].hash = items[t.item].hash
                         /\ Booked(t.item, certain) => Booked(t.item, certain)'
  BY SentIsSum, SentIsSumNext, CoveringStays, Amounts, BookedStays DEF SamePlans
<1>2. ASSUME run[q].pc \in Unsent
      PROVE  /\ items'[run[q].item].hash = items[run[q].item].hash
             /\ items'[run[q].item].amount = items[run[q].item].amount
  BY <1>2, MineTypes DEF Working, SamePlans
<1> HIDE DEF PayoutInv, SentTotal, Covering, Booked
<1>3. ASSUME cell = "free", run[q].pc \in {"plan", "feed", "claim"}
      PROVE  /\ \A t \in sent : Booked(t.item, certain)'
             /\ ~certain => Covering \subseteq run[q].asOf
  BY <1>1, <1>3 DEF Funding
<1>4. ASSUME cell = "free", run[q].pc \in {"feed", "claim"}
      PROVE  /\ run[q].amount + SentTotal <= Cardinality(matured)
             /\ ~certain =>
                  /\ ~(run[q].asOf \subseteq Covering)
                  /\ Cardinality(run[q].asOf) <=
                       run[q].amount + Cardinality(debited) + SentTotal
  BY <1>4 DEF Funding
<1>5. ASSUME cell = "free", run[q].pc = "claim"
      PROVE  \A t \in sent : run[q].plan # items'[t.item].hash
  BY <1>1, <1>5 DEF Funding
<1>6. ASSUME run[q].pc \in Unsent
      PROVE  /\ items'[run[q].item].amount + SentTotal <= Cardinality(matured)
             /\ \A t \in sent :
                  items'[t.item].hash # items'[run[q].item].hash
             /\ ~certain =>
                  Cardinality(Covering \union items'[run[q].item].hash) <=
                    items'[run[q].item].amount + Cardinality(debited) + SentTotal
  BY <1>1, <1>2, <1>6 DEF Funding
<1> QED BY <1>1, <1>3, <1>4, <1>5, <1>6 DEF Funding

\* One run moves: what the other runs and the transfers need is kept, and the
\* step answers for the run itself.
LEMMA BooksTurn ==
  ASSUME PayoutInv, NEW certain \in BOOLEAN, Books(certain),
         NEW r \in Runs, SamePlans, Others(r),
         UNCHANGED <<time, matured, debited, held, sent>>,
         DOMAIN rows \subseteq DOMAIN rows', consumed \subseteq consumed',
         consumed' \subseteq consumed \union Covering,
         certain => paidOut' \subseteq paidOut \union consumed',
         faults' \subseteq faults,
         cell' = cell \/ Working(r), cell' = "free" => cell = "free",
         \A n \in DOMAIN items :
           items[n].status = "transferred" => items'[n].status = "transferred",
         \A t \in sent : Fresh(t.item) => Fresh(t.item)',
         \A t \in sent :
           run[r].item = t.item /\ run[r].pc \in {"sent", "repair"} =>
             \/ items'[t.item].status = "transferred" \/ Fresh(t.item)'
             \/ run'[r].item = t.item /\ run'[r].pc \in {"sent", "repair"},
         claims' = claims \/ Working(r),
         Stage(r, certain)', Funding(r, certain)',
         "heal" \in faults' =>
           /\ Kempt(r, certain)'
           /\ \A n \in DOMAIN items :
                Working(r) /\ run[r].item = n /\ Paid(n) =>
                  \/ Working(r)' /\ run'[r].item = n
                  \/ Booked(n, certain)'
  PROVE  Books(certain)'
<1>1. /\ \A t \in sent : t.item \in DOMAIN items
      /\ \A n \in DOMAIN items : Booked(n, certain) => Booked(n, certain)'
  BY Amounts, BookedStays
<1>2. ASSUME NEW q \in Runs, q # r
      PROVE  /\ run'[q] = run[q] /\ (Working(q)' <=> Working(q))
             /\ Working(q) => run[q].item \in DOMAIN items /\ ~Working(r)
  BY <1>2, MineTypes DEF Others, Working
<1>3. SentTotal' = SentTotal /\ Covering' = Covering
  BY SentIsSum, SentIsSumNext, CoveringStays
<1>4. Traced'
  <2> SUFFICES ASSUME NEW t \in sent
               PROVE  \/ items'[t.item].status = "transferred"
                      \/ Fresh(t.item)'
                      \/ \E q \in Runs : /\ run'[q].item = t.item
                                         /\ run'[q].pc \in {"sent", "repair"}
    BY DEF Traced
  <2>1. CASE items[t.item].status = "transferred" \/ Fresh(t.item)
    BY <1>1, <2>1
  <2>2. CASE \E q \in Runs : run[q].item = t.item /\ run[q].pc \in {"sent", "repair"}
    <3>1. PICK q \in Runs : run[q].item = t.item /\ run[q].pc \in {"sent", "repair"}
      BY <2>2
    <3>2. CASE q = r
      BY <3>1, <3>2
    <3>3. CASE q # r
      BY <1>2, <3>1, <3>3
    <3> QED BY <3>2, <3>3
  <2> QED BY <2>1, <2>2 DEF Books, Traced
<1>5. Distinct'
  BY <1>1 DEF Books, Distinct, SamePlans
<1>6. Grounds(certain)'
  BY <1>3 DEF Books, Grounds
<1>7. Whole(certain)'
  <2> SUFFICES ASSUME "heal" \in faults'
               PROVE  /\ faults' \intersect Cuts = {}
                      /\ \A q \in Runs : Kempt(q, certain)'
                      /\ \A t \in sent :
                           \/ Booked(t.item, certain)'
                           \/ \E q \in Runs : Working(q)' /\ run'[q].item = t.item
    BY DEF Whole
  <2>1. /\ faults \intersect Cuts = {}
        /\ \A q \in Runs : Kempt(q, certain)
        /\ \A t \in sent : \/ Booked(t.item, certain)
                           \/ \E q \in Runs : Working(q) /\ run[q].item = t.item
    BY DEF Books, Whole
  <2>2. ASSUME NEW q \in Runs PROVE Kempt(q, certain)'
    <3>1. CASE q # r
      <4>1. run'[q].pc = "settle" => Working(q)
        BY <1>2, <3>1 DEF Working, Marked
      <4> QED BY <1>1, <1>2, <2>1, <3>1, <4>1 DEF Kempt, Booked
    <3> QED BY <3>1
  <2>3. ASSUME NEW t \in sent
        PROVE  \/ Booked(t.item, certain)'
               \/ \E q \in Runs : Working(q)' /\ run'[q].item = t.item
    <3>1. CASE Booked(t.item, certain)
      BY <1>1, <3>1
    <3>2. ASSUME NEW q \in Runs, Working(q), run[q].item = t.item, q # r
          PROVE  Working(q)' /\ run'[q].item = t.item
      BY <1>2, <3>2
    <3>3. CASE Working(r) /\ run[r].item = t.item
      <4>1. t = [item |-> t.item, amount |-> items[t.item].amount]
        BY Types DEF PayoutInv, Truths
      <4>2. Paid(t.item)
        BY <4>1 DEF Paid
      <4>3. \/ Working(r)' /\ run'[r].item = t.item
            \/ Booked(t.item, certain)'
        BY <1>1, <3>3, <4>2
      <4> QED BY <4>3
    <3> QED BY <2>1, <3>1, <3>2, <3>3
  <2> QED BY <2>1, <2>2, <2>3
<1>8. ASSUME NEW q \in Runs PROVE Stage(q, certain)' /\ Funding(q, certain)'
  <2>1. CASE q # r
    <3>1. Stage(q, certain) /\ Funding(q, certain)
      BY DEF Books
    <3>2. Working(q) => run[q].item \in DOMAIN items /\ claims' = claims
      BY <1>2, <2>1
    <3>3. run'[q] = run[q] /\ day' = day
      BY <1>2, <2>1 DEF time
    <3> QED BY <3>1, <3>2, <3>3, StageStays, FundingStays
  <2> QED BY <2>1
<1> QED BY <1>3, <1>4, <1>5, <1>6, <1>7, <1>8 DEF Books

LEMMA IdleBooks ==
  ASSUME NEW certain \in BOOLEAN, NEW r \in Runs, run'[r] = Idle
  PROVE  /\ Stage(r, certain)' /\ Funding(r, certain)' /\ Kempt(r, certain)'
         /\ run'[r].pc = "idle"
  BY DEF Stage, Funding, Kempt, Unsent, Marked, Idle

\* A claim that is taken or kept under another hash than a transfer's.
LEMMA OthersFresh ==
  ASSUME PayoutInv, SamePlans, UNCHANGED time, NEW h,
         \A k \in DOMAIN claims \ {h} : k \in DOMAIN claims' /\ claims'[k] = claims[k],
         \A t \in sent : items[t.item].hash # h
  PROVE  \A t \in sent : Fresh(t.item) => Fresh(t.item)'
<1> SUFFICES ASSUME NEW t \in sent, Fresh(t.item) PROVE Fresh(t.item)'
  OBVIOUS
<1>1. t.item \in DOMAIN items
  BY Amounts
<1>2. items[t.item].hash \in DOMAIN claims'
      /\ claims'[items[t.item].hash] = claims[items[t.item].hash]
  BY DEF Fresh, Proven
<1> QED BY <1>1, <1>2, FreshStays DEF time

\* Claims that stay.
LEMMA SameFresh ==
  ASSUME PayoutInv, SamePlans, UNCHANGED <<time, claims>>
  PROVE  \A t \in sent : Fresh(t.item) => Fresh(t.item)'
  BY Amounts DEF Fresh, Proven, SamePlans, time

\* A run that ends with its item unsent, or with its books done.
LEMMA EndBooks ==
  ASSUME PayoutInv, NEW certain \in BOOLEAN, Books(certain), NEW r \in Runs, Ends(r),
         UNCHANGED <<time, ledger, items, stripe, claims>>,
         cell' = cell \/ Working(r), cell' = "free" => cell = "free",
         faults' \subseteq faults,
         run[r].pc \notin {"sent", "repair"},
         "heal" \in faults' => ~Working(r) \/ run[r].pc \in {"settle"} \union Unsent
  PROVE  Books(certain)'
<1>1. SamePlans /\ Others(r) /\ run'[r] = Idle
  BY Types, ItemsStay, RunEnds DEF Others
<1>2. Stage(r, certain)' /\ Funding(r, certain)' /\ Kempt(r, certain)'
  BY <1>1, IdleBooks
<1>3. \A t \in sent : Fresh(t.item) => Fresh(t.item)'
  BY <1>1, SameFresh
<1>4. ASSUME "heal" \in faults', NEW n \in DOMAIN items, Working(r),
             run[r].item = n, Paid(n)
      PROVE  Booked(n, certain)'
  <2>1. run[r].pc = "settle"
    BY <1>4 DEF PayoutInv, Truths, Progress, Paid
  <2>2. Booked(n, certain)
    BY <1>4, <2>1 DEF Books, Whole, Kempt
  <2> QED BY <2>2 DEF Booked, ledger
<1> QED BY <1>1, <1>2, <1>3, <1>4, BooksTurn DEF ledger, stripe

LEMMA PlanBooks ==
  ASSUME PayoutInv, NEW certain \in BOOLEAN, Books(certain),
         NEW r \in Runs, Plan(r)
  PROVE  Books(certain)'
<1>1. /\ UNCHANGED <<time, ledger, items, stripe, claims, cell, faults, lost>>
      /\ run[r].pc = "plan" /\ ~Working(r) /\ SamePlans
      /\ run \in [Runs -> RunType]
  BY Types, ItemsStay DEF Plan, Working, Unsent, Marked
<1>2. CASE Ends(r)
  BY <1>1, <1>2, EndBooks
<1>3. CASE ~Ends(r)
  <2>1. run' = [run EXCEPT ![r].pc = "feed", ![r].amount = Payable(run[r].asOf)]
    BY <1>3 DEF Plan
  <2>2. /\ Others(r) /\ run'[r].pc = "feed" /\ run'[r].item = run[r].item
        /\ run'[r].amount = Payable(run[r].asOf)
    BY <1>1, <2>1 DEF Others, RunType
  <2>3. cell = "free" => Payable(run[r].asOf) + SentTotal <= Cardinality(matured)
    <3> SUFFICES ASSUME cell = "free"
                 PROVE  Payable(run[r].asOf) + SentTotal <= Cardinality(matured)
      OBVIOUS
    <3>1. \A t \in sent : items[t.item].hash \in DOMAIN rows
      BY <1>1 DEF Books, Funding, Booked
    <3>2. SentTotal <= Sum(rows)
      BY <3>1, LedgerHasAll DEF Books
    <3>3. run[r].asOf \subseteq matured /\ run[r].asOf \in SUBSET Credits
      BY <1>1 DEF PayoutInv, Runners, Runner, RunType
    <3>4. /\ Payable(run[r].asOf) \in Int /\ Sum(rows) \in Nat
          /\ Payable(run[r].asOf) + Sum(rows) <= Cardinality(run[r].asOf)
          /\ Cardinality(run[r].asOf) \in Nat
      BY <3>3, PayableTypes
    <3>5. Cardinality(run[r].asOf) <= Cardinality(matured)
      BY <3>3, Amounts, FS_Subset
    <3> QED BY <3>2, <3>4, <3>5, Amounts
  <2>4. SentTotal' = SentTotal /\ Covering' = Covering
    BY <1>1, SentIsSum, SentIsSumNext, CoveringStays DEF stripe
  <2>8. ASSUME cell = "free", ~certain
        PROVE  /\ ~(run[r].asOf \subseteq Covering)
               /\ Cardinality(run[r].asOf) <=
                    Payable(run[r].asOf) + Cardinality(debited) + SentTotal
    <3>1. \A t \in sent : items[t.item].hash \in DOMAIN rows
      BY <1>1, <2>8 DEF Books, Funding, Booked
    <3>2. Sum(rows) <= SentTotal /\ SentTotal <= Sum(rows)
      BY <3>1, LedgerHasAll, LedgerIsSent DEF Books
    <3>3. run[r].asOf \in SUBSET Credits
      BY <1>1 DEF RunType
    <3>4. /\ Payable(run[r].asOf) \in Int /\ Sum(rows) \in Nat
          /\ Cardinality(run[r].asOf) \in Nat
      BY <3>3, PayableTypes
    <3>5. ~(Payable(run[r].asOf) <= 0)
      BY <1>3 DEF Plan
    <3>6. Cardinality(held) = 0
      BY <2>8, FS_EmptySet DEF Books, Grounds
    <3>7. /\ Cardinality(debited) \in Nat /\ SentTotal \in Nat
          /\ Cardinality(Covering) \in Nat /\ IsFiniteSet(Covering)
          /\ Cardinality(Covering) <= Cardinality(debited) + SentTotal
      BY <2>8, CoveringTypes, Amounts DEF Books, Grounds
    <3>8. Payable(run[r].asOf) =
            Cardinality(run[r].asOf) - Cardinality(debited) - Sum(rows)
      BY <3>4, <3>6, <3>7 DEF Payable
    <3>9. Cardinality(run[r].asOf) > Cardinality(Covering)
      BY <3>2, <3>4, <3>5, <3>7, <3>8
    <3>10. run[r].asOf \subseteq Covering =>
             Cardinality(run[r].asOf) <= Cardinality(Covering)
      BY <3>7, FS_Subset
    <3> QED BY <3>2, <3>4, <3>7, <3>8, <3>9, <3>10
  <2>5. Funding(r, certain)'
    <3>1. /\ UNCHANGED <<matured, debited>> /\ run'[r].asOf = run[r].asOf
          /\ cell' = cell /\ sent' = sent
      BY <1>1, <2>1 DEF ledger, stripe, RunType
    <3>2. ASSUME cell = "free"
          PROVE  /\ \A t \in sent : Booked(t.item, certain)'
                 /\ ~certain => Covering \subseteq run[r].asOf
      BY <1>1, <3>2 DEF Books, Funding, Booked, ledger
    <3> HIDE DEF SentTotal, Covering, Payable, Booked
    <3> QED BY <2>2, <2>3, <2>4, <2>8, <3>1, <3>2 DEF Funding, Unsent
  <2>6. Stage(r, certain)' /\ Kempt(r, certain)'
    BY <2>2 DEF Stage, Kempt, Marked
  <2>7. \A t \in sent : Fresh(t.item) => Fresh(t.item)'
    BY <1>1, SameFresh
  <2> QED BY <1>1, <2>2, <2>5, <2>6, <2>7, BooksTurn DEF ledger, stripe
<1> QED BY <1>2, <1>3

LEMMA FeedBooks ==
  ASSUME PayoutInv, NEW certain \in BOOLEAN, Books(certain),
         NEW r \in Runs, Feed(r)
  PROVE  Books(certain)'
<1>1. /\ UNCHANGED <<time, ledger, items, stripe, claims, cell, faults, lost>>
      /\ run[r].pc = "feed" /\ ~Working(r) /\ SamePlans
      /\ run \in [Runs -> RunType]
  BY Types, ItemsStay DEF Feed, Working, Unsent, Marked
<1>2. CASE Ends(r)
  BY <1>1, <1>2, EndBooks
<1>3. CASE ~Ends(r)
  <2>1. run' = [run EXCEPT ![r].pc = "claim",
                           ![r].plan = Consumable(run[r].asOf)]
    BY <1>3 DEF Feed
  <2>2. /\ Others(r) /\ run'[r].pc = "claim" /\ run'[r].item = run[r].item
        /\ run'[r].amount = run[r].amount
        /\ run'[r].plan = run[r].asOf \ consumed
        /\ run'[r].asOf = run[r].asOf
    BY <1>1, <2>1 DEF Others, RunType, Consumable
  <2>3. SentTotal' = SentTotal /\ Covering' = Covering
    BY <1>1, SentIsSum, SentIsSumNext, CoveringStays DEF stripe
  <2>7. ASSUME cell = "free", NEW t \in sent
        PROVE  run'[r].plan # items[t.item].hash
    <3>1. items[t.item].hash # {} /\ items[t.item].hash \subseteq Covering
      BY Amounts, Types, ItemTypes DEF ItemType, Hash, Covering
    <3>2. CASE certain
      <4>1. items[t.item].hash \subseteq consumed
        BY <1>1, <2>7, <3>2 DEF Books, Funding, Booked
      <4> QED BY <2>2, <3>1, <4>1
    <3>3. CASE ~certain
      <4>1. ~(run[r].asOf \subseteq Covering) /\ consumed \subseteq Covering
        BY <1>1, <2>7, <3>3 DEF Books, Funding, Grounds
      <4> QED BY <2>2, <3>1, <4>1
    <3> QED BY <3>2, <3>3
  <2>4. Funding(r, certain)'
    BY <1>1, <2>2, <2>3, <2>7
       DEF Books, Funding, Unsent, Booked, ledger, stripe
  <2>5. Stage(r, certain)' /\ Kempt(r, certain)'
    BY <2>2 DEF Stage, Kempt, Marked
  <2>6. \A t \in sent : Fresh(t.item) => Fresh(t.item)'
    BY <1>1, SameFresh
  <2> QED BY <1>1, <2>2, <2>4, <2>5, <2>6, BooksTurn DEF ledger, stripe
<1> QED BY <1>2, <1>3

LEMMA BeginBooks ==
  ASSUME PayoutInv, NEW certain \in BOOLEAN, Books(certain),
         NEW r \in Runs, Begin(r)
  PROVE  Books(certain)'
<1>1. /\ UNCHANGED <<time, ledger, stripe, lost, faults>> /\ run[r].pc = "begin"
      /\ Working(r) /\ run[r].pc \in Unsent
  BY DEF Begin, Working, Unsent
<1>2. CASE /\ claims' = With(Mine(r).hash, 0)
           /\ Goes(r, "check") /\ UNCHANGED <<items, cell>>
  <2>1. SamePlans
    BY <1>2, Types, ItemsStay
  <2>2. /\ DOMAIN claims' = DOMAIN claims \union {Mine(r).hash}
        /\ \A k \in DOMAIN claims \ {Mine(r).hash} : claims'[k] = claims[k]
    BY <1>2, Claiming
  <2>3. /\ Others(r) /\ run'[r].pc = "check"
        /\ run'[r].item = run[r].item /\ Working(r)'
    BY <1>1, <1>2, <2>1, GoesFits DEF ledger, Unsent
  <2>4. \A t \in sent : Fresh(t.item) => Fresh(t.item)'
    <3>1. \A t \in sent : items[t.item].hash # Mine(r).hash
      BY <1>1 DEF Books, Funding, Mine
    <3> QED BY <1>1, <2>1, <2>2, <3>1, OthersFresh
  <2>5. SentTotal' = SentTotal /\ Covering' = Covering
    BY <1>1, <2>1, SentIsSum, SentIsSumNext, CoveringStays DEF stripe
  <2>6. Stage(r, certain)' /\ Kempt(r, certain)'
    BY <2>3 DEF Stage, Kempt, Marked
  <2>7. Funding(r, certain)'
    BY <1>1, <1>2, <2>3, <2>5 DEF Books, Funding, Unsent, ledger, stripe
  <2> QED
    BY <1>1, <1>2, <2>1, <2>3, <2>4, <2>6, <2>7, BooksTurn DEF ledger, stripe
<1>3. CASE /\ ~Claimable(Mine(r).hash) /\ LosesClaim(r)
           /\ cell' = "failed" /\ Ends(r)
  <2>1. /\ SamePlans /\ claims' = claims
        /\ \A n \in DOMAIN items :
             items'[n].status =
                  IF n = run[r].item THEN "failed"
                  ELSE IF n \in Probed(r) THEN "transferred"
                  ELSE items[n].status
        /\ run'[r] = Idle /\ Others(r)
    BY <1>1, <1>3, LosesEffect
  <2>2. Stage(r, certain)' /\ Funding(r, certain)' /\ Kempt(r, certain)'
    BY <2>1, IdleBooks
  <2>3. \A t \in sent : Fresh(t.item) => Fresh(t.item)'
    BY <1>1, <2>1, SameFresh
  <2>4. ~Paid(run[r].item)
    BY <1>1 DEF PayoutInv, Truths, Progress, Paid
  <2>5. items[run[r].item].status # "transferred"
    BY <1>1, <2>4, MineTypes DEF PayoutInv, Truths
  <2>6. \A n \in DOMAIN items :
          items[n].status = "transferred" => items'[n].status = "transferred"
    BY <2>1, <2>5
  <2> QED
    BY <1>1, <1>3, <2>1, <2>2, <2>3, <2>4, <2>6, BooksTurn
       DEF ledger, stripe, Unsent
<1> QED BY <1>2, <1>3 DEF Begin

LEMMA FailsBooks ==
  ASSUME PayoutInv, NEW certain \in BOOLEAN, Books(certain), NEW r \in Runs, Fails(r),
         run[r].pc \in {"check", "send"},
         UNCHANGED <<time, ledger, stripe, faults>>
  PROVE  Books(certain)'
<1>1. Working(r) /\ run[r].pc \in Unsent
  BY DEF Working, Unsent
<1>2. /\ SamePlans
      /\ \A n \in DOMAIN items :
           items'[n].status = IF n = run[r].item THEN "failed"
                                 ELSE items[n].status
      /\ DOMAIN claims' = DOMAIN claims \union {Mine(r).hash}
      /\ \A k \in DOMAIN claims \ {Mine(r).hash} : claims'[k] = claims[k]
      /\ cell' = "failed" /\ run'[r] = Idle /\ Others(r)
  BY <1>1, FailsEffect
<1>3. Stage(r, certain)' /\ Funding(r, certain)' /\ Kempt(r, certain)'
  BY <1>2, IdleBooks
<1>4. \A t \in sent : Fresh(t.item) => Fresh(t.item)'
  <2>1. \A t \in sent : items[t.item].hash # Mine(r).hash
    BY <1>1 DEF Books, Funding, Mine
  <2> QED BY <1>2, <2>1, OthersFresh
<1>5. ~Paid(run[r].item)
  BY <1>1 DEF PayoutInv, Truths, Progress, Paid
<1>6. items[run[r].item].status # "transferred"
  BY <1>1, <1>5, MineTypes DEF PayoutInv, Truths
<1>7. \A n \in DOMAIN items :
        items[n].status = "transferred" => items'[n].status = "transferred"
  BY <1>2, <1>6
<1> QED BY <1>1, <1>2, <1>3, <1>4, <1>5, <1>7, BooksTurn DEF ledger, stripe

LEMMA CheckBooks ==
  ASSUME PayoutInv, NEW certain \in BOOLEAN, Books(certain),
         NEW r \in Runs, Check(r) \/ SendRefused(r)
  PROVE  Books(certain)'
<1>1. CASE SendRefused(r) \/ (Check(r) /\ Fails(r))
  BY <1>1, FailsBooks DEF Check, SendRefused
<1>2. CASE Check(r) /\ ~Fails(r)
  <2>1. /\ UNCHANGED <<time, ledger, stripe, lost, faults, items, claims, cell>>
        /\ run[r].pc = "check" /\ Working(r) /\ Goes(r, "send")
    BY <1>2 DEF Check, Working, Unsent
  <2>2. SamePlans
    BY <2>1, Types, ItemsStay
  <2>3. /\ Others(r) /\ run'[r].pc = "send"
        /\ run'[r].item = run[r].item /\ Working(r)'
    BY <2>1, <2>2, GoesFits DEF ledger, Unsent
  <2>4. \A t \in sent : Fresh(t.item) => Fresh(t.item)'
    BY <2>1, <2>2, SameFresh
  <2>5. SentTotal' = SentTotal /\ Covering' = Covering
    BY <2>1, <2>2, SentIsSum, SentIsSumNext, CoveringStays DEF stripe
  <2>6. Stage(r, certain)' /\ Kempt(r, certain)'
    BY <2>3 DEF Stage, Kempt, Marked
  <2>7. Funding(r, certain)'
    BY <2>1, <2>3, <2>5 DEF Books, Funding, Unsent, ledger, stripe
  <2> QED BY <2>1, <2>2, <2>3, <2>4, <2>6, <2>7, BooksTurn DEF ledger, stripe
<1> QED BY <1>1, <1>2

\* A commit is of today, and of the only transfer of its credits.
LEMMA CommitFresh ==
  ASSUME PayoutInv, NEW certain \in BOOLEAN, Books(certain),
         NEW r \in Runs, Working(r), run[r].pc \notin Unsent,
         SamePlans, UNCHANGED time, claims' = With(Mine(r).hash, run[r].item)
  PROVE  /\ \A t \in sent : Fresh(t.item) => Fresh(t.item)'
         /\ \A t \in sent : t.item = run[r].item => Fresh(t.item)'
         /\ \A n : n = run[r].item =>
              Proven(n)' /\ claims'[items'[n].hash].day = day'
<1>1. /\ DOMAIN claims' = DOMAIN claims \union {Mine(r).hash}
      /\ claims'[Mine(r).hash] = [by |-> run[r].item, day |-> day]
      /\ \A k \in DOMAIN claims \ {Mine(r).hash} : claims'[k] = claims[k]
  BY Claiming
<1>2. Paid(run[r].item) /\ run[r].item \in DOMAIN items /\ day \in Nat
  BY MineTypes, Types DEF PayoutInv, Truths, Progress
<1>3. \A n : n = run[r].item =>
        /\ Proven(n)' /\ claims'[items'[n].hash].day = day' /\ Fresh(n)'
  BY <1>1, <1>2 DEF Proven, Fresh, Mine, SamePlans, time
<1>4. ASSUME NEW t \in sent, t.item # run[r].item, Fresh(t.item)
      PROVE  Fresh(t.item)'
  <2>1. items[t.item].hash # Mine(r).hash
    <3> DEFINE u == [item |-> run[r].item, amount |-> items[run[r].item].amount]
    <3>1. u \in sent /\ u.item = run[r].item
      BY <1>2 DEF Paid
    <3> HIDE DEF u
    <3> QED BY <1>4, <3>1 DEF Books, Distinct, Mine
  <2>2. t.item \in DOMAIN items
    BY Amounts
  <2>3. /\ items[t.item].hash \in DOMAIN claims'
        /\ claims'[items[t.item].hash] = claims[items[t.item].hash]
    BY <1>1, <1>4, <2>1 DEF Fresh, Proven
  <2> QED BY <1>4, <2>2, <2>3, FreshStays DEF time
<1> QED BY <1>3, <1>4

\* A run past its transfer and still at work.
LEMMA GoesBooks ==
  ASSUME PayoutInv, NEW certain \in BOOLEAN, NEW r \in Runs, Working(r), SamePlans,
         NEW pc \in {"sent", "repair", "mark"} \union Marked, Goes(r, pc),
         matured' = matured, cell' = cell
  PROVE  /\ Others(r) /\ run'[r].pc = pc /\ run'[r].item = run[r].item
         /\ Working(r)' /\ Funding(r, certain)'
<1>1. /\ Others(r) /\ run'[r].pc = pc /\ run'[r].item = run[r].item
      /\ Working(r)' /\ cell' = "busy"
  BY GoesFits, MineTypes
<1> QED BY <1>1 DEF Funding, Unsent, Marked

LEMMA CommitBooks ==
  ASSUME PayoutInv, NEW certain \in BOOLEAN, Books(certain),
         NEW r \in Runs, Commit(r)
  PROVE  Books(certain)'
<1>1. /\ UNCHANGED <<time, ledger, items, stripe, cell, lost>>
      /\ run[r].pc = "sent" /\ Working(r) /\ run[r].pc \notin Unsent
      /\ SamePlans
  BY Types, ItemsStay DEF Commit, Working, Unsent
<1>2. CASE /\ claims' = With(Mine(r).hash, run[r].item)
           /\ Goes(r, "mark") /\ UNCHANGED faults
  <2>1. /\ Others(r) /\ run'[r].pc = "mark" /\ run'[r].item = run[r].item
        /\ Working(r)' /\ Funding(r, certain)'
    BY <1>1, <1>2, GoesBooks DEF ledger
  <2>2. /\ \A t \in sent : Fresh(t.item) => Fresh(t.item)'
        /\ \A t \in sent : t.item = run[r].item => Fresh(t.item)'
        /\ \A n : n = run[r].item =>
             Proven(n)' /\ claims'[items'[n].hash].day = day'
    BY <1>1, <1>2, CommitFresh
  <2>3. Stage(r, certain)' /\ Kempt(r, certain)'
    BY <2>1, <2>2 DEF Stage, Kempt, Marked
  <2> QED BY <1>1, <1>2, <2>1, <2>2, <2>3, BooksTurn DEF ledger, stripe
<1>3. CASE Strikes("commit") /\ Goes(r, "repair") /\ UNCHANGED claims
  <2>1. /\ Others(r) /\ run'[r].pc = "repair" /\ run'[r].item = run[r].item
        /\ Working(r)' /\ Funding(r, certain)'
    BY <1>1, <1>3, GoesBooks DEF ledger
  <2>2. \A t \in sent : Fresh(t.item) => Fresh(t.item)'
    BY <1>1, <1>3, SameFresh
  <2>3. Stage(r, certain)'
    BY <2>1 DEF Stage, Marked
  <2>4. "heal" \notin faults' /\ faults' \subseteq faults
    BY <1>3 DEF Books, Whole, Cuts, Strikes
  <2> QED BY <1>1, <1>3, <2>1, <2>2, <2>3, <2>4, BooksTurn DEF ledger, stripe
<1> QED BY <1>2, <1>3 DEF Commit

LEMMA RepairBooks ==
  ASSUME PayoutInv, NEW certain \in BOOLEAN, Books(certain),
         NEW r \in Runs, Repair(r)
  PROVE  Books(certain)'
<1>1. /\ UNCHANGED <<time, ledger, stripe, faults, lost>>
      /\ run[r].pc = "repair" /\ Working(r) /\ run[r].pc \notin Unsent
      /\ claims' = With(Mine(r).hash, run[r].item)
      /\ items' = Stamped({run[r].item}, "transferred")
      /\ cell' = "done" /\ Ends(r)
  BY DEF Repair, Working, Unsent
<1>2. /\ SamePlans
      /\ \A n \in DOMAIN items :
           items'[n].status = IF n \in {run[r].item} THEN "transferred"
                              ELSE items[n].status
  BY <1>1, Types, StatusSteps
<1>3. run'[r] = Idle /\ Others(r)
  BY <1>1, Types, RunEnds DEF Others
<1>4. Stage(r, certain)' /\ Funding(r, certain)' /\ Kempt(r, certain)'
  BY <1>3, IdleBooks
<1>5. /\ \A t \in sent : Fresh(t.item) => Fresh(t.item)'
      /\ \A t \in sent : t.item = run[r].item => Fresh(t.item)'
  BY <1>1, <1>2, CommitFresh
<1>6. "heal" \notin faults'
  BY <1>1 DEF Books, Whole, Kempt
<1> QED BY <1>1, <1>2, <1>3, <1>4, <1>5, <1>6, BooksTurn DEF ledger, stripe

LEMMA MarkBooks ==
  ASSUME PayoutInv, NEW certain \in BOOLEAN, Books(certain),
         NEW r \in Runs, Mark(r)
  PROVE  Books(certain)'
<1>1. /\ UNCHANGED <<time, ledger, stripe, claims, lost>>
      /\ run[r].pc = "mark" /\ Working(r) /\ run[r].item \in DOMAIN items
  BY MineTypes DEF Mark, Working
<1>2. /\ SamePlans
      /\ \A n \in DOMAIN items :
           \/ items'[n].status = items[n].status
           \/ n = run[r].item /\ items'[n].status = "transferred"
      /\ items' = Stamped({run[r].item}, "transferred") =>
           \A n : n = run[r].item => items'[n].status = "transferred"
  <2>1. CASE items' = Stamped({run[r].item}, "transferred")
    <3>1. /\ SamePlans
          /\ \A n \in DOMAIN items :
               items'[n].status = IF n \in {run[r].item} THEN "transferred"
                                  ELSE items[n].status
      BY <2>1, Types, StatusSteps
    <3> QED BY <1>1, <3>1
  <2>2. CASE items' = items /\ items' # Stamped({run[r].item}, "transferred")
    BY <2>2, Types, ItemsStay
  <2> QED BY <2>1, <2>2 DEF Mark
<1>3. \A t \in sent : Fresh(t.item) => Fresh(t.item)'
  BY <1>1, <1>2, SameFresh
<1>4. CASE /\ items' = Stamped({run[r].item}, "transferred")
           /\ Goes(r, "ledger") /\ UNCHANGED <<cell, faults>>
  <2>1. /\ Others(r) /\ run'[r].pc = "ledger" /\ run'[r].item = run[r].item
        /\ Working(r)' /\ Funding(r, certain)'
    BY <1>1, <1>2, <1>4, GoesBooks DEF ledger, Marked
  <2>2. Stage(r, certain)' /\ Kempt(r, certain)'
    BY <1>2, <1>4, <2>1 DEF Stage, Kempt, Marked
  <2> QED BY <1>1, <1>2, <1>3, <1>4, <2>1, <2>2, BooksTurn DEF ledger, stripe
<1>5. CASE Strikes("mark") /\ cell' = "done" /\ Ends(r)
  <2>1. run'[r] = Idle /\ Others(r)
    BY <1>5, Types, RunEnds DEF Others
  <2>2. Stage(r, certain)' /\ Funding(r, certain)' /\ Kempt(r, certain)'
    BY <2>1, IdleBooks
  <2>3. "heal" \notin faults' /\ faults' \subseteq faults
    BY <1>5 DEF Books, Whole, Cuts, Strikes
  <2> QED
    BY <1>1, <1>2, <1>3, <1>5, <2>1, <2>2, <2>3, BooksTurn DEF ledger, stripe
<1> QED BY <1>4, <1>5 DEF Mark

LEMMA DebitBooks ==
  ASSUME PayoutInv, NEW certain \in BOOLEAN, Books(certain),
         NEW r \in Runs, Debit(r)
  PROVE  Books(certain)'
<1>1. /\ UNCHANGED <<time, matured, consumed, debited, held, paidOut, items,
                     stripe, claims, cell, lost>>
      /\ run[r].pc = "ledger" /\ Working(r) /\ run[r].pc \notin Unsent
      /\ SamePlans /\ sent' = sent /\ run[r].item \in DOMAIN items
      /\ items[run[r].item].status = "transferred"
  BY Types, ItemsStay, MineTypes
     DEF Debit, Working, Unsent, Marked, stripe, Books, Stage
<1>2. \A t \in sent : Fresh(t.item) => Fresh(t.item)'
  BY <1>1, SameFresh
<1>3. CASE /\ rows' = PayoutDebits({run[r].item})
           /\ Goes(r, "consume") /\ UNCHANGED faults
  <2>1. /\ Others(r) /\ run'[r].pc = "consume" /\ run'[r].item = run[r].item
        /\ Working(r)' /\ Funding(r, certain)'
    BY <1>1, <1>3, GoesBooks DEF Marked
  <2>2. DOMAIN rows' = DOMAIN rows \union {Mine(r).hash}
    BY <1>1, <1>3, DebitEffect
  <2>3. Stage(r, certain)' /\ Kempt(r, certain)'
    BY <1>1, <2>1, <2>2 DEF Stage, Kempt, Marked, Mine
  <2>4. DOMAIN rows \subseteq DOMAIN rows'
    BY <2>2
  <2> QED BY <1>1, <1>2, <1>3, <2>1, <2>3, <2>4, BooksTurn
<1>4. CASE Strikes("ledger") /\ Goes(r, "settle") /\ UNCHANGED rows
  <2>1. /\ Others(r) /\ run'[r].pc = "settle" /\ run'[r].item = run[r].item
        /\ Working(r)' /\ Funding(r, certain)'
    BY <1>1, <1>4, GoesBooks DEF Marked
  <2>2. Stage(r, certain)'
    BY <1>1, <2>1 DEF Stage, Marked
  <2>3. "heal" \notin faults' /\ faults' \subseteq faults
    BY <1>4 DEF Books, Whole, Cuts, Strikes
  <2> QED BY <1>1, <1>2, <1>4, <2>1, <2>2, <2>3, BooksTurn
<1> QED BY <1>3, <1>4 DEF Debit

LEMMA StampBooks ==
  ASSUME PayoutInv, NEW certain \in BOOLEAN, Books(certain), NEW r \in Runs,
         Consume(r) \/ Stamp(r)
  PROVE  Books(certain)'
<1>1. /\ UNCHANGED <<time, matured, debited, held, rows, items, stripe, claims,
                     cell, lost>>
      /\ run[r].pc \in {"consume", "stamp"} /\ Working(r)
      /\ run[r].pc \notin Unsent /\ SamePlans
      /\ run[r].item \in DOMAIN items /\ sent' = sent /\ faults' \subseteq faults
      /\ items[run[r].item].status = "transferred"
      /\ Mine(r).hash \in DOMAIN rows
      /\ run[r].pc = "stamp" => Booked(run[r].item, certain)
  BY Types, ItemsStay, MineTypes
     DEF Consume, Stamp, Working, Unsent, Marked, stripe, Books, Stage, Mine,
         Strikes, Booked
<1>2. Covers({run[r].item}) = Mine(r).hash /\ Mine(r).hash \subseteq Covering
  <2>1. Paid(run[r].item)
    BY <1>1 DEF PayoutInv, Truths, Progress
  <2> QED BY <1>1, <2>1, CoveringTypes DEF Covers, Mine
<1>3. \A t \in sent : Fresh(t.item) => Fresh(t.item)'
  BY <1>1, SameFresh
<1>4. CASE Consume(r)
  <2>1. /\ consumed \subseteq consumed' /\ paidOut' = paidOut
        /\ consumed' \subseteq consumed \union Covering
        /\ certain => Mine(r).hash \subseteq consumed'
        /\ Goes(r, "stamp")
    BY <1>2, <1>4 DEF Consume, Consumes, Strikes, Books, Grounds
  <2>2. /\ Others(r) /\ run'[r].pc = "stamp" /\ run'[r].item = run[r].item
        /\ Working(r)' /\ Funding(r, certain)'
    BY <1>1, <2>1, GoesBooks DEF Marked
  <2>3. Stage(r, certain)' /\ Kempt(r, certain)'
    BY <1>1, <2>1, <2>2 DEF Stage, Kempt, Marked, Booked, Mine
  <2> QED BY <1>1, <1>3, <2>1, <2>2, <2>3, BooksTurn
<1>5. CASE Stamp(r)
  <2>1. /\ consumed' = consumed /\ run[r].pc = "stamp"
        /\ paidOut' \subseteq paidOut \union Mine(r).hash
        /\ Goes(r, "settle")
    BY <1>2, <1>5 DEF Stamp, Stamps
  <2>2. /\ Others(r) /\ run'[r].pc = "settle" /\ run'[r].item = run[r].item
        /\ Working(r)' /\ Funding(r, certain)'
    BY <1>1, <2>1, GoesBooks DEF Marked
  <2>3. Stage(r, certain)' /\ Kempt(r, certain)'
    BY <1>1, <2>1, <2>2 DEF Stage, Kempt, Marked, Booked
  <2>4. certain => paidOut' \subseteq paidOut \union consumed'
    BY <1>1, <2>1 DEF Booked, Mine
  <2> QED BY <1>1, <1>3, <2>1, <2>2, <2>3, <2>4, BooksTurn
<1> QED BY <1>4, <1>5

LEMMA SettleBooks ==
  ASSUME PayoutInv, NEW certain \in BOOLEAN, Books(certain),
         NEW r \in Runs, Settle(r) \/ (Crash(r) /\ ~lost')
  PROVE  Books(certain)'
<1>1. CASE Settle(r)
  BY <1>1, EndBooks DEF Settle, Working, Marked, Unsent
<1>2. CASE Crash(r) /\ ~lost'
  <2>1. "heal" \notin faults' /\ faults' \subseteq faults
    BY <1>2 DEF Crash, Books, Whole, Cuts, Strikes
  <2> QED BY <1>2, <2>1, EndBooks DEF Crash
<1> QED BY <1>1, <1>2

\* The sweep books every transfer whose run is over; a run under way answers
\* for its own.
LEMMA SweepBooks ==
  ASSUME PayoutInv, NEW certain \in BOOLEAN, Books(certain), ~lost,
         NEW r \in Runs, Sweep(r)
  PROVE  Books(certain)'
<1>1. PICK young \in SUBSET {run[q].item : q \in Runs},
           heal \in SUBSET DOMAIN items :
        /\ \/ heal = NeedsHeal(Recovered(young))
           \/ heal = {} /\ Strikes("heal")
        /\ SamePlans /\ faults' \subseteq faults
        /\ \A n \in DOMAIN items :
             items'[n].status = IF n \in Recovered(young) THEN "transferred"
                                ELSE items[n].status
        /\ DOMAIN rows' = DOMAIN rows \union {items[n].hash : n \in heal}
        /\ \A h \in DOMAIN rows' :
             \/ h \in DOMAIN rows /\ rows'[h] = rows[h]
             \/ \E n \in heal : items[n].hash = h /\ rows'[h] = items[n].amount
        /\ Covered(heal)
        /\ run' \in [Runs -> RunType]
        /\ run'[r] = [Idle EXCEPT !.pc = "plan", !.asOf = matured]
        /\ Others(r)
  BY SweepEffect
<1>2. /\ run[r].pc = "idle" /\ swept' = TRUE
      /\ UNCHANGED <<day, matured, debited, held, stripe, claims, cell, lost>>
      /\ sent' = sent
  BY DEF Sweep, stripe
<1>3. /\ DOMAIN rows \subseteq DOMAIN rows' /\ consumed \subseteq consumed'
      /\ \A n \in heal : /\ n \in DOMAIN items /\ Booked(n, certain)'
  <2>1. \A n \in heal : /\ items[n].hash \in DOMAIN rows'
                        /\ certain => items[n].hash \subseteq consumed'
    BY <1>1 DEF Covered, Covers, Books, Grounds
  <2> QED BY <1>1, <2>1 DEF Booked, Covered, SamePlans
<1>4. /\ \A t \in sent : t.item \in DOMAIN items
      /\ \A n \in DOMAIN items : Booked(n, certain) => Booked(n, certain)'
  BY <1>1, <1>3, Amounts, BookedStays
<1>5. /\ ~Working(r) /\ SentTotal' = SentTotal /\ Covering' = Covering
      /\ run'[r].pc = "plan" /\ run'[r].asOf = matured
  BY <1>1, <1>2, SentIsSum, SentIsSumNext, CoveringStays
     DEF Working, Unsent, Marked, Idle
<1>6. ASSUME NEW q \in Runs, q # r
      PROVE  run'[q] = run[q] /\ (Working(q)' <=> Working(q))
  BY <1>1, <1>6 DEF Others, Working
<1>7. ASSUME NEW t \in sent
      PROVE  \/ items[t.item].status = "transferred" \/ t.item \in Recovered(young)
             \/ \E q \in Runs : /\ Working(q) /\ run[q].item = t.item
                                /\ run[q].pc \in {"sent", "repair", "mark"}
  <2>1. items[t.item].status \in {"pending", "transferred"}
    <3>1. items[t.item] \in ItemType
      BY <1>4, Types, ItemTypes
    <3> QED BY <3>1 DEF ItemType, PayoutInv, FailedWasNotSent
  <2>2. CASE t.item \in young
    <3>1. PICK q \in Runs : run[q].item = t.item
      BY <2>2
    <3>2. Working(q)
      BY <1>4, <3>1, NoItem
    <3>3. run[q].pc \notin Unsent
      BY <3>1 DEF PayoutInv, Truths, Progress
    <3>4. run[q].pc \in Marked => items[t.item].status = "transferred"
      BY <3>1 DEF Books, Stage
    <3> QED BY <3>1, <3>2, <3>3, <3>4 DEF Working
  <2>3. CASE Fresh(t.item) /\ t.item \notin young
    BY <1>4, <2>1, <2>3 DEF Recovered, Pending, Fresh
  <2> QED BY <2>2, <2>3 DEF Books, Traced, Working
<1>8. Traced'
  <2> SUFFICES ASSUME NEW t \in sent
               PROVE  \/ items'[t.item].status = "transferred" \/ Fresh(t.item)'
                      \/ \E q \in Runs : /\ run'[q].item = t.item
                                         /\ run'[q].pc \in {"sent", "repair"}
    BY <1>2 DEF Traced
  <2>1. CASE \/ items[t.item].status = "transferred"
             \/ t.item \in Recovered(young)
    BY <1>1, <1>4, <2>1
  <2>2. CASE \E q \in Runs : /\ Working(q) /\ run[q].item = t.item
                             /\ run[q].pc \in {"sent", "repair", "mark"}
    <3>1. PICK q \in Runs : /\ Working(q) /\ run[q].item = t.item
                            /\ run[q].pc \in {"sent", "repair", "mark"}
      BY <2>2
    <3>2. run'[q] = run[q]
      BY <1>5, <1>6, <3>1
    <3>3. CASE run[q].pc = "mark"
      <4>1. Proven(t.item) /\ claims[items[t.item].hash].day = day
        BY <3>1, <3>3 DEF Books, Stage
      <4>2. day \in Nat
        BY Types
      <4> QED BY <1>1, <1>2, <1>4, <4>1, <4>2 DEF Fresh, Proven, SamePlans
    <3> QED BY <3>1, <3>2, <3>3
  <2> QED BY <1>7, <2>1, <2>2
<1>9. Distinct'
  BY <1>1, <1>2, <1>4 DEF Books, Distinct, SamePlans
<1>10. Grounds(certain)'
  <2>1. \A n \in heal : Paid(n)
    <3>1. 0 \notin DOMAIN items
      BY Types, ItemTypes
    <3>2. \A n \in Recovered(young) : Paid(n)
      BY <3>1 DEF Recovered, Pending, Proven, PayoutInv, Truths
    <3> QED BY <1>1, <3>2 DEF NeedsHeal, PayoutInv, Truths
  <2>2. Covers(heal) \subseteq Covering
    BY <2>1, CoveringTypes DEF Covers
  <2>3. consumed \subseteq Covering /\ consumed' \subseteq Covering
    BY <1>1, <2>2 DEF Books, Grounds, Covered
  <2>4. certain => "consume" \notin faults' /\ paidOut' \subseteq consumed'
    BY <1>1 DEF Books, Grounds, Covered
  <2> QED BY <1>1, <1>2, <1>5, <2>3, <2>4 DEF Books, Grounds
\* With nobody at work, every transfer is booked after the sweep.
<1>11. ASSUME \A q \in Runs : ~Working(q), NEW t \in sent
       PROVE  Booked(t.item, certain)'
  <2>1. CASE heal = NeedsHeal(Recovered(young))
    <3>1. items[t.item].status = "transferred" \/ t.item \in Recovered(young)
      BY <1>7, <1>11
    <3>2. t.item \in heal \/ Booked(t.item, certain)
      BY <1>4, <2>1, <3>1 DEF NeedsHeal, Booked, Books, Grounds
    <3> QED BY <1>3, <1>4, <3>2
  <2>2. CASE heal = {} /\ Strikes("heal")
    BY <1>4, <1>11, <2>2 DEF Strikes, Books, Whole
  <2> QED BY <1>1, <2>1, <2>2
<1>12. Whole(certain)'
  <2>1. faults' \subseteq faults
    BY <1>1
  <2>2. ASSUME "heal" \in faults, NEW q \in Runs PROVE Kempt(q, certain)'
    <3>1. CASE q = r
      BY <1>5, <3>1 DEF Kempt
    <3>2. CASE q # r
      <4>1. run[q].pc = "settle" => run[q].item \in DOMAIN items
        BY MineTypes DEF Working, Marked
      <4> QED BY <1>4, <1>6, <2>2, <3>2, <4>1 DEF Books, Whole, Kempt, Booked
    <3> QED BY <3>1, <3>2
  <2>3. ASSUME "heal" \in faults, NEW t \in sent
        PROVE  \/ Booked(t.item, certain)'
               \/ \E q \in Runs : Working(q)' /\ run'[q].item = t.item
    BY <1>4, <1>5, <1>6, <2>3 DEF Books, Whole
  <2> QED BY <1>2, <2>1, <2>2, <2>3 DEF Books, Whole
<1>13. ASSUME NEW q \in Runs PROVE Stage(q, certain)' /\ Funding(q, certain)'
  <2>1. CASE q = r
    <3>1. cell = "free" => \A t \in sent : Booked(t.item, certain)'
      BY <1>11 DEF PayoutInv, Runners, Runner
    <3> QED BY <1>2, <1>5, <2>1, <3>1, CoveringTypes
            DEF Stage, Funding, Unsent, Marked
  <2>2. CASE q # r
    <3>1. Working(q) => run[q].item \in DOMAIN items
      BY MineTypes
    <3>2. Stage(q, certain) /\ Funding(q, certain) /\ debited' = debited
      BY <1>2 DEF Books
    <3>3. \A n \in DOMAIN items :
            items[n].status = "transferred" => items'[n].status = "transferred"
      BY <1>1
    <3> QED BY <1>1, <1>2, <1>3, <1>6, <2>2, <3>1, <3>2, <3>3,
               StageStays, FundingStays
  <2> QED BY <2>1, <2>2
<1> QED BY <1>2, <1>5, <1>8, <1>9, <1>10, <1>12, <1>13 DEF Books

\* A run that is not at work while another has the cell.
LEMMA AwayBooks ==
  ASSUME NEW certain \in BOOLEAN, NEW q \in Runs, run'[q] = run[q], ~Working(q), cell' # "free"
  PROVE  Stage(q, certain)' /\ Funding(q, certain)'
<1>1. run'[q].pc # "mark" /\ run'[q].pc \notin Marked /\ run'[q].pc \notin Unsent
  BY DEF Working
<1> QED BY <1>1 DEF Stage, Funding, Marked

\* The plan becomes an item: what the run found free is still unsent.
LEMMA ClaimCellBooks ==
  ASSUME PayoutInv, NEW certain \in BOOLEAN, Books(certain),
         NEW r \in Runs, ClaimCell(r)
  PROVE  Books(certain)'
<1>1. CASE Ends(r)
  <2>1. run[r].pc = "claim" /\ run \in [Runs -> RunType] /\ run'[r] = Idle
    BY <1>1, Types, RunEnds DEF ClaimCell
  <2>2. UNCHANGED <<cell, items>>
    <3>1. ASSUME run' = [run EXCEPT ![r] =
                   [Idle EXCEPT !.pc = "begin", !.item = Len(items) + 1]]
          PROVE  FALSE
      <4>1. run'[r] = [Idle EXCEPT !.pc = "begin", !.item = Len(items) + 1]
        BY <2>1, <3>1
      <4>2. run'[r].pc = "begin"
        BY <4>1 DEF Idle
      <4> QED BY <2>1, <4>2 DEF Idle
    <3> QED BY <3>1 DEF ClaimCell
  <2>3. ~Working(r)
    BY <2>1 DEF Working, Unsent, Marked
  <2> QED BY <1>1, <2>1, <2>2, <2>3, EndBooks DEF ClaimCell
<1>2. CASE ~Ends(r)
  <2> DEFINE n0 == Len(items) + 1
  <2>1. /\ cell = "free" /\ cell' = "busy"
        /\ DOMAIN items' = DOMAIN items \union {n0}
        /\ n0 \notin DOMAIN items
        /\ \A n \in DOMAIN items : items'[n] = items[n]
        /\ items'[n0] = [hash |-> run[r].plan, amount |-> run[r].amount,
                         status |-> "pending"]
        /\ run[r].plan \in Hash
        /\ Others(r)
        /\ run'[r] = [Idle EXCEPT !.pc = "begin", !.item = n0]
    BY <1>2, ClaimCellEffect
  <2>2. /\ UNCHANGED <<time, ledger, stripe, claims, faults, lost>>
        /\ run[r].pc = "claim" /\ sent' = sent
    BY DEF ClaimCell, stripe
  <2>3. \A q \in Runs : ~Working(q)
    BY <2>1 DEF PayoutInv, Runners, Runner
  <2>4. run'[r].pc = "begin" /\ run'[r].item = n0
    BY <2>1 DEF Idle
  <2> HIDE DEF n0
  <2>5. /\ \A t \in sent : t.item \in DOMAIN items
        /\ \A n \in DOMAIN items : Booked(n, certain)' <=> Booked(n, certain)
        /\ \A n \in DOMAIN items : Fresh(n) => Fresh(n)'
    BY <2>1, <2>2, Amounts DEF Booked, Fresh, Proven, ledger, time
  <2>6. SentTotal' = SentTotal /\ Covering' = Covering
    BY <2>1, <2>2, <2>5, SentIsSum, SentIsSumNext DEF Covering
  <2>7. ASSUME NEW q \in Runs, q # r PROVE run'[q] = run[q] /\ ~Working(q)
    BY <2>1, <2>3, <2>7 DEF Others
  <2>8. Traced'
    BY <2>1, <2>2, <2>3, <2>5 DEF Books, Traced, Working
  <2>9. Distinct'
    BY <2>1, <2>2, <2>5 DEF Books, Distinct
  <2>10. Grounds(certain)'
    BY <2>2, <2>6 DEF Books, Grounds, ledger
  <2>11. Whole(certain)'
    <3>1. \A q \in Runs : run'[q].pc # "repair" /\ run'[q].pc # "settle"
      BY <2>4, <2>7 DEF Working, Marked
    <3> QED BY <2>2, <2>3, <2>5, <3>1 DEF Books, Whole, Kempt
  <2>12. ASSUME NEW q \in Runs PROVE Stage(q, certain)' /\ Funding(q, certain)'
    <3>1. CASE q = r
      <4>1. /\ items'[n0].amount = run[r].amount
            /\ items'[n0].hash = run[r].plan /\ run[r].plan # {}
        BY <2>1 DEF Hash
      <4>2. /\ run[r].amount + SentTotal <= Cardinality(matured)
            /\ \A t \in sent : items[t.item].hash # run[r].plan
        BY <2>1, <2>2, <4>1 DEF Books, Funding
      <4>3. Stage(r, certain)'
        BY <2>4 DEF Stage, Marked
      <4>5. ~certain =>
              Cardinality(Covering \union run[r].plan) <=
                run[r].amount + Cardinality(debited) + SentTotal
        <5> SUFFICES ASSUME ~certain
                     PROVE  Cardinality(Covering \union run[r].plan) <=
                              run[r].amount + Cardinality(debited) + SentTotal
          OBVIOUS
        <5>1. /\ Covering \union run[r].plan \subseteq run[r].asOf
              /\ Cardinality(run[r].asOf) <=
                   run[r].amount + Cardinality(debited) + SentTotal
          BY <2>1, <2>2 DEF Books, Funding, PayoutInv, Runners, Runner
        <5>2. run[r] \in RunType /\ run[r].asOf \subseteq matured
          BY Types DEF PayoutInv, Runners, Runner
        <5>3. IsFiniteSet(run[r].asOf)
          BY <5>2, Amounts, FS_Subset
        <5>4. /\ Cardinality(Covering \union run[r].plan) <= Cardinality(run[r].asOf)
              /\ Cardinality(Covering \union run[r].plan) \in Nat
              /\ Cardinality(run[r].asOf) \in Nat
          BY <5>1, <5>3, FS_Subset, FS_CardinalityType
        <5>5. run[r].amount \in Nat /\ Cardinality(debited) \in Nat /\ SentTotal \in Nat
          BY <5>2, CoveringTypes, Amounts DEF RunType, Cents
        <5> QED BY <5>1, <5>4, <5>5
      <4>4. Funding(r, certain)'
        BY <2>1, <2>2, <2>4, <2>5, <2>6, <4>1, <4>2, <4>5 DEF Funding, ledger
      <4> QED BY <3>1, <4>3, <4>4
    <3>2. CASE q # r
      BY <2>1, <2>7, <3>2, AwayBooks
    <3> QED BY <3>1, <3>2
  <2> QED BY <2>2, <2>6, <2>8, <2>9, <2>10, <2>11, <2>12 DEF Books, ledger
<1> QED BY <1>1, <1>2

\* The transfer: within the credits, and the first of its own.
LEMMA SendBooks ==
  ASSUME PayoutInv, NEW certain \in BOOLEAN, Books(certain),
         NEW r \in Runs, Send(r)
  PROVE  Books(certain)'
<1> DEFINE new == [item |-> run[r].item, amount |-> Mine(r).amount]
<1>1. /\ UNCHANGED <<time, ledger, items, claims, cell, faults, lost>>
      /\ run[r].pc = "send" /\ Working(r) /\ run[r].pc \in Unsent
      /\ SamePlans /\ Goes(r, "sent") /\ sent' = sent \union {new}
      /\ new.item = run[r].item /\ new.amount = Mine(r).amount
      /\ run[r].item \in DOMAIN items
  BY Types, ItemsStay, MineTypes DEF Send, Moves, Working, Unsent
<1> HIDE DEF new
<1>2. /\ Others(r) /\ run'[r].pc = "sent" /\ run'[r].item = run[r].item
      /\ Working(r)' /\ Funding(r, certain)'
  BY <1>1, GoesBooks DEF ledger
<1>3. /\ \A t \in sent : t.item # run[r].item
      /\ Mine(r).amount + SentTotal <= Cardinality(matured)
      /\ \A t \in sent : items[t.item].hash # Mine(r).hash
  BY <1>1 DEF PayoutInv, Truths, Progress, Books, Funding, Mine
<1>4. SentTotal' = SentTotal + Mine(r).amount
  <2> DEFINE e == [t \in sent |-> t.amount]
             f == [t \in sent \union {new} |-> t.amount]
  <2>1. /\ new \notin sent /\ IsFiniteSet(sent)
        /\ \A t \in sent \union {new} : t.amount \in Nat
    BY <1>1, <1>3, Amounts DEF Mine
  <2>2. /\ \A t \in sent \union {new} : f[t] \in Nat
        /\ \A t \in sent : e[t] = f[t]
        /\ f[new] = Mine(r).amount
    BY <1>1, <2>1
  <2> HIDE DEF e, f
  <2>3. SumOver(f, sent \union {new}) = SumOver(f, sent) + f[new]
    BY <2>1, <2>2, SumAdds
  <2>4. SumOver(e, sent) = SumOver(f, sent)
    BY <2>1, <2>2, SumAgrees
  <2>5. Money(sent) = SumOver(e, sent) /\ Money(sent') = SumOver(f, sent \union {new})
    BY <1>1 DEF Money, e, f
  <2> QED BY <2>2, <2>3, <2>4, <2>5, SentIsSum, SentIsSumNext
<1>5. ASSUME NEW q \in Runs, q # r PROVE run'[q] = run[q] /\ ~Working(q)
  BY <1>1, <1>2, <1>5, MineTypes DEF Others
<1>6. \A t \in sent' : t \in sent \/ t = new
  BY <1>1
<1>7. Traced'
  <2> SUFFICES ASSUME NEW t \in sent'
               PROVE  \/ items'[t.item].status = "transferred" \/ Fresh(t.item)'
                      \/ \E q \in Runs : /\ run'[q].item = t.item
                                         /\ run'[q].pc \in {"sent", "repair"}
    BY DEF Traced
  <2>1. CASE t = new
    BY <1>1, <1>2, <2>1
  <2>2. CASE t \in sent
    <3>1. Fresh(t.item) => Fresh(t.item)'
      BY <1>1 DEF Fresh, Proven, time
    <3>2. ASSUME NEW q \in Runs, run[q].pc \in {"sent", "repair"} PROVE FALSE
      BY <1>1, <1>5, <3>2 DEF Working
    <3> QED BY <1>1, <2>2, <3>1, <3>2 DEF Books, Traced
  <2> QED BY <1>6, <2>1, <2>2
<1>8. Distinct'
  BY <1>1, <1>3, <1>6 DEF Books, Distinct, Mine
<1>9. Grounds(certain)'
  <2>1. Covering' = Covering \union Mine(r).hash
    BY <1>1 DEF Covering, Mine
  <2>2. ~certain => Cardinality(Covering \union Mine(r).hash) <=
                      Mine(r).amount + Cardinality(debited) + SentTotal
    BY <1>1 DEF Books, Funding, Mine
  <2>3. /\ Mine(r).amount \in Nat /\ SentTotal \in Nat
        /\ Cardinality(debited) \in Nat
    BY <1>1, Amounts, CoveringTypes DEF Mine
  <2>4. ~certain => Cardinality(Covering') <= Cardinality(debited) + SentTotal'
    BY <1>4, <2>1, <2>2, <2>3
  <2> QED BY <1>1, <2>1, <2>4 DEF Books, Grounds, ledger
<1>10. Whole(certain)'
  <2>1. ASSUME NEW q \in Runs
        PROVE  run'[q].pc # "repair" /\ run'[q].pc # "settle"
    BY <1>2, <1>5 DEF Working, Marked
  <2>2. ASSUME "heal" \in faults, NEW t \in sent'
        PROVE  \/ Booked(t.item, certain)'
               \/ \E q \in Runs : Working(q)' /\ run'[q].item = t.item
    <3>1. CASE t = new
      BY <1>1, <1>2, <3>1
    <3>2. CASE t \in sent
      <4>1. Booked(t.item, certain)
        BY <1>3, <1>5, <2>2, <3>2 DEF Books, Whole
      <4> QED BY <1>1, <4>1 DEF Booked, ledger
    <3> QED BY <1>6, <3>1, <3>2
  <2> QED BY <1>1, <2>1, <2>2 DEF Books, Whole, Kempt
<1>11. ASSUME NEW q \in Runs PROVE Stage(q, certain)' /\ Funding(q, certain)'
  <2>1. CASE q = r
    BY <1>2, <2>1 DEF Stage, Marked
  <2>2. CASE q # r
    <3>1. cell' = "busy"
      BY <1>1, MineTypes
    <3> QED BY <1>5, <2>2, <3>1, AwayBooks
  <2> QED BY <2>1, <2>2
<1>12. SentTotal' <= Cardinality(matured')
  BY <1>1, <1>3, <1>4, Amounts DEF ledger, Mine
<1> QED BY <1>7, <1>8, <1>9, <1>10, <1>11, <1>12 DEF Books

\* What happens outside the runs leaves the books as they are.
LEMMA WorldBooks ==
  ASSUME PayoutInv, NEW certain \in BOOLEAN, Books(certain),
         UNCHANGED <<time, consumed, paidOut, rows, items, sent, run, claims>>,
         matured \subseteq matured', IsFiniteSet(matured'),
         ~certain => held' = held,
         debited \subseteq debited', IsFiniteSet(debited'),
         cell' = cell, faults' \subseteq faults
  PROVE  Books(certain)'
<1>1. /\ Cardinality(matured) <= Cardinality(matured')
      /\ Cardinality(matured) \in Nat /\ Cardinality(matured') \in Nat
      /\ Cardinality(debited) <= Cardinality(debited')
      /\ Cardinality(debited) \in Nat /\ Cardinality(debited') \in Nat
  BY FS_Subset, FS_CardinalityType
<1>2. /\ SentTotal' = SentTotal /\ SentTotal \in Nat
      /\ Covering' = Covering /\ Cardinality(Covering) \in Nat
  BY SentIsSum, SentIsSumNext, Amounts, CoveringTypes DEF Covering
<1>3. Traced' /\ Distinct' /\ Grounds(certain)'
  <2>1. Traced' /\ Distinct'
    BY DEF Books, Traced, Distinct, Fresh, Proven, time
  <2>2. Grounds(certain)'
    BY <1>1, <1>2 DEF Books, Grounds
  <2> QED BY <2>1, <2>2
<1>4. Whole(certain)'
  BY DEF Books, Whole, Kempt, Working, Booked
<1>5. ASSUME NEW r \in Runs PROVE Stage(r, certain)' /\ Funding(r, certain)'
  <2>1. Stage(r, certain)'
    BY DEF Books, Stage, Proven, time, Booked
  <2>2. /\ run[r].amount \in Nat /\ Cardinality(run[r].asOf) \in Nat
        /\ run[r].pc \in Unsent =>
             /\ items[run[r].item].amount \in Nat
             /\ Cardinality(Covering \union items[run[r].item].hash) \in Nat
    <3>1. run[r] \in RunType /\ (run[r].pc \in Unsent => Working(r))
      BY Types DEF Working
    <3>2. Working(r) => items[run[r].item].amount \in Nat
      BY MineTypes, Amounts
    <3>3. ASSUME Working(r)
          PROVE  Cardinality(Covering \union items[run[r].item].hash) \in Nat
      <4>1. Covering \union items[run[r].item].hash \subseteq matured
        BY <3>3, MineTypes, CoveringTypes DEF Mine
      <4> QED BY <4>1, Amounts, FS_Subset, FS_CardinalityType
    <3>4. Cardinality(run[r].asOf) \in Nat
      <4>1. run[r].asOf \in SUBSET Credits
        BY <3>1 DEF RunType
      <4> QED BY <4>1, PayableTypes
    <3> QED BY <3>1, <3>2, <3>3, <3>4 DEF RunType, Cents
  <2>3. Funding(r, certain)'
    BY <1>1, <1>2, <2>2, Amounts DEF Books, Funding, Booked
  <2> QED BY <2>1, <2>3
<1>6. SentTotal' <= Cardinality(matured')
  BY <1>1, <1>2 DEF Books
<1> QED BY <1>3, <1>4, <1>5, <1>6 DEF Books

LEMMA CreditsBooks ==
  ASSUME PayoutInv, PayoutInv', NEW certain \in BOOLEAN, Books(certain), NEW c \in Credits,
         Mature(c) \/ RefundOrder(c) \/ Dispute(c) \/ DisputeCloses(c)
  PROVE  Books(certain)'
<1>1. /\ UNCHANGED <<time, consumed, paidOut, rows, items, stripe, claims, cell,
                     run, lost>>
      /\ matured \subseteq matured' /\ faults' \subseteq faults
      /\ debited \subseteq debited'
  BY DEF Mature, RefundOrder, Dispute, DisputeCloses, Strikes
<1>2. IsFiniteSet(matured') /\ IsFiniteSet(debited')
  <2>1. matured' \subseteq Credits /\ debited' \subseteq Credits
    BY TypePartsNext DEF PayoutInv, LedgerTypes
  <2> QED BY <2>1, PayoutAssumptions, FS_Subset
<1>3. ~certain => held' = held
  BY DEF Books, Grounds, Mature, RefundOrder, Dispute, DisputeCloses, Strikes
<1> QED BY <1>1, <1>2, <1>3, WorldBooks DEF stripe

\* With every run over, the committed claims keep what the sweep will need.
LEMMA QuietBooks ==
  ASSUME PayoutInv, NEW certain \in BOOLEAN, Books(certain), Quiet,
         UNCHANGED <<ledger, items, sent, run>>, faults' \subseteq faults,
         \A t \in sent : Fresh(t.item) => Fresh(t.item)'
  PROVE  Books(certain)'
<1>1. \A r \in Runs : run[r].pc = "idle" /\ ~Working(r)
  BY DEF Quiet, Working, Unsent, Marked
<1>2. SentTotal' = SentTotal /\ Covering' = Covering
  BY SentIsSum, SentIsSumNext DEF Covering
<1>3. Traced'
  BY <1>1 DEF Books, Traced
<1>4. Distinct' /\ Grounds(certain)'
  BY <1>2 DEF Books, Distinct, Grounds, ledger
<1>5. Whole(certain)'
  BY <1>1 DEF Books, Whole, Kempt, Working, Booked, ledger
<1>6. \A r \in Runs : Stage(r, certain)' /\ Funding(r, certain)'
  BY <1>1 DEF Stage, Funding, Unsent, Marked
<1>7. SentTotal' <= Cardinality(matured')
  BY <1>2 DEF Books, ledger
<1> QED BY <1>3, <1>4, <1>5, <1>6, <1>7 DEF Books

LEMMA LapseBooks ==
  ASSUME PayoutInv, NEW certain \in BOOLEAN, Books(certain), Lapse
  PROVE  Books(certain)'
<1>1. /\ UNCHANGED <<time, ledger, items, stripe, run, faults, lost>> /\ Quiet
      /\ claims' = Kept(Uncommitted)
  BY DEF Lapse
<1>2. ASSUME NEW t \in sent, Fresh(t.item) PROVE Fresh(t.item)'
  <2>1. t.item \in DOMAIN items /\ t.item # 0
    BY Amounts, Types, ItemTypes
  <2>2. items[t.item].hash \in DOMAIN claims \ Uncommitted
    BY <1>2, <2>1 DEF Fresh, Proven, Uncommitted
  <2>3. /\ items[t.item].hash \in DOMAIN claims'
        /\ claims'[items[t.item].hash] = claims[items[t.item].hash]
    BY <1>1, <2>2, KeptClaims
  <2>4. SamePlans
    BY <1>1, Types, ItemsStay
  <2> QED BY <1>1, <1>2, <2>1, <2>3, <2>4, FreshStays DEF time
<1> QED BY <1>1, <1>2, QuietBooks DEF stripe

\* A claim outlives the sweep of the next day.
LEMMA NextDayBooks ==
  ASSUME PayoutInv, NEW certain \in BOOLEAN, Books(certain),
         NextDay, KeepDays >= 2
  PROVE  Books(certain)'
<1>1. /\ UNCHANGED <<ledger, items, sent, run, faults, lost>> /\ Quiet
      /\ swept /\ swept' = FALSE /\ day' = day + 1
      /\ day \in Nat /\ KeepDays \in Nat
  BY Types, PayoutAssumptions DEF NextDay
<1>2. PICK fresh \in {{}, Markers} : claims' = Kept((Uncommitted \ fresh) \union Expired)
  BY DEF NextDay
<1>3. ASSUME NEW t \in sent, Fresh(t.item) PROVE Fresh(t.item)'
  <2>1. t.item \in DOMAIN items /\ t.item # 0
    BY Amounts, Types, ItemTypes
  <2> DEFINE h == items[t.item].hash
  <2>2. h \in DOMAIN claims /\ claims[h].by = t.item /\ claims[h].day = day
    BY <1>1, <1>3 DEF Fresh, Proven
  <2>3. h \notin Uncommitted /\ h \notin Expired
    BY <1>1, <2>1, <2>2 DEF Uncommitted, Expired
  <2>4. h \in DOMAIN claims' /\ claims'[h] = claims[h]
    BY <1>2, <2>2, <2>3 DEF Kept
  <2> QED BY <1>1, <2>2, <2>4 DEF Fresh, Proven
<1> QED BY <1>1, <1>3, QuietBooks

LEMMA InitBooks == HealsAlone /\ LostUndisputed /\ Init => BooksInv
<1> SUFFICES ASSUME HealsAlone, LostUndisputed, Init PROVE BooksInv
  OBVIOUS
<1>1. PayoutInv
  BY InitPayout
<1> DEFINE certain == "consume" \notin faults
<1>2. \A r \in Runs : run[r] = Idle
  BY DEF Init
<1>3. \A r \in Runs :
        Stage(r, certain) /\ Funding(r, certain) /\ Kempt(r, certain)
  BY <1>2 DEF Stage, Funding, Kempt, Unsent, Marked, Idle
<1>4. Traced /\ Distinct
  BY DEF Init, Traced, Distinct
<1>5. Whole(certain)
  BY <1>3 DEF Init, HealsAlone, Whole
<1>6. SentTotal = 0 /\ Cardinality(matured) = 0
  BY SentIsSum, SumEmpty, FS_EmptySet DEF Init, Money
<1>7. Grounds(certain)
  <2>1. Covering = {} /\ Cardinality(Covering) = 0 /\ Cardinality(debited) = 0
    BY FS_EmptySet DEF Init, Covering
  <2> QED BY <1>6, <2>1 DEF Init, LostUndisputed, Grounds
<1>8. Books(certain)
  BY <1>3, <1>4, <1>5, <1>6, <1>7 DEF Books
<1>9. certain \in BOOLEAN
  OBVIOUS
<1> HIDE DEF certain
<1> QED BY <1>1, <1>8, <1>9 DEF BooksInv

\* A step keeps the ground the books stand on.
LEMMA StepOnGround ==
  ASSUME KeepDays >= 2, PayoutInv, PayoutInv', NEW certain \in BOOLEAN,
         Books(certain), ~lost, ~lost', [Next]_vars
  PROVE  Books(certain)'
<1>1. ASSUME NEW r \in Runs, Step(r) PROVE Books(certain)'
  BY <1>1, SweepBooks, PlanBooks, FeedBooks, ClaimCellBooks, BeginBooks,
     CheckBooks, SendBooks, CommitBooks, RepairBooks, MarkBooks, DebitBooks,
     StampBooks, SettleBooks DEF Step
<1>2. ASSUME NEW r \in Runs, SendUnanswered(r) \/ Crash(r)
      PROVE  Books(certain)'
  BY <1>2, SettleBooks DEF SendUnanswered
<1>3. IsFiniteSet(debited)
  BY Types, PayoutAssumptions, FS_Subset DEF LedgerTypes
<1>4. ASSUME NEW r \in Runs, SweepThrows(r) PROVE Books(certain)'
  <2>1. /\ UNCHANGED <<time, ledger, items, stripe, claims, cell, run, lost>>
        /\ faults' \subseteq faults
    BY <1>4 DEF SweepThrows, Strikes
  <2> QED BY <1>3, <2>1, Amounts, WorldBooks DEF ledger, stripe
<1>5. ASSUME NEW c \in Credits,
             Mature(c) \/ RefundOrder(c) \/ Dispute(c) \/ DisputeCloses(c)
      PROVE  Books(certain)'
  BY <1>5, CreditsBooks
<1>6. CASE Lapse \/ NextDay
  BY <1>6, LapseBooks, NextDayBooks
<1>7. CASE UNCHANGED vars
  BY <1>3, <1>7, Amounts, WorldBooks DEF vars, time, ledger, stripe
<1> QED BY <1>1, <1>2, <1>4, <1>5, <1>6, <1>7 DEF Next

LEMMA StepBooks == KeepDays >= 2 /\ BooksInv /\ [Next]_vars => BooksInv'
<1> SUFFICES ASSUME KeepDays >= 2, BooksInv, [Next]_vars, ~lost'
             PROVE  \E certain \in BOOLEAN : Books(certain)'
  BY StepPayout DEF BooksInv
<1>1. PayoutInv /\ PayoutInv'
  BY StepPayout DEF BooksInv
<1>2. lost => lost'
  BY DEF Next, Step, Sweep, Plan, Feed, ClaimCell, Begin, Check, Send,
         SendRefused, SendUnanswered, Commit, Repair, Mark, Debit, Consume,
         Stamp, Settle, SweepThrows, Crash, Mature, RefundOrder, Dispute,
         DisputeCloses, Lapse, NextDay, vars
<1>3. PICK certain \in BOOLEAN : Books(certain)
  BY <1>2 DEF BooksInv
<1>4. Books(certain)'
  BY <1>1, <1>2, <1>3, StepOnGround
<1> QED BY <1>4

\* The invariant, with the code's three days for a transfer claim, a sweep whose
\* heal does not fail on what a fault left it, and no dispute about a
\* consumption that failed.
THEOREM BooksInvariance ==
  ASSUME KeepDays >= 2, HealsAlone, LostUndisputed
  PROVE  Spec => []BooksInv
  BY InitBooks, StepBooks, PTL DEF Spec

\* The payee is never sent more than the credits that matured, however the runs
\* of the cron and of an operator overlap, die or plan the same money again.
THEOREM SentIsCovered ==
  ASSUME KeepDays >= 2, HealsAlone, LostUndisputed
  PROVE  Spec => []SentWithinCredits
<1>1. BooksInv => SentWithinCredits
  BY DEF BooksInv, Books, SentWithinCredits
<1> QED BY <1>1, BooksInvariance, PTL

\* No credits are sent twice under one hash: the transfer claim and its commit
\* while it lasts, the sums and the consumption after it.
THEOREM HashIsSentOnce ==
  ASSUME KeepDays >= 2, HealsAlone, LostUndisputed
  PROVE  Spec => [](~lost => Distinct)
<1>1. BooksInv => (~lost => Distinct)
  BY DEF BooksInv, Books
<1> QED BY <1>1, BooksInvariance, PTL
=============================================================================
