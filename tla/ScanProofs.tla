----------------------------- MODULE ScanProofs -----------------------------
(***************************************************************************)
(* Theorems about Scan for any tickets, devices, operators, attempts and   *)
(* faults.                                                                 *)
(***************************************************************************)
EXTENDS Scan, Sums, SequenceTheorems

\* A row that a pass is sending has attempts left.
Sending ==
  \A c \in calls : c.aw /\ admits[c.adm].place = "queued" =>
    admits[c.adm].tries < MaxAttempts

\* While no claim lapsed over a scan, a key is claimed once: whoever works under
\* the claim has not burnt the ticket yet, and nobody else works under it.
Claims ==
  /\ \A k \in Keys \ forgotten :
       marks[k] <= 1 /\ (record[k] = "none" => marks[k] = 0)
  /\ \A c \in calls : c.at = "read" /\ KeyOf(c.adm) \notin forgotten =>
       marks[KeyOf(c.adm)] = 0 /\ record[KeyOf(c.adm)] # "none"
  /\ \A c, e \in calls :
       /\ c.at = "read" /\ e.at = "read"
       /\ KeyOf(c.adm) = KeyOf(e.adm) /\ KeyOf(c.adm) \notin forgotten
       => c = e

\* A row that a retry has read was dropped, and no pass sends it any more.
Retrying ==
  \A d \in Devices : \A i \in DOMAIN retry[d].rows :
    admits[retry[d].rows[i]].place \notin {"live", "queued"}

\* A row that a sign-out has not wiped is of the operator signed in, and so is
\* what is left in the queue, unless a late answer put it back.
Owned ==
  \A a \in Ids :
    \/ admits[a].mark # "wiped"
    \/ admits[a].place \in {"queued", "dropped"} /\ admits[a].dev \notin late
    => admits[a].op = user[admits[a].dev]

ScanInv ==
  /\ TypeOK /\ Sending /\ Claims /\ Retrying /\ Owned /\ AcceptedOnce
  /\ StandingIsAccounted

-----------------------------------------------------------------------------
(* Rows, calls and sums.                                                   *)

LEMMA RowTypes ==
  ASSUME TypeOK
  PROVE  /\ Len(admits) \in Nat /\ Ids = 1..Len(admits)
         /\ admits \in [Ids -> AdmitType]
         /\ \A a \in Ids : KeyOf(a) \in Keys
<1>1. admits \in Seq(AdmitType)
  BY DEF TypeOK
<1>2. /\ Len(admits) \in Nat /\ Ids = 1..Len(admits)
      /\ admits \in [1..Len(admits) -> AdmitType]
  BY <1>1, LenProperties, Zenon DEF Ids
<1>3. \A a \in Ids : admits[a].t \in Tickets /\ admits[a].op \in Operators
  BY <1>2 DEF AdmitType
<1> QED BY <1>2, <1>3 DEF KeyOf, Keys

\* Rows that change where they are make a sequence again.
LEMMA RowsChange ==
  ASSUME TypeOK, NEW f \in [Ids -> AdmitType]
  PROVE  f \in Seq(AdmitType) /\ Len(f) = Len(admits) /\ DOMAIN f = Ids
<1>1. Len(admits) \in Nat /\ Ids = 1..Len(admits)
  BY RowTypes
<1>2. f \in Seq(AdmitType)
  BY <1>1, SeqDef
<1> QED BY <1>1, <1>2, LenProperties

LEMMA CallTypes ==
  ASSUME TypeOK, NEW c \in calls
  PROVE  /\ c.adm \in Ids /\ c.by \in Operators \union {Nobody}
         /\ c.aw \in BOOLEAN /\ c.at \in {"sent", "read", "done"}
         /\ c.val \in {"none"} \union Statuses \union Outcomes \union Errors
         /\ [c EXCEPT !.aw = FALSE] \in CallType
         /\ \A at, val : at \in {"sent", "read", "done"}
                /\ val \in {"none"} \union Statuses \union Outcomes \union Errors
              => [c EXCEPT !.at = at, !.val = val] \in CallType
  BY DEF TypeOK, CallType

\* The accepted scans of a ticket, as a sum over the operators.
Admitted(m, t) == SumOver([o \in Operators |-> m[<<t, o>>]], Operators)

LEMMA AcceptedIsSum ==
  ASSUME NEW m, NEW t
  PROVE  MapThenSumSet(LAMBDA o : m[<<t, o>>], Operators) = Admitted(m, t)
<1> DEFINE f == [o \in Operators |-> m[<<t, o>>]]
           P(g) == g = [s \in SUBSET Operators |-> IF s = {} THEN 0
                          ELSE m[<<t, Pick(s)>>] + g[s \ {Pick(s)}]]
<1>1. \A s \in SUBSET Operators : s # {} => f[Pick(s)] = m[<<t, Pick(s)>>]
  BY PickIsIn
<1>2. \A g : P(g) <=> IsSum(g, f, Operators)
  <2> HIDE DEF f
  <2> QED BY <1>1 DEF IsSum
<1>3. MapThenSumSet(LAMBDA o : m[<<t, o>>], Operators) =
        (CHOOSE g : P(g))[Operators]
  BY Zenon DEF MapThenSumSet, MapThenFoldSet, Pick
<1>4. (CHOOSE g : P(g)) = (CHOOSE g : IsSum(g, f, Operators))
  <2> HIDE DEF P
  <2> QED BY <1>2, Zenon
<1> QED BY <1>3, <1>4, SumIsIter DEF Admitted

LEMMA AcceptedOnSum == \A t : AcceptedOn(t) = Admitted(marks, t)
  BY AcceptedIsSum, Zenon DEF AcceptedOn

LEMMA AcceptedOnSumNext == \A t : AcceptedOn(t)' = Admitted(marks', t)
<1>1. (\A t : AcceptedOn(t) = Admitted(marks, t))'
  BY AcceptedOnSum, PTL
<1> QED BY <1>1

-----------------------------------------------------------------------------
(* The server.                                                             *)

\* One more scan recorded under a key counts once, for the key's ticket.
LEMMA MarkCounts ==
  ASSUME TypeOK, NEW t \in Tickets, NEW o \in Operators,
         marks' = [marks EXCEPT ![<<t, o>>] = @ + 1]
  PROVE  /\ marks' \in [Keys -> Nat]
         /\ Admitted(marks', t) = Admitted(marks, t) + 1
         /\ \A u \in Tickets \ {t} : Admitted(marks', u) = Admitted(marks, u)
<1>1. marks \in [Keys -> Nat] /\ <<t, o>> \in Keys /\ IsFiniteSet(Operators)
  BY ScanAssumptions DEF TypeOK, Keys
<1>2. marks' \in [Keys -> Nat]
  BY <1>1
<1> DEFINE f(u) == [p \in Operators |-> marks[<<u, p>>]]
           e(u) == [p \in Operators |-> marks'[<<u, p>>]]
<1>3. ASSUME NEW u \in Tickets, NEW p \in Operators
      PROVE  /\ f(u)[p] \in Nat /\ e(u)[p] \in Nat
             /\ e(u)[p] = IF u = t /\ p = o THEN f(u)[p] + 1 ELSE f(u)[p]
  <2>1. <<u, p>> \in Keys /\ (<<u, p>> = <<t, o>> <=> u = t /\ p = o)
    BY DEF Keys
  <2> QED BY <1>1, <2>1
<1> HIDE DEF f, e
<1>4. SumOver(e(t), Operators) + f(t)[o] = SumOver(f(t), Operators) + e(t)[o]
  BY <1>1, <1>3, SumChanges
<1>5. /\ SumOver(f(t), Operators) \in Nat /\ SumOver(e(t), Operators) \in Nat
      /\ f(t)[o] \in Nat /\ e(t)[o] = f(t)[o] + 1
  BY <1>1, <1>3, SumNat
<1>6. SumOver(e(t), Operators) = SumOver(f(t), Operators) + 1
  BY <1>4, <1>5
<1>7. \A u \in Tickets \ {t} : SumOver(e(u), Operators) = SumOver(f(u), Operators)
  BY <1>1, <1>3, SumAgrees
<1> QED BY <1>2, <1>6, <1>7 DEF Admitted, f, e

LEMMA AdmittedNat == TypeOK => \A t \in Tickets : Admitted(marks, t) \in Nat
<1> SUFFICES ASSUME TypeOK, NEW t \in Tickets PROVE Admitted(marks, t) \in Nat
  OBVIOUS
<1>1. \A o \in Operators : <<t, o>> \in Keys /\ marks[<<t, o>>] \in Nat
  BY DEF TypeOK, Keys
<1> QED BY <1>1, SumNat, ScanAssumptions DEF Admitted

\* A scan's transaction, whatever becomes of its answer.
LEMMA ScansOnce ==
  ASSUME ScanInv, NEW c \in calls, Scans(c)
  PROVE  /\ AcceptedOnce' /\ reverts' = reverts
         /\ ticket' \in [Tickets -> Statuses] /\ marks' \in [Keys -> Nat]
         /\ \A k \in Keys \ {KeyOf(c.adm)} : marks'[k] = marks[k]
         /\ marks'[KeyOf(c.adm)] \in {marks[KeyOf(c.adm)], marks[KeyOf(c.adm)] + 1}
         /\ \A t \in Tickets : ticket[t] = "VOID" => ticket'[t] = "VOID"
<1> DEFINE t == admits[c.adm].t
           o == admits[c.adm].op
<1>1. TypeOK /\ KeyOf(c.adm) = <<t, o>> /\ <<t, o>> \in Keys
      /\ t \in Tickets /\ o \in Operators
  BY RowTypes, CallTypes DEF ScanInv, KeyOf, AdmitType
<1>2. CASE Burns(c)
  <2>1. /\ ticket[t] = "VALID" /\ ticket' = [ticket EXCEPT ![t] = "SCANNED"]
        /\ marks' = [marks EXCEPT ![<<t, o>>] = @ + 1] /\ reverts' = reverts
    BY <1>1, <1>2 DEF Scans, Burns
  <2> HIDE DEF t, o
  <2>2. /\ ticket' \in [Tickets -> Statuses] /\ ticket'[t] = "SCANNED"
        /\ \A u \in Tickets \ {t} : ticket'[u] = ticket[u]
    BY <1>1, <2>1 DEF TypeOK, Statuses
  <2>3. AcceptedOnce'
    <3>1. /\ \A u \in Tickets : AcceptedOn(u) = Admitted(marks, u)
          /\ \A u \in Tickets : AcceptedOn(u)' = Admitted(marks', u)
          /\ \A u \in Tickets : Admitted(marks, u) \in Nat /\ reverts[u] \in Nat
      BY <1>1, AcceptedOnSum, AcceptedOnSumNext, AdmittedNat DEF TypeOK
    <3>2. /\ Admitted(marks', t) = Admitted(marks, t) + 1
          /\ \A u \in Tickets \ {t} : Admitted(marks', u) = Admitted(marks, u)
      BY <1>1, <2>1, MarkCounts
    <3> QED BY <1>1, <2>1, <2>2, <3>1, <3>2 DEF ScanInv, AcceptedOnce
  <2> QED BY <1>1, <2>1, <2>2, <2>3 DEF TypeOK
<1>3. CASE ~Burns(c)
  <2>1. UNCHANGED <<ticket, marks, reverts>>
    BY <1>3 DEF Scans
  <2>2. AcceptedOnce'
    <3>1. \A u \in Tickets : AcceptedOn(u)' = AcceptedOn(u)
      BY <2>1, AcceptedOnSum, AcceptedOnSumNext
    <3> QED BY <2>1, <3>1 DEF ScanInv, AcceptedOnce
  <2> QED BY <1>1, <2>1, <2>2 DEF TypeOK
<1> QED BY <1>2, <1>3

\* Nothing was counted.
LEMMA CountsStay ==
  ASSUME ScanInv, UNCHANGED <<ticket, marks, reverts>>
  PROVE  AcceptedOnce'
<1>1. \A u \in Tickets : AcceptedOn(u)' = AcceptedOn(u)
  BY AcceptedOnSum, AcceptedOnSumNext
<1> QED BY <1>1 DEF ScanInv, AcceptedOnce

\* A call moves on, or is answered; the rows stay.
LEMMA CallMoves ==
  ASSUME ScanInv, NEW c \in calls, NEW new,
         calls' = (calls \ {c}) \union new, new \subseteq CallType,
         \A e \in new : e.adm = c.adm /\ e.aw = c.aw,
         \A e, f \in new : e = f, admits' = admits
  PROVE  /\ calls' \subseteq CallType' /\ Sending'
         /\ \A e, f \in calls' : e.aw /\ f.aw /\ e.adm = f.adm => e = f
<1>1. CallType' = CallType
  BY DEF CallType, Ids
<1> QED BY <1>1 DEF ScanInv, Sending, TypeOK

LEMMA BeginStep ==
  ASSUME ScanInv, NEW c \in calls, Begin(c)
  PROVE  ScanInv'
<1> DEFINE k == KeyOf(c.adm)
<1>1. /\ TypeOK /\ c.adm \in Ids /\ k \in Keys /\ c.at = "sent"
      /\ k[1] \in Tickets
  BY RowTypes, CallTypes DEF ScanInv, Begin, Keys
<1>2. /\ UNCHANGED <<ticket, payload, marks, reverts, undos, admits>>
      /\ UNCHANGED <<user, online, shown, pass, retry, late, faults, forgotten>>
  BY DEF Begin, device, history
<1> DEFINE read == [c EXCEPT !.at = "read", !.val = ticket[k[1]]]
           answered(val) == [c EXCEPT !.at = "done", !.val = val]
<1>3. \/ /\ record' = record
         /\ \E val \in Outcomes \union Errors :
              calls' = (calls \ {c}) \union
                         (IF c.aw THEN {answered(val)} ELSE {})
      \/ /\ record[k] = "none" /\ record' = [record EXCEPT ![k] = "in_progress"]
         /\ calls' = (calls \ {c}) \union {read}
  BY DEF Begin, AnsweredWith, Errors
<1> DEFINE Fine(new) ==
      /\ calls' = (calls \ {c}) \union new /\ new \subseteq CallType
      /\ \A e \in new : e.adm = c.adm /\ e.aw = c.aw
      /\ \A e, f \in new : e = f
      /\ \/ record' = record /\ \A e \in new : e.at = "done"
         \/ record[k] = "none" /\ record' = [record EXCEPT ![k] = "in_progress"]
<1>4. PICK new : Fine(new)
  <2>1. /\ read \in CallType /\ read.adm = c.adm /\ read.aw = c.aw
    <3>1. ticket[k[1]] \in Statuses
      BY <1>1 DEF TypeOK
    <3> QED BY <1>1, <3>1, CallTypes DEF TypeOK, CallType
  <2>2. \A val \in Outcomes \union Errors :
          /\ answered(val) \in CallType /\ answered(val).at = "done"
          /\ answered(val).adm = c.adm /\ answered(val).aw = c.aw
    BY <1>1, CallTypes DEF TypeOK, CallType
  <2> HIDE DEF read, answered, k
  <2>3. CASE \E val \in Outcomes \union Errors :
               /\ record' = record
               /\ calls' = (calls \ {c}) \union
                             (IF c.aw THEN {answered(val)} ELSE {})
    BY <2>2, <2>3
  <2>4. CASE /\ record[k] = "none"
             /\ record' = [record EXCEPT ![k] = "in_progress"]
             /\ calls' = (calls \ {c}) \union {read}
    <3>1. Fine({read})
      BY <2>1, <2>4
    <3> HIDE DEF Fine
    <3> QED BY <3>1
  <2> QED BY <1>3, <2>3, <2>4
<1>5. Sending' /\ calls' \subseteq CallType'
      /\ \A e, f \in calls' : e.aw /\ f.aw /\ e.adm = f.adm => e = f
  BY <1>2, <1>4, CallMoves
<1> HIDE DEF k
<1>6. TypeOK'
  BY <1>1, <1>2, <1>4, <1>5 DEF TypeOK, Ids, RecordStates
<1>7. Claims'
  <2>1. \A a : KeyOf(a)' = KeyOf(a)
    BY <1>2 DEF KeyOf
  <2>2. \A l \in Keys : record'[l] = "none" => record[l] = "none"
    BY <1>1, <1>4 DEF TypeOK
  <2>3. \A e \in calls : KeyOf(e.adm) \in Keys
    BY <1>1, RowTypes, CallTypes
  <2>4. CASE record' = record /\ \A e \in new : e.at = "done"
    BY <1>2, <1>4, <2>1, <2>2, <2>4 DEF ScanInv, Claims
  <2>5. CASE record[k] = "none" /\ record' = [record EXCEPT ![k] = "in_progress"]
    <3>1. k \notin forgotten =>
            marks[k] = 0 /\ \A e \in calls : e.at = "read" => KeyOf(e.adm) # k
      BY <1>1, <2>5 DEF ScanInv, Claims
    <3>2. record'[k] # "none" /\ \A l \in Keys \ {k} : record'[l] = record[l]
      BY <1>1, <2>5 DEF TypeOK
    <3>3. \A e \in new : KeyOf(e.adm) = k
      BY <1>4 DEF k
    <3>4. \A e \in calls' : e \in new \/ e \in calls
      BY <1>4
    <3> QED BY <1>2, <1>4, <2>1, <2>2, <2>3, <3>1, <3>2, <3>3, <3>4
            DEF ScanInv, Claims
  <2> QED BY <1>4, <2>4, <2>5
<1>8. Owned' /\ Retrying' /\ StandingIsAccounted'
  BY <1>2 DEF ScanInv, Owned, Retrying, StandingIsAccounted, Ids
<1> QED BY <1>2, <1>5, <1>6, <1>7, <1>8, CountsStay DEF ScanInv

\* A call is answered, after a scan's transaction or without one.
LEMMA AnswerStep ==
  ASSUME ScanInv, NEW c \in calls, NEW val \in Outcomes \union Errors,
         AnsweredWith(c, val),
         UNCHANGED <<ticket, marks, reverts>> \/ (c.at = "read" /\ Scans(c)),
         \/ record' = record
         \/ \E r \in RecordStates \ {"none"} : Records(c, r),
         payload' \in [Keys -> Operators \union {Nobody}],
         UNCHANGED <<undos, device, admits, late, forgotten>>,
         faults' \subseteq faults
  PROVE  ScanInv'
<1> DEFINE k == KeyOf(c.adm)
           answered == [c EXCEPT !.at = "done", !.val = val]
           new == IF c.aw THEN {answered} ELSE {}
<1>1. TypeOK /\ c.adm \in Ids /\ k \in Keys
  BY RowTypes, CallTypes DEF ScanInv
<1>2. /\ calls' = (calls \ {c}) \union new /\ new \subseteq CallType
      /\ \A e \in new : e.adm = c.adm /\ e.aw = c.aw /\ e.at = "done"
      /\ \A e, f \in new : e = f
  <2>1. /\ answered \in CallType /\ answered.adm = c.adm
        /\ answered.aw = c.aw /\ answered.at = "done"
    BY <1>1, CallTypes DEF TypeOK, CallType
  <2>2. calls' = (calls \ {c}) \union new
    BY DEF AnsweredWith
  <2> HIDE DEF answered
  <2> QED BY <2>1, <2>2
<1> HIDE DEF new
<1>3. Sending' /\ calls' \subseteq CallType'
      /\ \A e, f \in calls' : e.aw /\ f.aw /\ e.adm = f.adm => e = f
  BY <1>2, CallMoves
<1>4. /\ AcceptedOnce' /\ reverts' = reverts
      /\ ticket' \in [Tickets -> Statuses] /\ marks' \in [Keys -> Nat]
      /\ \A l \in Keys \ {k} : marks'[l] = marks[l]
      /\ c.at # "read" => marks'[k] = marks[k]
      /\ marks'[k] \in {marks[k], marks[k] + 1}
  BY <1>1, CountsStay, ScansOnce DEF TypeOK
<1>5. /\ record' \in [Keys -> RecordStates]
      /\ \A l \in Keys : record'[l] = "none" => record[l] = "none"
  BY <1>1 DEF TypeOK, Records
<1>6. /\ UNCHANGED <<undos, admits, late, forgotten>>
      /\ UNCHANGED <<user, online, shown, pass, retry>>
  BY DEF device
<1> HIDE DEF k
<1>7. TypeOK'
  BY <1>1, <1>3, <1>4, <1>5, <1>6 DEF TypeOK, Ids
<1>8. Claims'
  <2>1. \A a : KeyOf(a)' = KeyOf(a)
    BY <1>6 DEF KeyOf
  <2>2. \A e \in calls : KeyOf(e.adm) \in Keys
    BY <1>1, RowTypes, CallTypes
  <2>3. \A e \in calls' : e.at = "read" => e \in calls /\ e # c
    BY <1>2
  <2>4. \A l \in Keys \ forgotten :
          marks'[l] <= 1 /\ (record'[l] = "none" => marks'[l] = 0)
    <3>1. \A l \in Keys \ forgotten : /\ marks[l] \in Nat /\ marks[l] <= 1
                                      /\ record[l] = "none" => marks[l] = 0
      BY <1>1 DEF ScanInv, Claims, TypeOK
    <3>2. c.at = "read" /\ k \notin forgotten =>
            marks[k] = 0 /\ record[k] # "none"
      BY DEF ScanInv, Claims, k
    <3> QED BY <1>1, <1>4, <1>5, <3>1, <3>2
  <2>5. \A e \in calls' : e.at = "read" /\ KeyOf(e.adm) \notin forgotten =>
          marks'[KeyOf(e.adm)] = 0 /\ record'[KeyOf(e.adm)] # "none"
    <3> SUFFICES ASSUME NEW e \in calls', e.at = "read",
                        KeyOf(e.adm) \notin forgotten
                 PROVE  /\ marks'[KeyOf(e.adm)] = 0
                        /\ record'[KeyOf(e.adm)] # "none"
      OBVIOUS
    <3>1. /\ e \in calls /\ e # c /\ KeyOf(e.adm) \in Keys
          /\ marks[KeyOf(e.adm)] = 0 /\ record[KeyOf(e.adm)] # "none"
      BY <2>2, <2>3 DEF ScanInv, Claims
    <3>2. c.at = "read" => KeyOf(e.adm) # k
      BY <3>1 DEF ScanInv, Claims, k
    <3> QED BY <1>4, <1>5, <3>1, <3>2
  <2>6. \A e, f \in calls' :
          /\ e.at = "read" /\ f.at = "read"
          /\ KeyOf(e.adm) = KeyOf(f.adm) /\ KeyOf(e.adm) \notin forgotten
          => e = f
    BY <2>3 DEF ScanInv, Claims
  <2> QED BY <1>6, <2>1, <2>4, <2>5, <2>6 DEF Claims
<1>9. Owned' /\ Retrying' /\ StandingIsAccounted'
  BY <1>6 DEF ScanInv, Owned, Retrying, StandingIsAccounted, Ids
<1> QED BY <1>3, <1>4, <1>7, <1>8, <1>9 DEF ScanInv

\* The scan's own steps, and what can go wrong with it.
LEMMA ServerStep ==
  ASSUME ScanInv, NEW c \in calls, Finish(c) \/ Throws(c) \/ Lost(c)
  PROVE  ScanInv'
<1>0. TypeOK /\ payload \in [Keys -> Operators \union {Nobody}]
  BY DEF ScanInv, TypeOK
<1>1. Outcome(c) \in Outcomes
  BY DEF Outcome, Outcomes
<1>2. CASE Finish(c)
  <2>1. Outcome(c) \in RecordStates \ {"none"}
    BY <1>1 DEF RecordStates, Outcomes
  <2>2. payload' \in [Keys -> Operators \union {Nobody}]
    BY <1>0, <1>2, CallTypes DEF Finish, TypeOK
  <2> QED BY <1>1, <1>2, <2>1, <2>2, AnswerStep DEF Finish, Kept, history
<1>3. CASE Throws(c)
  <2>1. "failed" \in RecordStates \ {"none"} /\ {"error", "refused"} \subseteq Errors
    BY DEF RecordStates, Errors
  <2> QED BY <1>0, <1>3, <2>1, AnswerStep DEF Throws, Disturbed
<1>4. CASE Lost(c)
  <2>1. "network" \in Errors /\ faults' \subseteq faults
    BY <1>4 DEF Lost, Errors, Disturbed
  <2> QED BY <1>0, <1>4, <2>1, AnswerStep DEF Lost, server
<1> QED BY <1>2, <1>3, <1>4

\* The end of a claim.
LEMMA LapseStep ==
  ASSUME ScanInv, NEW k \in Keys, Lapse(k)
  PROVE  ScanInv'
<1>1. /\ record' = [record EXCEPT ![k] = "none"] /\ faults' \subseteq faults
      /\ forgotten' = IF Running(k) \/ marks[k] > 0
                      THEN forgotten \union {k} ELSE forgotten
      /\ UNCHANGED <<ticket, payload, marks, reverts, calls, undos, user, online,
                     shown, pass, retry, admits, late>>
  BY DEF Lapse, Disturbed, device
<1>2. TypeOK'
  BY <1>1 DEF ScanInv, TypeOK, Ids, CallType, RecordStates
<1>3. Sending' /\ Retrying' /\ Owned' /\ StandingIsAccounted'
  BY <1>1 DEF ScanInv, Sending, Retrying, Owned, StandingIsAccounted, Ids
<1>4. Claims'
  <2>1. /\ \A a : KeyOf(a)' = KeyOf(a)
        /\ forgotten \subseteq forgotten' /\ record \in [Keys -> RecordStates]
        /\ marks[k] \in Nat
    BY <1>1 DEF KeyOf, ScanInv, TypeOK
  <2>2. k \notin forgotten' =>
          marks[k] = 0 /\ \A c \in calls : c.at = "read" => KeyOf(c.adm) # k
    BY <1>1, <2>1 DEF Running
  <2>3. \A l : l # k => record'[l] = record[l]
    BY <1>1, <2>1
  <2>4. \A c \in calls : KeyOf(c.adm) \in Keys
    BY RowTypes, CallTypes DEF ScanInv
  <2> QED BY <1>1, <2>1, <2>2, <2>3, <2>4 DEF ScanInv, Claims
<1> QED BY <1>1, <1>2, <1>3, <1>4, CountsStay DEF ScanInv

-----------------------------------------------------------------------------
(* The scanner.  Its steps leave the server and the claims alone: they send *)
(* calls, hear their answers, or leave them to themselves.                  *)

\* The calls that are left when some are gone, of which some run on unawaited,
\* and some are new.
CallsNow(gone, off, new) ==
  (calls \ gone) \union {[c EXCEPT !.aw = FALSE] : c \in off} \union new

LEMMA CallsChange ==
  ASSUME ScanInv, NEW gone \in SUBSET calls, NEW off \in SUBSET gone,
         NEW new \in SUBSET CallType',
         calls' = CallsNow(gone, off, new),
         \A c, e \in new : c = e,
         \A c \in new : c.at # "read"
           /\ \A e \in calls \ gone : e.aw => e.adm # c.adm,
         UNCHANGED <<record, marks, forgotten>>, Ids \subseteq Ids',
         \A a \in Ids : KeyOf(a)' = KeyOf(a)
  PROVE  /\ calls' \subseteq CallType' /\ Claims'
         /\ \A c, e \in calls' : c.aw /\ e.aw /\ c.adm = e.adm => c = e
         /\ \A c \in calls' : c.aw => c \in calls \ gone \/ c \in new
<1>1. TypeOK /\ calls \subseteq CallType
  BY DEF ScanInv, TypeOK
<1> DEFINE turned(c) == [c EXCEPT !.aw = FALSE]
<1>2. \A c \in off : /\ turned(c) \in CallType /\ turned(c).aw = FALSE
                     /\ turned(c).adm = c.adm /\ turned(c).at = c.at
  <2> SUFFICES ASSUME NEW c \in off
               PROVE  /\ turned(c) \in CallType /\ turned(c).aw = FALSE
                      /\ turned(c).adm = c.adm /\ turned(c).at = c.at
    OBVIOUS
  <2>1. c \in CallType
    BY <1>1
  <2> QED BY <2>1 DEF CallType
<1>3. CallType \subseteq CallType'
  BY DEF CallType
<1>4. calls' = (calls \ gone) \union {turned(c) : c \in off} \union new
  BY DEF CallsNow
<1> HIDE DEF turned
<1>5. calls' \subseteq CallType'
  BY <1>1, <1>2, <1>3, <1>4
<1>6. \A c \in calls' : c.aw => c \in calls \ gone \/ c \in new
  BY <1>2, <1>4
<1>7. \A c, e \in calls' : c.aw /\ e.aw /\ c.adm = e.adm => c = e
  BY <1>1, <1>6 DEF TypeOK
<1>8. Claims'
  <2>1. \A c \in calls' : c.at = "read" =>
          \/ c \in calls \ gone
          \/ \E e \in off : c = turned(e) /\ e.at = "read" /\ e.adm = c.adm
    BY <1>2, <1>4
  <2>2. \A c \in calls : c.adm \in Ids
    BY <1>1 DEF CallType
  <2>3. \A c \in calls' : c.at = "read" /\ KeyOf(c.adm)' \notin forgotten =>
          marks'[KeyOf(c.adm)'] = 0 /\ record'[KeyOf(c.adm)'] # "none"
    BY <2>1, <2>2 DEF ScanInv, Claims
  <2>4. ASSUME NEW c \in calls', NEW e \in calls', c.at = "read", e.at = "read",
               KeyOf(c.adm)' = KeyOf(e.adm)', KeyOf(c.adm)' \notin forgotten
        PROVE  c = e
    <3>1. PICK b \in calls : /\ b.at = "read" /\ b.adm = c.adm
                             /\ \/ b \notin gone /\ c = b
                                \/ b \in off /\ c = turned(b)
      BY <2>1, <2>4
    <3>2. PICK f \in calls : /\ f.at = "read" /\ f.adm = e.adm
                             /\ \/ f \notin gone /\ e = f
                                \/ f \in off /\ e = turned(f)
      BY <2>1, <2>4
    <3>3. b = f
      BY <2>2, <2>4, <3>1, <3>2 DEF ScanInv, Claims
    <3> QED BY <3>1, <3>2, <3>3
  <2> QED BY <2>3, <2>4 DEF ScanInv, Claims
<1> QED BY <1>5, <1>6, <1>7, <1>8

\* One row changes, and neither its ticket nor its operator.
LEMMA RowChanges ==
  ASSUME ScanInv, NEW a \in Ids, NEW row \in AdmitType,
         admits' = [admits EXCEPT ![a] = row],
         row.t = admits[a].t, row.op = admits[a].op, row.dev = admits[a].dev
  PROVE  /\ admits' \in Seq(AdmitType) /\ Len(admits') = Len(admits)
         /\ Ids' = Ids /\ admits'[a] = row
         /\ \A b \in Ids \ {a} : admits'[b] = admits[b]
         /\ \A b \in Ids : KeyOf(b)' = KeyOf(b)
<1>1. TypeOK /\ admits \in [Ids -> AdmitType]
  BY RowTypes DEF ScanInv
<1>2. /\ admits' \in [Ids -> AdmitType] /\ admits'[a] = row
      /\ \A b \in Ids \ {a} : admits'[b] = admits[b]
  BY <1>1
<1>3. admits' \in Seq(AdmitType) /\ Len(admits') = Len(admits) /\ Ids' = Ids
  BY <1>1, <1>2, RowsChange DEF Ids
<1> QED BY <1>2, <1>3 DEF KeyOf

\* The server's ledger is as it was, or has been brought along.
Ledger ==
  /\ UNCHANGED <<record, payload, marks, forgotten>> /\ AcceptedOnce'
  /\ ticket' \in [Tickets -> Statuses] /\ reverts' \in [Tickets -> Nat]

\* Where a row that stands without an answer is accounted for.
Accounted == {"live", "queued", "dropped", "dismissed", "lost", "unsaved"}

\* One row changes into one that still accounts for itself.
RowTurns(a, row) ==
  /\ admits' = [admits EXCEPT ![a] = row] /\ row \in AdmitType
  /\ row.t = admits[a].t /\ row.op = admits[a].op /\ row.dev = admits[a].dev
  /\ \/ row.mark # "wiped"
     \/ row.place \in {"queued", "dropped"} /\ row.dev \notin late'
     => row.op = user[row.dev]
  /\ row.mark = "stands" /\ row.heard = "none" =>
       row.place \in Accounted \/ row = admits[a]
  /\ admits[a].mark = "undone" => row.mark = "undone"
  /\ row.place \in {"live", "queued"} => admits[a].place \in {"live", "queued"}

\* The calls for it change.
CallsTurn(a, row, gone, off, new) ==
  /\ gone \subseteq calls /\ off \subseteq gone /\ new \subseteq {Call(a)}
  /\ calls' = CallsNow(gone, off, new)
  /\ new = {} \/ \A e \in calls \ gone : e.aw => e.adm # a
  /\ row.place = "queued" /\ row.tries >= MaxAttempts =>
       new = {} /\ \A e \in calls \ gone : e.aw => e.adm # a

\* Retries go on over rows that are past their passes.
RetryTurns ==
  /\ retry' \in [Devices -> [rows : Seq(Ids), again : BOOLEAN]]
  /\ \A d \in Devices : \A i \in DOMAIN retry'[d].rows :
       /\ retry'[d].rows[i] \in Ids
       /\ admits[retry'[d].rows[i]].place \notin {"live", "queued"}

LEMMA RetryStays ==
  ASSUME ScanInv
  PROVE  /\ retry' = retry => RetryTurns
         /\ \A d \in Devices : \A i \in DOMAIN retry[d].rows :
              retry[d].rows[i] \in Ids
<1>1. \A d \in Devices : retry[d].rows \in Seq(Ids)
  BY DEF ScanInv, TypeOK
<1>2. \A d \in Devices : \A i \in DOMAIN retry[d].rows : retry[d].rows[i] \in Ids
  BY <1>1
<1> QED BY <1>2 DEF RetryTurns, ScanInv, TypeOK, Retrying

\* The rest of the door goes on within its types.
DoorTurns ==
  /\ user' = user /\ online' = online /\ undos' \subseteq undos
  /\ faults' \subseteq faults /\ late \subseteq late' /\ late' \subseteq Devices
  /\ shown' \in [Devices -> SUBSET Tickets] /\ pass' \in [Devices -> Seq(Ids)]
  /\ RetryTurns

\* A call that is made runs, or has failed for want of a connection.
LEMMA CallMade ==
  ASSUME TypeOK, NEW d \in Devices, NEW a \in Ids'
  PROVE  /\ CallFrom(d, a) \in CallType' /\ CallFrom(d, a).at # "read"
         /\ CallFrom(d, a).adm = a /\ CallFrom(d, a).aw
<1>1. user[d] \in Operators \union {Nobody}
  BY DEF TypeOK
<1> QED BY <1>1 DEF CallFrom, CallType, Errors

LEMMA RowStep ==
  ASSUME ScanInv, Ledger, DoorTurns, NEW a \in Ids, NEW row, RowTurns(a, row),
         NEW gone, NEW off, NEW new, CallsTurn(a, row, gone, off, new)
  PROVE  ScanInv'
<1>1. /\ TypeOK
      /\ admits' \in Seq(AdmitType) /\ Len(admits') = Len(admits)
      /\ Ids' = Ids /\ admits'[a] = row
      /\ \A b \in Ids \ {a} : admits'[b] = admits[b]
      /\ \A b \in Ids : KeyOf(b)' = KeyOf(b)
  BY RowChanges DEF ScanInv, RowTurns
<1>2. \A c \in new : c \in CallType' /\ c.at # "read" /\ c.adm = a /\ c.aw
  <2>1. admits[a].dev \in Devices
    BY <1>1, RowTypes DEF AdmitType
  <2>2. /\ Call(a) \in CallType' /\ Call(a).at # "read" /\ Call(a).adm = a
        /\ Call(a).aw
    BY <1>1, <2>1, CallMade DEF Call
  <2> QED BY <2>2 DEF CallsTurn
<1>3. /\ calls' \subseteq CallType' /\ Claims'
      /\ \A c, e \in calls' : c.aw /\ e.aw /\ c.adm = e.adm => c = e
      /\ \A c \in calls' : c.aw => c \in calls \ gone \/ c \in new
  <2>1. /\ \A c, e \in new : c = e
        /\ \A c \in new : c.at # "read"
             /\ \A e \in calls \ gone : e.aw => e.adm # c.adm
        /\ gone \in SUBSET calls /\ off \in SUBSET gone
        /\ new \in SUBSET CallType' /\ Ids \subseteq Ids'
        /\ calls' = CallsNow(gone, off, new)
        /\ UNCHANGED <<record, marks, forgotten>>
        /\ \A b \in Ids : KeyOf(b)' = KeyOf(b)
    BY <1>1, <1>2 DEF Ledger, CallsTurn
  <2> QED BY <2>1, CallsChange
<1>4. TypeOK'
  BY <1>1, <1>3 DEF TypeOK, Ledger, DoorTurns, RetryTurns
<1>5. Sending'
  <2> SUFFICES ASSUME NEW c \in calls', c.aw, admits'[c.adm].place = "queued"
               PROVE  admits'[c.adm].tries < MaxAttempts
    BY DEF Sending
  <2>1. CASE c.adm = a
    <3>1. MaxAttempts \in Nat /\ row.tries \in Nat
      BY ScanAssumptions DEF RowTurns, AdmitType
    <3> QED BY <1>1, <1>2, <1>3, <2>1, <3>1 DEF CallsTurn
  <2>2. CASE c.adm # a
    <3>1. c \in calls /\ c.adm \in Ids
      BY <1>1, <1>2, <1>3, <2>2, CallTypes
    <3> QED BY <1>1, <2>2, <3>1 DEF ScanInv, Sending
  <2> QED BY <2>1, <2>2
<1>6. Owned'
  BY <1>1 DEF ScanInv, Owned, RowTurns, DoorTurns
<1>7. StandingIsAccounted'
  <2> SUFFICES ASSUME NEW b \in Ids,
                      admits'[b].mark = "stands" /\ admits'[b].heard = "none",
                      admits'[b].place \notin Accounted
               PROVE  /\ admits'[b].place = "cancelled"
                      /\ \E e \in Ids : /\ admits'[e].mark = "undone"
                                        /\ admits'[e].dev = admits'[b].dev
                                        /\ admits'[e].t = admits'[b].t
    BY <1>1 DEF StandingIsAccounted, Accounted
  <2>1. admits'[b] = admits[b]
    BY <1>1 DEF RowTurns
  <2>2. /\ admits[b].place = "cancelled"
        /\ \E e \in Ids : /\ admits[e].mark = "undone"
                          /\ admits[e].dev = admits[b].dev
                          /\ admits[e].t = admits[b].t
    BY <2>1 DEF ScanInv, StandingIsAccounted, Accounted
  <2>3. PICK e \in Ids : /\ admits[e].mark = "undone"
                         /\ admits[e].dev = admits[b].dev
                         /\ admits[e].t = admits[b].t
    BY <2>2
  <2>4. /\ admits'[e].mark = "undone" /\ admits'[e].dev = admits[e].dev
        /\ admits'[e].t = admits[e].t
    BY <1>1, <2>3 DEF RowTurns
  <2> QED BY <2>1, <2>2, <2>3, <2>4
<1>8. Retrying'
  BY <1>1 DEF Retrying, RowTurns, DoorTurns, RetryTurns
<1> QED BY <1>3, <1>4, <1>5, <1>6, <1>7, <1>8 DEF ScanInv, Ledger

\* The rows stay, and the calls for them.
LEMMA RowsStay ==
  ASSUME ScanInv, Ledger, UNCHANGED <<admits, calls, user, late>>,
         online' \subseteq Devices, undos' \subseteq Ids, faults' \subseteq faults,
         shown' \in [Devices -> SUBSET Tickets], pass' \in [Devices -> Seq(Ids)],
         RetryTurns
  PROVE  ScanInv'
<1>1. Ids' = Ids /\ CallType' = CallType /\ \A a \in Ids : KeyOf(a)' = KeyOf(a)
  BY DEF Ids, CallType, KeyOf
<1>2. TypeOK'
  BY <1>1 DEF ScanInv, TypeOK, Ledger, RetryTurns
<1>3. \A c \in calls : c.adm \in Ids
  BY CallTypes DEF ScanInv
<1>4. Sending' /\ Claims' /\ Owned' /\ StandingIsAccounted'
  BY <1>1, <1>3
     DEF ScanInv, Ledger, Sending, Claims, Owned, StandingIsAccounted
<1>5. Retrying'
  BY DEF Retrying, RetryTurns
<1> QED BY <1>2, <1>4, <1>5 DEF ScanInv, Ledger

LEMMA LedgerStays ==
  ASSUME ScanInv, UNCHANGED <<server, forgotten>>
  PROVE  Ledger
BY CountsStay DEF ScanInv, TypeOK, Ledger, server

\* Rows in the order they were queued, as a sequence.
LEMMA RowsInOrder ==
  ASSUME TypeOK, NEW rows \in SUBSET Ids, NEW q \in InOrder(rows)
  PROVE  q \in Seq(Ids) /\ \A i \in DOMAIN q : q[i] \in rows
<1>1. Ids = 1..Len(admits) /\ Len(admits) \in Nat
  BY RowTypes
<1>2. Cardinality(rows) \in Nat
  <2>1. IsFiniteSet(1..Len(admits))
    BY <1>1, FS_Interval
  <2>2. rows \in SUBSET (1..Len(admits))
    BY <1>1
  <2> QED BY <2>1, <2>2, FS_Subset, FS_CardinalityType
<1>3. q \in [1..Cardinality(rows) -> rows]
  BY DEF InOrder
<1> QED BY <1>2, <1>3, SeqDef

\* How a pass goes on.
LEMMA Passing ==
  ASSUME TypeOK, NEW d \in Devices, pass[d] # <<>>
  PROVE  /\ Head(pass[d]) \in Ids /\ pass \in [Devices -> Seq(Ids)]
         /\ [pass EXCEPT ![d] = Tail(@)] \in [Devices -> Seq(Ids)]
         /\ [pass EXCEPT ![d] = <<>>] \in [Devices -> Seq(Ids)]
<1>1. pass \in [Devices -> Seq(Ids)]
  BY DEF TypeOK
<1>2. Head(pass[d]) \in Ids /\ Tail(pass[d]) \in Seq(Ids) /\ <<>> \in Seq(Ids)
  BY <1>1, HeadTailProperties, EmptySeq
<1> QED BY <1>1, <1>2

\* The local copy of a row's ticket.
LEMMA Showing ==
  ASSUME TypeOK, NEW a \in Ids, ShowsAgain(a)
  PROVE  shown' \in [Devices -> SUBSET Tickets]
<1>1. admits[a].dev \in Devices /\ admits[a].t \in Tickets
  BY RowTypes DEF AdmitType
<1> QED BY <1>1 DEF TypeOK, ShowsAgain

-----------------------------------------------------------------------------
(* An admission's own call.                                                *)

\* The call that a row awaits is heard; no other call is awaited for it.
LEMMA Heard ==
  ASSUME TypeOK, NEW c \in calls, c.aw
  PROVE  /\ calls \ {c} = CallsNow({c}, {}, {})
         /\ (calls \ {c}) \union {Call(c.adm)} = CallsNow({c}, {}, {Call(c.adm)})
         /\ (calls \ {c}) \union {[c EXCEPT !.aw = FALSE]} = CallsNow({c}, {c}, {})
         /\ \A e \in calls \ {c} : e.aw => e.adm # c.adm
         /\ c.adm \in Ids /\ admits[c.adm] \in AdmitType
BY RowTypes, CallTypes DEF CallsNow, TypeOK

LEMMA LiveSettlesStep ==
  ASSUME ScanInv, NEW c \in calls, LiveSettles(c)
  PROVE  ScanInv'
<1> DEFINE a == c.adm
           heard == IF c.val \in Outcomes THEN c.val ELSE "none"
           settled == [admits[a] EXCEPT !.place = "settled", !.heard = heard]
           refused == Marked(settled, "refused")
           unsaved == [settled EXCEPT !.place = "unsaved"]
<1>1. TypeOK /\ c.aw /\ a \in Ids /\ admits[a] \in AdmitType
  BY Heard DEF LiveSettles, ScanInv
<1>2. /\ heard \in Outcomes \union {"none"}
      /\ settled \in AdmitType /\ unsaved \in AdmitType /\ refused \in AdmitType
  <2>1. heard \in Outcomes \union {"none"}
    OBVIOUS
  <2> HIDE DEF heard
  <2> QED BY <1>1, <2>1 DEF AdmitType, Marked, Marks, Places
<1> DEFINE OneOf(row) == \/ row = settled /\ c.val = "ACCEPTED"
                         \/ row = refused \/ row = unsaved
<1>3. PICK row : OneOf(row) /\ admits' = [admits EXCEPT ![a] = row]
  <2>1. \/ admits' = [admits EXCEPT ![a] = settled] /\ OneOf(settled)
        \/ admits' = [admits EXCEPT ![a] = refused] /\ OneOf(refused)
        \/ admits' = [admits EXCEPT ![a] = unsaved] /\ OneOf(unsaved)
    BY DEF LiveSettles
  <2> HIDE DEF OneOf, settled, refused, unsaved
  <2> QED BY <2>1
<1>4. /\ row \in AdmitType /\ row.place \in {"settled", "unsaved"}
      /\ row.t = admits[a].t /\ row.op = admits[a].op /\ row.dev = admits[a].dev
      /\ row.mark # "wiped" => admits[a].mark # "wiped"
      /\ admits[a].mark = "undone" => row.mark = "undone"
      /\ row.mark = "stands" => row.heard # "none" \/ row.place = "unsaved"
  <2>1. c.val = "ACCEPTED" => settled.heard # "none"
    BY <1>1 DEF AdmitType, Outcomes
  <2> HIDE DEF heard
  <2> QED BY <1>1, <1>2, <1>3, <2>1 DEF AdmitType, Marked
<1> HIDE DEF OneOf, settled, refused, unsaved
<1>5. /\ calls' = calls \ {c} /\ Ledger /\ faults' \subseteq faults
      /\ UNCHANGED <<undos, user, online, pass, retry, late, forgotten>>
  BY LedgerStays DEF LiveSettles, Disturbed
<1>6. shown' \in [Devices -> SUBSET Tickets]
  BY <1>1, Showing DEF LiveSettles, TypeOK
<1>7. RowTurns(a, row)
  BY <1>1, <1>3, <1>4, <1>5 DEF ScanInv, Owned, RowTurns, Accounted
<1>8. CallsTurn(a, row, {c}, {}, {})
  BY <1>1, <1>4, <1>5, Heard DEF CallsTurn
<1>9. DoorTurns
  BY <1>1, <1>5, <1>6, RetryStays DEF DoorTurns, TypeOK
<1> QED BY <1>1, <1>5, <1>7, <1>8, <1>9, RowStep

LEMMA LiveRetriesStep ==
  ASSUME ScanInv, NEW c \in calls, LiveRetries(c)
  PROVE  ScanInv'
<1> DEFINE a == c.adm
           row == [admits[a] EXCEPT !.tries = 1]
<1>1. TypeOK /\ c.aw /\ a \in Ids /\ admits[a] \in AdmitType
  BY Heard DEF LiveRetries, ScanInv
<1>2. /\ row \in AdmitType /\ row.mark = admits[a].mark
      /\ row.place = "live" /\ admits[a].place = "live"
      /\ row.t = admits[a].t /\ row.op = admits[a].op /\ row.dev = admits[a].dev
  BY <1>1, ScanAssumptions DEF AdmitType, LiveRetries
<1>3. /\ admits' = [admits EXCEPT ![a] = row]
      /\ calls' = (calls \ {c}) \union {Call(a)} /\ Ledger
      /\ UNCHANGED <<undos, user, online, shown, pass, retry, late, faults>>
  BY LedgerStays DEF LiveRetries, history, device
<1>4. RowTurns(a, row)
  BY <1>1, <1>2, <1>3 DEF ScanInv, Owned, RowTurns, Accounted
<1>5. CallsTurn(a, row, {c}, {}, {Call(a)})
  BY <1>1, <1>2, <1>3, Heard DEF CallsTurn
<1>6. DoorTurns
  BY <1>1, <1>3, RetryStays DEF DoorTurns, TypeOK
<1> QED BY <1>1, <1>3, <1>4, <1>5, <1>6, RowStep

LEMMA LiveQueuesStep ==
  ASSUME ScanInv, NEW c \in calls, LiveQueues(c)
  PROVE  ScanInv'
<1> DEFINE a == c.adm
           queued == [admits[a] EXCEPT !.place = "queued", !.tries = 0]
           unsaved == [admits[a] EXCEPT !.place = "unsaved"]
<1>1. TypeOK /\ c.aw /\ a \in Ids /\ admits[a] \in AdmitType
  BY Heard DEF LiveQueues, ScanInv
<1>2. PICK row \in {queued, unsaved} :
        /\ admits' = [admits EXCEPT ![a] = row]
        /\ \/ /\ row = unsaved /\ late' = late
           \/ late' = IF admits[a].mark = "wiped"
                      THEN late \union {admits[a].dev} ELSE late
  BY DEF LiveQueues, Goes
<1>3. /\ row \in AdmitType /\ row.mark = admits[a].mark
      /\ \/ row.place = "queued" /\ row.tries = 0 /\ row = queued
         \/ row.place = "unsaved"
      /\ row.t = admits[a].t /\ row.op = admits[a].op /\ row.dev = admits[a].dev
  <2>1. 0 \in 0..MaxAttempts
    BY ScanAssumptions
  <2> QED BY <1>1, <1>2, <2>1 DEF AdmitType, Places
<1>4. /\ calls' = calls \ {c} /\ Ledger /\ admits[a].place = "live"
      /\ faults' \subseteq faults
      /\ UNCHANGED <<undos, user, online, shown, pass, retry>>
  BY LedgerStays DEF LiveQueues, device, Disturbed
<1>5. RowTurns(a, row)
  <2>1. queued.place # unsaved.place
    BY <1>1 DEF AdmitType
  <2>2. row.place = "queued" => late' = IF admits[a].mark = "wiped"
                                        THEN late \union {admits[a].dev} ELSE late
    BY <1>1, <1>2, <1>3, <2>1
  <2> HIDE DEF queued, unsaved
  <2> QED BY <1>1, <1>2, <1>3, <1>4, <2>2 DEF ScanInv, Owned, RowTurns, Accounted
<1> HIDE DEF queued, unsaved
<1>6. CallsTurn(a, row, {c}, {}, {})
  BY <1>1, <1>3, <1>4, Heard, ScanAssumptions DEF CallsTurn
<1>7. DoorTurns
  BY <1>1, <1>2, <1>4, RetryStays DEF DoorTurns, TypeOK, AdmitType
<1> QED BY <1>1, <1>4, <1>5, <1>6, <1>7, RowStep

\* Several rows change at once, none into a queued one.
RowsTurn ==
  /\ admits' \in [Ids -> AdmitType] /\ Owned' /\ StandingIsAccounted'
  /\ \A b \in Ids :
       /\ admits'[b].t = admits[b].t /\ admits'[b].op = admits[b].op
       /\ admits'[b].place = "queued" =>
            admits[b].place = "queued" /\ admits'[b].tries = admits[b].tries
       /\ admits'[b].place = "live" => admits[b].place = "live"

\* Calls are left to themselves or forgotten.
CallsEnd ==
  \E gone, off : /\ gone \subseteq calls /\ off \subseteq gone
                 /\ calls' = CallsNow(gone, off, {})

\* The door keeps its types, with another operator perhaps.
DoorChanges ==
  /\ user' \in [Devices -> Operators \union {Nobody}] /\ UNCHANGED <<online, late>>
  /\ undos' \subseteq undos /\ faults' \subseteq faults
  /\ shown' \in [Devices -> SUBSET Tickets] /\ pass' \in [Devices -> Seq(Ids)]
  /\ RetryTurns

LEMMA RowsStep ==
  ASSUME ScanInv, Ledger, RowsTurn, CallsEnd, DoorChanges
  PROVE  ScanInv'
<1>1. TypeOK
  BY DEF ScanInv
<1>2. admits' \in Seq(AdmitType) /\ Len(admits') = Len(admits) /\ Ids' = Ids
  BY <1>1, RowsChange DEF Ids, RowsTurn
<1>3. \A b \in Ids : KeyOf(b)' = KeyOf(b)
  BY DEF KeyOf, RowsTurn
<1>4. /\ calls' \subseteq CallType' /\ Claims'
      /\ \A c, e \in calls' : c.aw /\ e.aw /\ c.adm = e.adm => c = e
      /\ \A c \in calls' : c.aw => c \in calls
  <2> PICK gone, off : /\ gone \subseteq calls /\ off \subseteq gone
                       /\ calls' = CallsNow(gone, off, {})
    BY DEF CallsEnd
  <2>1. /\ gone \in SUBSET calls /\ off \in SUBSET gone
        /\ UNCHANGED <<record, marks, forgotten>> /\ Ids \subseteq Ids'
    BY <1>2 DEF Ledger
  <2> DEFINE new == {}
  <2>2. /\ \A c, e \in new : c = e
        /\ \A c \in new : c.at # "read"
             /\ \A e \in calls \ gone : e.aw => e.adm # c.adm
        /\ new \in SUBSET CallType' /\ calls' = CallsNow(gone, off, new)
    OBVIOUS
  <2>3. \A c : c \notin new
    OBVIOUS
  <2> HIDE DEF new
  <2>4. /\ calls' \subseteq CallType' /\ Claims'
        /\ \A c, e \in calls' : c.aw /\ e.aw /\ c.adm = e.adm => c = e
        /\ \A c \in calls' : c.aw => c \in calls \ gone \/ c \in new
    BY <1>3, <2>1, <2>2, CallsChange
  <2> QED BY <2>3, <2>4
<1>5. TypeOK'
  BY <1>1, <1>2, <1>4 DEF TypeOK, Ledger, DoorChanges, RetryTurns
<1>6. Sending'
  BY <1>1, <1>4, CallTypes DEF ScanInv, Sending, RowsTurn
<1>7. Retrying'
  BY DEF Retrying, RowsTurn, DoorChanges, RetryTurns
<1> QED BY <1>4, <1>5, <1>6, <1>7 DEF ScanInv, Ledger, RowsTurn

\* Calls that nobody awaits any more.
LEMMA Unhearing ==
  ASSUME NEW those \in SUBSET calls, calls' = Unheard(those)
  PROVE  CallsEnd
<1> DEFINE running == {e \in those : e.at # "done"}
<1>1. calls' = CallsNow(those, running, {})
  BY DEF Unheard, CallsNow
<1>2. those \subseteq calls /\ running \subseteq those
  OBVIOUS
<1> HIDE DEF running
<1> QED BY <1>1, <1>2 DEF CallsEnd

-----------------------------------------------------------------------------
(* The queue and the failed-sync list.                                     *)

LEMMA PassOverStep ==
  ASSUME ScanInv, NEW d \in Devices, PassOver(d)
  PROVE  ScanInv'
<1> DEFINE a == Head(pass[d])
<1>1. /\ TypeOK /\ a \in Ids /\ admits[a] \in AdmitType
      /\ admits \in [Ids -> AdmitType] /\ pass' \in [Devices -> Seq(Ids)]
  BY Passing, RowTypes DEF PassOver, ScanInv, Moves
<1> DEFINE given(place) == [admits[a] EXCEPT !.place = place]
<1>2. PICK row \in {given("dropped"), given("unsaved"), admits[a]} :
        /\ admits' = [admits EXCEPT ![a] = row]
        /\ row = admits[a] => row.place # "queued"
        /\ row # admits[a] => admits[a].place = "queued"
  <2>1. \/ admits' = admits /\ admits[a].place # "queued"
        \/ /\ admits[a].place = "queued"
           /\ \/ admits' = [admits EXCEPT ![a] = given("dropped")]
              \/ admits' = [admits EXCEPT ![a] = given("unsaved")]
    BY DEF PassOver, Dropped, Goes, IsQueued
  <2>2. admits = [admits EXCEPT ![a] = admits[a]]
    BY <1>1
  <2>3. given("dropped").place # "queued" /\ given("unsaved").place # "queued"
    BY <1>1 DEF AdmitType
  <2> HIDE DEF given
  <2> QED BY <2>1, <2>2, <2>3
<1>3. /\ row \in AdmitType /\ row.mark = admits[a].mark
      /\ \/ row.place \in {"dropped", "unsaved"} /\ admits[a].place = "queued"
         \/ row = admits[a]
      /\ row.place # "queued"
      /\ row.t = admits[a].t /\ row.op = admits[a].op /\ row.dev = admits[a].dev
  BY <1>1, <1>2 DEF AdmitType, Places
<1>4. /\ Ledger /\ faults' \subseteq faults
      /\ UNCHANGED <<calls, undos, user, online, shown, retry, late>>
  BY LedgerStays DEF PassOver, Dropped, Disturbed
<1> HIDE DEF a, given
<1>5. RowTurns(a, row)
  BY <1>1, <1>2, <1>3, <1>4 DEF ScanInv, Owned, RowTurns, Accounted
<1>6. CallsTurn(a, row, {}, {}, {})
  BY <1>3, <1>4 DEF CallsTurn, CallsNow
<1>7. DoorTurns
  BY <1>1, <1>4, RetryStays DEF DoorTurns, TypeOK
<1> QED BY <1>1, <1>4, <1>5, <1>6, <1>7, RowStep

LEMMA SendStep ==
  ASSUME ScanInv, NEW d \in Devices, Send(d)
  PROVE  ScanInv'
<1> DEFINE a == Head(pass[d])
<1>1. /\ TypeOK /\ a \in Ids /\ admits[a] \in AdmitType
      /\ admits \in [Ids -> AdmitType]
  BY Passing, RowTypes DEF Send, ScanInv
<1>2. /\ admits' = [admits EXCEPT ![a] = admits[a]] /\ Ledger
      /\ calls' = calls \union {Call(a)}
      /\ UNCHANGED <<undos, user, online, shown, pass, retry, late, faults>>
  BY <1>1, LedgerStays DEF Send, history, device
<1>3. RowTurns(a, admits[a])
  BY <1>1, <1>2 DEF ScanInv, Owned, RowTurns
<1>4. CallsTurn(a, admits[a], {}, {}, {Call(a)})
  <2>1. /\ \A e \in calls : e.aw => e.adm # a
        /\ ~(admits[a].tries >= MaxAttempts)
    BY DEF Send, Sent, Exhausted
  <2> QED BY <1>2, <2>1 DEF CallsTurn, CallsNow
<1>5. DoorTurns
  BY <1>1, <1>2, RetryStays DEF DoorTurns, TypeOK
<1> QED BY <1>1, <1>2, <1>3, <1>4, <1>5, RowStep

\* A row whose send is awaited has an attempt left, which is counted.
LEMMA Bumping ==
  ASSUME ScanInv, NEW c \in calls, c.aw, IsQueued(c.adm)
  PROVE  [admits[c.adm] EXCEPT !.tries = @ + 1] \in AdmitType
<1>1. admits[c.adm] \in AdmitType
  BY Heard DEF ScanInv
<1>2. admits[c.adm].tries \in Nat /\ admits[c.adm].tries < MaxAttempts
  BY <1>1 DEF ScanInv, Sending, IsQueued, AdmitType
<1>3. admits[c.adm].tries + 1 \in 0..MaxAttempts
  BY <1>2, ScanAssumptions
<1> QED BY <1>1, <1>3 DEF AdmitType

LEMMA AnsweredStep ==
  ASSUME ScanInv, NEW d \in Devices, Answered(d)
  PROVE  ScanInv'
<1> DEFINE a == Head(pass[d])
<1>1. PICK c \in Sent(d) :
        /\ calls' = calls \ {c}
        /\ \/ c.val \in Outcomes /\ Removed(a, c.val) /\ Moves(d)
           \/ /\ c.val \in Errors /\ ~IsQueued(a)
              /\ UNCHANGED <<admits, faults>> /\ Moves(d)
           \/ c.val = "refused" /\ IsQueued(a) /\ Dropped(a) /\ Moves(d)
           \/ c.val \in {"locked", "error"} /\ IsQueued(a) /\ Bumped(a) /\ Moves(d)
           \/ c.val = "network" /\ IsQueued(a) /\ Bumped(a) /\ Stops(d)
        /\ UNCHANGED <<server, undos, user, online, shown, retry, late, forgotten>>
  BY DEF Answered
<1>2. /\ TypeOK /\ c \in calls /\ c.aw /\ a = c.adm /\ a \in Ids
      /\ admits[a] \in AdmitType /\ admits \in [Ids -> AdmitType]
      /\ pass[d] # <<>> /\ pass' \in [Devices -> Seq(Ids)]
      /\ faults' \subseteq faults
  BY <1>1, Passing, RowTypes
     DEF Sent, ScanInv, Moves, Stops, Removed, Dropped, Bumped, Disturbed
<1> DEFINE removed == [admits[a] EXCEPT !.place = "settled", !.heard = c.val]
           given(place) == [admits[a] EXCEPT !.place = place]
           bumped == [admits[a] EXCEPT !.tries = @ + 1]
           OneOf(row) ==
             \/ row = admits[a] /\ ~IsQueued(a)
             \/ row = removed /\ c.val \in Outcomes /\ IsQueued(a)
             \/ row = given("dropped") /\ IsQueued(a)
             \/ row = given("unsaved") /\ IsQueued(a)
             \/ row = bumped /\ IsQueued(a)
<1>3. PICK row : OneOf(row) /\ admits' = [admits EXCEPT ![a] = row]
  <2>1. \/ admits' = admits /\ OneOf(admits[a])
        \/ admits' = [admits EXCEPT ![a] = removed] /\ OneOf(removed)
        \/ admits' = [admits EXCEPT ![a] = given("dropped")] /\ OneOf(given("dropped"))
        \/ admits' = [admits EXCEPT ![a] = given("unsaved")] /\ OneOf(given("unsaved"))
        \/ admits' = [admits EXCEPT ![a] = bumped] /\ OneOf(bumped)
    BY <1>1, <1>2 DEF Removed, Dropped, Goes, Bumped, IsQueued
  <2>2. admits = [admits EXCEPT ![a] = admits[a]]
    BY <1>2
  <2> HIDE DEF OneOf, removed, given, bumped
  <2> QED BY <2>1, <2>2
<1> HIDE DEF a
<1>4. /\ row \in AdmitType /\ row.mark = admits[a].mark
      /\ \/ row = admits[a]
         \/ row.place = "settled" /\ row.heard # "none"
         \/ row.place = "unsaved"
         \/ row.place \in {"queued", "dropped"} /\ admits[a].place = "queued"
      /\ row.t = admits[a].t /\ row.op = admits[a].op /\ row.dev = admits[a].dev
  <2>1. IsQueued(a) => bumped \in AdmitType /\ bumped.place = "queued"
    BY <1>2, Bumping DEF IsQueued, AdmitType
  <2> QED BY <1>2, <1>3, <2>1 DEF AdmitType, Places, Outcomes, IsQueued
<1> HIDE DEF OneOf
<1>5. RowTurns(a, row)
  BY <1>1, <1>2, <1>3, <1>4 DEF ScanInv, Owned, RowTurns, Accounted
<1>6. CallsTurn(a, row, {c}, {}, {})
  BY <1>1, <1>2, Heard DEF CallsTurn
<1>7. DoorTurns
  BY <1>1, <1>2, RetryStays DEF DoorTurns, TypeOK
<1>8. Ledger
  BY <1>1, LedgerStays
<1> QED BY <1>2, <1>5, <1>6, <1>7, <1>8, RowStep

LEMMA TimesOutStep ==
  ASSUME ScanInv, NEW d \in Devices, TimesOut(d)
  PROVE  ScanInv'
<1> DEFINE a == Head(pass[d])
<1>1. PICK c \in Sent(d) :
        /\ calls' = (calls \ {c}) \union {[c EXCEPT !.aw = FALSE]}
        /\ IF IsQueued(a) THEN Bumped(a) ELSE UNCHANGED <<admits, faults>>
        /\ Moves(d) \/ (IsQueued(a) /\ Stops(d))
        /\ UNCHANGED <<server, undos, user, online, shown, retry, late, forgotten>>
  BY DEF TimesOut
<1>2. /\ TypeOK /\ c \in calls /\ c.aw /\ a = c.adm /\ a \in Ids
      /\ admits[a] \in AdmitType /\ admits \in [Ids -> AdmitType]
      /\ pass[d] # <<>> /\ pass' \in [Devices -> Seq(Ids)] /\ faults' = faults
  BY <1>1, Passing, RowTypes DEF Sent, ScanInv, Moves, Stops, Bumped
<1> DEFINE bumped == [admits[a] EXCEPT !.tries = @ + 1]
           row == IF IsQueued(a) THEN bumped ELSE admits[a]
<1>3. admits' = [admits EXCEPT ![a] = row]
  BY <1>1, <1>2 DEF Bumped
<1>4. /\ row \in AdmitType /\ row.mark = admits[a].mark
      /\ row.place = admits[a].place /\ row.heard = admits[a].heard
      /\ row.t = admits[a].t /\ row.op = admits[a].op /\ row.dev = admits[a].dev
      /\ row = admits[a] \/ row.place = "queued"
  <2>1. IsQueued(a) => bumped \in AdmitType /\ bumped.place = "queued"
    BY <1>2, Bumping DEF IsQueued, AdmitType
  <2> QED BY <1>2, <2>1 DEF AdmitType, IsQueued
<1> HIDE DEF a, row
<1>5. RowTurns(a, row)
  BY <1>1, <1>2, <1>3, <1>4 DEF ScanInv, Owned, RowTurns, Accounted
<1>6. CallsTurn(a, row, {c}, {c}, {})
  BY <1>1, <1>2, Heard DEF CallsTurn
<1>7. DoorTurns
  BY <1>1, <1>2, RetryStays DEF DoorTurns, TypeOK
<1>8. Ledger
  BY <1>1, LedgerStays
<1> QED BY <1>2, <1>5, <1>6, <1>7, <1>8, RowStep

\* A local read or write that throws leaves the rows as they are.
LEMMA PassThrowsStep ==
  ASSUME ScanInv, NEW d \in Devices, PassThrows(d)
  PROVE  ScanInv'
<1>1. /\ TypeOK /\ Ids' = Ids /\ admits \in [Ids -> AdmitType]
      /\ pass' \in [Devices -> Seq(Ids)]
  BY Passing, RowTypes DEF ScanInv, PassThrows, Stops, Ids
<1>2. /\ Ledger /\ faults' \subseteq faults
      /\ UNCHANGED <<undos, user, online, shown, retry, admits, late>>
  BY LedgerStays DEF PassThrows, Disturbed
<1>3. RowsTurn
  BY <1>1, <1>2 DEF RowsTurn, ScanInv, Owned, StandingIsAccounted
<1>4. CallsEnd
  BY Unhearing DEF PassThrows, Sent
<1>5. DoorChanges
  BY <1>1, <1>2, RetryStays DEF DoorChanges, TypeOK
<1> QED BY <1>2, <1>3, <1>4, <1>5, RowsStep

LEMMA RetryDroppedStep ==
  ASSUME ScanInv, NEW d \in Devices, RetryDropped(d)
  PROVE  ScanInv'
<1>1. PICK q \in InOrder(Drops(d)) : retry' = [retry EXCEPT ![d].rows = q]
  BY DEF RetryDropped
<1>2. TypeOK /\ Drops(d) \subseteq Ids
  BY DEF ScanInv, Drops
<1>3. q \in Seq(Ids) /\ \A i \in DOMAIN q : q[i] \in Drops(d)
  BY <1>2, RowsInOrder DEF InOrder
<1>4. /\ retry[d] \in [rows : Seq(Ids), again : BOOLEAN]
      /\ \A e \in Devices : retry'[e] = IF e = d THEN [retry[d] EXCEPT !.rows = q]
                                                 ELSE retry[e]
      /\ DOMAIN retry' = Devices /\ retry' = [e \in Devices |-> retry'[e]]
  BY <1>1, <1>2 DEF TypeOK
<1>5. RetryTurns
  <2>1. /\ [retry[d] EXCEPT !.rows = q] \in [rows : Seq(Ids), again : BOOLEAN]
        /\ [retry[d] EXCEPT !.rows = q].rows = q
    BY <1>3, <1>4
  <2>2. retry' \in [Devices -> [rows : Seq(Ids), again : BOOLEAN]]
    BY <1>2, <1>4, <2>1 DEF TypeOK
  <2>3. \A i \in DOMAIN q : q[i] \in Ids
          /\ admits[q[i]].place \notin {"live", "queued"}
    BY <1>3 DEF Drops
  <2>4. ASSUME NEW e \in Devices, NEW i \in DOMAIN retry'[e].rows
        PROVE  /\ retry'[e].rows[i] \in Ids
               /\ admits[retry'[e].rows[i]].place \notin {"live", "queued"}
    <3>1. CASE e = d
      BY <1>4, <2>1, <2>3, <2>4, <3>1
    <3>2. CASE e # d
      BY <1>4, <2>4, <3>2, RetryStays DEF ScanInv, Retrying
    <3> QED BY <3>1, <3>2
  <2> QED BY <2>2, <2>4 DEF RetryTurns
<1>6. Ledger
  BY LedgerStays DEF RetryDropped, history
<1> QED BY <1>2, <1>5, <1>6, RowsStay DEF RetryDropped, history, TypeOK

\* The row that a retry is at.
LEMMA RetryHead ==
  ASSUME ScanInv, NEW d \in Devices, retry[d].rows # <<>>
  PROVE  /\ Head(retry[d].rows) \in Ids
         /\ admits[Head(retry[d].rows)].place \notin {"live", "queued"}
         /\ retry' = [retry EXCEPT ![d] = [rows |-> Tail(@.rows), again |-> FALSE]]
              => RetryTurns
         /\ retry' = [retry EXCEPT ![d].again = TRUE] => RetryTurns
<1> DEFINE q == retry[d].rows
           r == Tail(q)
<1>1. /\ retry \in [Devices -> [rows : Seq(Ids), again : BOOLEAN]]
      /\ q \in Seq(Ids) /\ q # <<>>
      /\ \A e \in Devices : \A i \in DOMAIN retry[e].rows :
           /\ retry[e].rows[i] \in Ids
           /\ admits[retry[e].rows[i]].place \notin {"live", "queued"}
  BY RetryStays DEF ScanInv, TypeOK, Retrying
<1> HIDE DEF q
<1>2. /\ 1 \in DOMAIN q /\ Head(q) = q[1] /\ r \in Seq(Ids)
      /\ \A i \in DOMAIN r : i + 1 \in DOMAIN q /\ r[i] = q[i + 1]
  BY <1>1
<1> HIDE DEF r
<1>3. /\ Head(q) \in Ids /\ admits[Head(q)].place \notin {"live", "queued"}
      /\ \A i \in DOMAIN r : /\ r[i] \in Ids
                             /\ admits[r[i]].place \notin {"live", "queued"}
  BY <1>1, <1>2 DEF q
<1>4. ASSUME retry' = [retry EXCEPT ![d] = [rows |-> r, again |-> FALSE]]
      PROVE  RetryTurns
  BY <1>1, <1>2, <1>3, <1>4 DEF RetryTurns
<1>5. ASSUME retry' = [retry EXCEPT ![d].again = TRUE]
      PROVE  RetryTurns
  <2>1. /\ retry' \in [Devices -> [rows : Seq(Ids), again : BOOLEAN]]
        /\ \A e \in Devices : retry'[e].rows = retry[e].rows
    BY <1>1, <1>5
  <2> QED BY <1>1, <2>1 DEF RetryTurns
<1> QED BY <1>3, <1>4, <1>5 DEF q, r

LEMMA ResendStep ==
  ASSUME ScanInv, NEW d \in Devices, Resend(d)
  PROVE  ScanInv'
<1> DEFINE a == Head(retry[d].rows)
<1>1. /\ TypeOK /\ a \in Ids /\ admits[a] \in AdmitType
      /\ admits[a].place # "queued" /\ admits \in [Ids -> AdmitType]
  BY RetryHead, RowTypes DEF Resend, ScanInv
<1>2. /\ admits' = [admits EXCEPT ![a] = admits[a]] /\ Ledger
      /\ calls' = calls \union {Call(a)}
      /\ UNCHANGED <<undos, user, online, shown, pass, retry, late, faults>>
  BY <1>1, LedgerStays DEF Resend, history, device
<1>3. RowTurns(a, admits[a])
  BY <1>1, <1>2 DEF ScanInv, Owned, RowTurns
<1>4. CallsTurn(a, admits[a], {}, {}, {Call(a)})
  <2>1. \A e \in calls : e.aw => e.adm # a
    BY DEF Resend, Resent
  <2> QED BY <1>1, <1>2, <2>1 DEF CallsTurn, CallsNow
<1>5. DoorTurns
  BY <1>1, <1>2, RetryStays DEF DoorTurns, TypeOK
<1> QED BY <1>1, <1>2, <1>3, <1>4, <1>5, RowStep

LEMMA RetriedStep ==
  ASSUME ScanInv, NEW d \in Devices, Retried(d)
  PROVE  ScanInv'
<1> DEFINE a == Head(retry[d].rows)
           Done == retry' = [retry EXCEPT ![d] = [rows |-> Tail(@.rows),
                                                  again |-> FALSE]]
           Again == retry' = [retry EXCEPT ![d].again = TRUE]
<1>1. PICK c \in Resent(d) :
        /\ \/ /\ c.val \in Outcomes /\ admits[a].place = "dropped"
              /\ admits' = [admits EXCEPT ![a].place = "settled",
                                          ![a].heard = c.val]
              /\ calls' = calls \ {c} /\ Done /\ faults' = faults
           \/ /\ admits' = admits /\ calls' = calls \ {c} /\ Done
              /\ faults' \subseteq faults
           \/ /\ admits' = admits /\ faults' = faults /\ Again
              /\ calls' = (calls \ {c}) \union {Call(a)}
        /\ UNCHANGED <<server, undos, user, online, shown, pass, late, forgotten>>
  BY DEF Retried, Disturbed
<1>2. /\ TypeOK /\ c \in calls /\ c.aw /\ a = c.adm /\ a \in Ids
      /\ admits[a] \in AdmitType /\ admits \in [Ids -> AdmitType]
      /\ admits[a].place \notin {"live", "queued"} /\ retry[d].rows # <<>>
  BY <1>1, RetryHead, RowTypes DEF Resent, ScanInv
<1>3. RetryTurns
  BY <1>1, <1>2, RetryHead
<1> DEFINE settled == [admits[a] EXCEPT !.place = "settled", !.heard = c.val]
<1>4. PICK row : /\ admits' = [admits EXCEPT ![a] = row]
                 /\ row = admits[a] \/ (row = settled /\ c.val \in Outcomes)
  <2>1. \/ admits' = [admits EXCEPT ![a] = settled] /\ c.val \in Outcomes
        \/ admits' = [admits EXCEPT ![a] = admits[a]]
    BY <1>1, <1>2
  <2> HIDE DEF settled
  <2> QED BY <2>1
<1>5. /\ row \in AdmitType /\ row.mark = admits[a].mark
      /\ (row.place = "settled" /\ row.heard # "none") \/ row = admits[a]
      /\ row.place \notin {"live", "queued"}
      /\ row.t = admits[a].t /\ row.op = admits[a].op /\ row.dev = admits[a].dev
  BY <1>2, <1>4 DEF AdmitType, Places, Outcomes
<1> HIDE DEF a, settled, Done, Again
<1>6. RowTurns(a, row)
  BY <1>1, <1>2, <1>4, <1>5 DEF ScanInv, Owned, RowTurns
<1>7. PICK new \in SUBSET {Call(a)} : calls' = CallsNow({c}, {}, new)
  <2>1. \/ calls' = CallsNow({c}, {}, {})
        \/ calls' = CallsNow({c}, {}, {Call(a)})
    BY <1>1, <1>2, Heard
  <2> QED BY <2>1
<1>8. CallsTurn(a, row, {c}, {}, new)
  BY <1>2, <1>5, <1>7, Heard DEF CallsTurn
<1>9. DoorTurns
  BY <1>1, <1>2, <1>3 DEF DoorTurns, TypeOK
<1>10. Ledger
  BY <1>1, LedgerStays
<1> QED BY <1>2, <1>6, <1>8, <1>9, <1>10, RowStep

LEMMA DismissStep ==
  ASSUME ScanInv, NEW a \in Ids, Dismiss(a)
  PROVE  ScanInv'
<1> DEFINE row == [admits[a] EXCEPT !.place = "dismissed"]
<1>1. TypeOK /\ admits[a] \in AdmitType /\ admits \in [Ids -> AdmitType]
  BY RowTypes DEF ScanInv
<1>2. /\ Ledger /\ admits' = [admits EXCEPT ![a] = row]
      /\ UNCHANGED <<calls, undos, user, online, shown, pass, retry, late, faults>>
  BY LedgerStays DEF Dismiss, Goes, device, history
<1>3. DoorTurns
  BY <1>1, <1>2, RetryStays DEF DoorTurns, TypeOK
<1>4. RowTurns(a, row)
  BY <1>1, <1>2 DEF ScanInv, Owned, RowTurns, Accounted, AdmitType, Places
<1>5. CallsTurn(a, row, {}, {}, {})
  BY <1>1, <1>2 DEF CallsTurn, CallsNow, AdmitType
<1> QED BY <1>2, <1>3, <1>4, <1>5, RowStep

-----------------------------------------------------------------------------
(* Undo.                                                                   *)

LEMMA UndoAtServerStep ==
  ASSUME ScanInv, NEW a \in Ids, UndoAtServer(a)
  PROVE  ScanInv'
<1>1. Ledger
  BY LedgerStays DEF UndoAtServer, history
<1>2. RetryTurns
  BY RetryStays DEF UndoAtServer, device
<1> QED BY <1>1, <1>2, RowsStay DEF UndoAtServer, device, history, ScanInv, TypeOK

\* A revert takes one scan back from the ticket.
LEMMA RevertCounts ==
  ASSUME ScanInv, NEW t \in Tickets, StillScanned(t),
         ticket' = [ticket EXCEPT ![t] = "VALID"],
         reverts' = [reverts EXCEPT ![t] = @ + 1],
         UNCHANGED <<record, payload, marks, forgotten>>
  PROVE  Ledger
<1>1. /\ ticket' \in [Tickets -> Statuses] /\ reverts' \in [Tickets -> Nat]
      /\ ticket[t] = "SCANNED" /\ ticket'[t] = "VALID"
      /\ reverts[t] \in Nat /\ reverts'[t] = reverts[t] + 1
      /\ \A u \in Tickets \ {t} : ticket'[u] = ticket[u] /\ reverts'[u] = reverts[u]
  BY DEF ScanInv, TypeOK, Statuses, StillScanned
<1>2. \A u : AcceptedOn(u)' = AcceptedOn(u)
  BY AcceptedOnSum, AcceptedOnSumNext
<1>3. AcceptedOnce'
  BY <1>1, <1>2 DEF ScanInv, AcceptedOnce
<1> QED BY <1>1, <1>3 DEF Ledger

LEMMA RevertStep ==
  ASSUME ScanInv, NEW a \in Ids, Revert(a)
  PROVE  ScanInv'
<1> DEFINE t == admits[a].t
           undone == Marked(admits[a], "undone")
<1>1. /\ TypeOK /\ admits[a] \in AdmitType /\ admits \in [Ids -> AdmitType]
      /\ t \in Tickets
  BY RowTypes DEF ScanInv, AdmitType
<1>2. Ledger
  BY <1>1, RevertCounts, CountsStay DEF Revert, ScanInv, TypeOK, Ledger
<1>3. DoorTurns
  BY <1>1, Showing, RetryStays DEF Revert, DoorTurns, TypeOK, Disturbed
<1>4. PICK row \in {undone, admits[a]} : admits' = [admits EXCEPT ![a] = row]
  BY <1>1 DEF Revert
<1>5. /\ row \in AdmitType /\ row.place = admits[a].place
      /\ row = admits[a] \/ (admits[a].mark = "stands" /\ row.mark = "undone")
      /\ row.tries = admits[a].tries
      /\ row.t = admits[a].t /\ row.op = admits[a].op /\ row.dev = admits[a].dev
  BY <1>1, <1>4 DEF AdmitType, Marked, Marks
<1> HIDE DEF undone
<1>6. RowTurns(a, row)
  BY <1>1, <1>3, <1>4, <1>5 DEF ScanInv, Owned, RowTurns, DoorTurns, Revert
<1>7. CallsTurn(a, row, {}, {}, {})
  <2>1. calls' = CallsNow({}, {}, {})
    BY DEF Revert, CallsNow
  <2>2. row.place = "queued" => \A e \in calls : e.aw => e.adm # a \/ row.tries < MaxAttempts
    BY <1>5 DEF ScanInv, Sending
  <2>3. row.tries \in Nat /\ MaxAttempts \in Nat
    BY <1>5, ScanAssumptions DEF AdmitType
  <2> QED BY <2>1, <2>2, <2>3 DEF CallsTurn
<1> QED BY <1>2, <1>3, <1>6, <1>7, RowStep

LEMMA UndoLocallyStep ==
  ASSUME ScanInv, NEW a \in Ids, UndoLocally(a)
  PROVE  ScanInv'
<1> DEFINE gone(b) == [admits[b] EXCEPT !.place = "cancelled"]
           row(b) == IF b \in Rows(a) THEN gone(b) ELSE admits[b]
<1>1. /\ TypeOK /\ admits \in [Ids -> AdmitType] /\ admits[a].mark = "stands"
      /\ \A b \in Rows(a) : /\ b \in Ids /\ admits[b].place = "queued"
                            /\ admits[b].dev = admits[a].dev
                            /\ admits[b].t = admits[a].t
  BY RowTypes DEF ScanInv, UndoLocally, Undoable, Rows, Queue
<1>2. /\ admits' = [b \in Ids |->
                     IF b = a THEN Marked(row(b), "undone") ELSE row(b)]
      /\ UNCHANGED <<calls, undos, user, online, pass, retry, late, faults>>
      /\ Ledger
  BY LedgerStays DEF UndoLocally, history
<1>3. \A b \in Ids :
        /\ row(b) \in AdmitType /\ row(b).mark = admits[b].mark
        /\ row(b).heard = admits[b].heard
        /\ row(b).t = admits[b].t /\ row(b).op = admits[b].op
        /\ row(b).dev = admits[b].dev /\ row(b).tries = admits[b].tries
        /\ \/ row(b).place = admits[b].place
           \/ row(b).place = "cancelled" /\ b \in Rows(a)
  BY <1>1 DEF AdmitType, Places
<1> HIDE DEF row
<1>4. /\ admits' \in [Ids -> AdmitType] /\ admits'[a].mark = "undone"
      /\ \A b \in Ids :
           /\ admits'[b].mark = IF b = a THEN "undone" ELSE admits[b].mark
           /\ admits'[b].heard = admits[b].heard
           /\ admits'[b].t = admits[b].t /\ admits'[b].op = admits[b].op
           /\ admits'[b].dev = admits[b].dev /\ admits'[b].tries = admits[b].tries
           /\ admits'[b].place = row(b).place
  <2>1. Marked(row(a), "undone") \in AdmitType
        /\ Marked(row(a), "undone") = [row(a) EXCEPT !.mark = "undone"]
    BY <1>1, <1>3 DEF AdmitType, Marked, Marks
  <2> QED BY <1>1, <1>2, <1>3, <2>1 DEF AdmitType
<1>5. Ids' = Ids
  BY <1>4 DEF Ids
<1>6. Owned'
  BY <1>1, <1>2, <1>3, <1>4, <1>5 DEF ScanInv, Owned
<1>7. StandingIsAccounted'
  <2> SUFFICES ASSUME NEW b \in Ids, admits'[b].mark = "stands",
                      admits'[b].heard = "none", admits'[b].place \notin Accounted
               PROVE  /\ admits'[b].place = "cancelled"
                      /\ \E e \in Ids : /\ admits'[e].mark = "undone"
                                        /\ admits'[e].dev = admits'[b].dev
                                        /\ admits'[e].t = admits'[b].t
    BY <1>5 DEF StandingIsAccounted, Accounted
  <2>1. CASE b \in Rows(a)
    <3>1. row(b).place = "cancelled"
      BY <2>1 DEF row
    <3> QED BY <1>1, <1>4, <2>1, <3>1
  <2>2. CASE b \notin Rows(a)
    <3>1. /\ admits'[b].place = admits[b].place /\ b # a
          /\ admits[b].mark = "stands" /\ admits[b].heard = "none"
      BY <1>3, <1>4, <2>2
    <3>2. /\ admits[b].place = "cancelled"
          /\ \E e \in Ids : /\ admits[e].mark = "undone"
                            /\ admits[e].dev = admits[b].dev
                            /\ admits[e].t = admits[b].t
      BY <3>1 DEF ScanInv, StandingIsAccounted, Accounted
    <3>3. PICK e \in Ids : /\ admits[e].mark = "undone"
                           /\ admits[e].dev = admits[b].dev
                           /\ admits[e].t = admits[b].t
      BY <3>2
    <3>4. /\ admits'[e].mark = "undone" /\ admits'[e].dev = admits'[b].dev
          /\ admits'[e].t = admits'[b].t
      BY <1>4, <3>3
    <3> QED BY <3>1, <3>2, <3>4
  <2> QED BY <2>1, <2>2
<1>8. RowsTurn
  BY <1>3, <1>4, <1>6, <1>7 DEF RowsTurn
<1>9. CallsEnd
  <2>1. calls' = CallsNow({}, {}, {})
    BY <1>2 DEF CallsNow
  <2> QED BY <2>1 DEF CallsEnd
<1>10. DoorChanges
  BY <1>1, <1>2, Showing, RetryStays DEF UndoLocally, DoorChanges, TypeOK
<1> QED BY <1>2, <1>8, <1>9, <1>10, RowsStep

-----------------------------------------------------------------------------
(* The device.                                                             *)

LEMMA SignOutStep ==
  ASSUME ScanInv, NEW d \in Devices, SignOut(d)
  PROVE  ScanInv'
<1> DEFINE wiped(b) == [admits[b] EXCEPT !.mark = "wiped",
                          !.place = IF @ \in PurgedPlaces THEN "purged" ELSE @]
<1>1. TypeOK /\ admits \in [Ids -> AdmitType] /\ <<>> \in Seq(Ids)
  BY RowTypes, EmptySeq DEF ScanInv
<1>2. /\ user' = [user EXCEPT ![d] = Nobody] /\ shown' = [shown EXCEPT ![d] = {}]
      /\ pass' = [pass EXCEPT ![d] = <<>>] /\ faults' \subseteq faults
      /\ admits' = [b \in Ids |-> IF admits[b].dev # d THEN admits[b] ELSE wiped(b)]
      /\ UNCHANGED <<undos, online, retry, late>> /\ Ledger /\ CallsEnd
  BY LedgerStays, Unhearing DEF SignOut, Disturbed, Sent, Stops
<1>3. \A b \in Ids :
        /\ wiped(b) \in AdmitType /\ wiped(b).mark = "wiped"
        /\ wiped(b).t = admits[b].t /\ wiped(b).op = admits[b].op
        /\ wiped(b).dev = admits[b].dev
        /\ wiped(b).place \notin {"queued", "dropped"}
        /\ wiped(b).place \in {admits[b].place, "purged"}
  BY <1>1 DEF AdmitType, Places, Marks, PurgedPlaces
<1> HIDE DEF wiped
<1>4. /\ admits' \in [Ids -> AdmitType]
      /\ \A b \in Ids :
           /\ admits'[b].t = admits[b].t /\ admits'[b].op = admits[b].op
           /\ admits'[b].dev = admits[b].dev
           /\ admits[b].dev # d => admits'[b] = admits[b]
           /\ admits[b].dev = d => admits'[b].mark = "wiped"
                /\ admits'[b].place \notin {"queued", "dropped"}
                /\ admits'[b].place \in {admits[b].place, "purged"}
  BY <1>1, <1>2, <1>3
<1>5. Ids' = Ids /\ \A b \in Ids : admits[b].dev \in Devices
  BY <1>1, <1>4 DEF Ids, AdmitType
<1>6. Owned'
  BY <1>1, <1>2, <1>4, <1>5 DEF ScanInv, Owned, TypeOK
<1>7. StandingIsAccounted'
  BY <1>4, <1>5 DEF ScanInv, StandingIsAccounted
<1>8. RowsTurn
  BY <1>4, <1>6, <1>7 DEF RowsTurn
<1>9. DoorChanges
  BY <1>1, <1>2, RetryStays DEF DoorChanges, TypeOK
<1> QED BY <1>2, <1>8, <1>9, RowsStep

LEMMA AppDiesStep ==
  ASSUME ScanInv, NEW d \in Devices, AppDies(d)
  PROVE  ScanInv'
<1> DEFINE lost(b) == [admits[b] EXCEPT !.place = "lost"]
<1>1. TypeOK /\ admits \in [Ids -> AdmitType] /\ <<>> \in Seq(Ids)
  BY RowTypes, EmptySeq DEF ScanInv
<1>2. /\ pass' = [pass EXCEPT ![d] = <<>>] /\ faults' \subseteq faults
      /\ undos' \subseteq undos
      /\ admits' = [b \in Ids |-> IF admits[b].dev = d /\ admits[b].place = "live"
                                THEN lost(b) ELSE admits[b]]
      /\ retry' = [retry EXCEPT ![d] = NoRetry]
      /\ UNCHANGED <<user, online, shown, late>> /\ Ledger /\ CallsEnd
  BY LedgerStays, Unhearing DEF AppDies, Disturbed, Stops
<1>3. \A b \in Ids :
        /\ lost(b) \in AdmitType /\ lost(b).mark = admits[b].mark
        /\ lost(b).t = admits[b].t /\ lost(b).op = admits[b].op
        /\ lost(b).dev = admits[b].dev /\ lost(b).place = "lost"
        /\ lost(b).heard = admits[b].heard
  BY <1>1 DEF AdmitType, Places
<1> HIDE DEF lost
<1>4. /\ admits' \in [Ids -> AdmitType]
      /\ \A b \in Ids :
           /\ admits'[b].t = admits[b].t /\ admits'[b].op = admits[b].op
           /\ admits'[b].dev = admits[b].dev /\ admits'[b].mark = admits[b].mark
           /\ admits'[b].heard = admits[b].heard
           /\ admits'[b] = admits[b] \/ admits'[b].place = "lost"
  BY <1>1, <1>2, <1>3
<1>5. Ids' = Ids
  BY <1>4 DEF Ids
<1>6. Owned'
  BY <1>2, <1>4, <1>5 DEF ScanInv, Owned
<1>7. StandingIsAccounted'
  BY <1>4, <1>5 DEF ScanInv, StandingIsAccounted
<1>8. RowsTurn
  BY <1>4, <1>6, <1>7 DEF RowsTurn
<1>9. RetryTurns
  <2>1. /\ NoRetry \in [rows : Seq(Ids), again : BOOLEAN] /\ NoRetry.rows = <<>>
        /\ \A i : i \notin DOMAIN NoRetry.rows
    BY <1>1 DEF NoRetry
  <2>2. /\ retry' \in [Devices -> [rows : Seq(Ids), again : BOOLEAN]]
        /\ \A e \in Devices : retry'[e] = NoRetry \/ retry'[e] = retry[e]
    BY <1>1, <1>2, <2>1 DEF TypeOK
  <2> QED BY <2>1, <2>2, RetryStays DEF RetryTurns, ScanInv, Retrying
<1>10. DoorChanges
  BY <1>1, <1>2, <1>9 DEF DoorChanges, TypeOK
<1> QED BY <1>2, <1>8, <1>10, RowsStep

\* Whoever signs in finds nothing of the operator before.
LEMMA SignInStep ==
  ASSUME ScanInv, NEW d \in Devices, SignIn(d)
  PROVE  ScanInv'
<1>1. PICK o \in Operators : user' = [user EXCEPT ![d] = o]
  BY DEF SignIn
<1>2. /\ TypeOK /\ admits \in [Ids -> AdmitType]
      /\ user[d] = Nobody /\ Nobody \notin Operators
  BY RowTypes, ScanAssumptions DEF ScanInv, SignIn
<1>3. /\ Ledger /\ Ids' = Ids
      /\ UNCHANGED <<calls, undos, online, shown, admits, pass, retry, late, faults>>
  BY LedgerStays DEF SignIn, history, Ids
<1>4. \A a \in Ids : admits[a].op \in Operators /\ admits[a].dev \in Devices
  BY <1>2 DEF AdmitType
<1>5. Owned'
  BY <1>1, <1>2, <1>3, <1>4 DEF ScanInv, Owned, TypeOK
<1>6. RowsTurn
  BY <1>2, <1>3, <1>5 DEF RowsTurn, ScanInv, StandingIsAccounted
<1>7. CallsEnd
  <2>1. calls' = CallsNow({}, {}, {})
    BY <1>3 DEF CallsNow
  <2> QED BY <2>1 DEF CallsEnd
<1>8. DoorChanges
  BY <1>1, <1>2, <1>3, RetryStays DEF DoorChanges, TypeOK
<1> QED BY <1>3, <1>6, <1>7, <1>8, RowsStep

LEMMA AppendStep ==
  ASSUME ScanInv, NEW d \in Devices, NEW t \in Tickets, Admit(d, t),
         admits' # admits
  PROVE  ScanInv'
<1> DEFINE n == Len(admits) + 1
           here(place) ==
             [dev |-> d, op |-> user[d], t |-> t, mark |-> "stands",
              place |-> place, tries |-> 0, heard |-> "none"]
<1>1. /\ TypeOK /\ admits \in Seq(AdmitType) /\ Len(admits) \in Nat
      /\ Ids = 1..Len(admits) /\ MaxAdmits \in Nat /\ Len(admits) < MaxAdmits
      /\ user[d] \in Operators
  BY RowTypes, ScanAssumptions DEF ScanInv, TypeOK, Admit
<1>2. PICK place \in {"live", "queued", "unsaved"} :
        /\ admits' = Append(admits, here(place))
        /\ calls' = CallsNow({}, {}, IF place = "live" THEN {CallFrom(d, n)} ELSE {})
  BY DEF Admit, CallsNow
<1>3. here(place) \in AdmitType
  <2>1. 0 \in 0..MaxAttempts
    BY ScanAssumptions
  <2> QED BY <1>1, <2>1 DEF AdmitType, Marks, Places
<1>4. /\ admits' \in Seq(AdmitType) /\ Len(admits') = n /\ Ids' = 1..n
      /\ \A b \in Ids : admits'[b] = admits[b]
      /\ admits'[n] = here(place)
  <2>1. /\ admits' \in Seq(AdmitType) /\ Len(admits') = n
        /\ \A b \in 1..Len(admits) : admits'[b] = admits[b]
        /\ admits'[n] = here(place)
    BY <1>1, <1>2, <1>3, AppendProperties
  <2> QED BY <1>1, <2>1, LenProperties DEF Ids
<1>5. Ids \subseteq Ids' /\ n \in Ids' /\ Ids' = Ids \union {n} /\ n \notin Ids
  BY <1>1, <1>4
<1>6. /\ UNCHANGED <<undos, user, online, pass, retry, late>> /\ Ledger
      /\ faults' \subseteq faults /\ shown' = [shown EXCEPT ![d] = @ \ {t}]
  BY LedgerStays DEF Admit, Disturbed
<1> DEFINE new == IF place = "live" THEN {CallFrom(d, n)} ELSE {}
<1>7. \A c \in new : /\ c \in CallType' /\ c.at # "read" /\ c.adm = n
                     /\ \A e \in calls : e.adm # c.adm
  <2>1. /\ CallFrom(d, n) \in CallType' /\ CallFrom(d, n).at # "read"
        /\ CallFrom(d, n).adm = n
    BY <1>1, <1>5, CallMade
  <2>2. \A e \in calls : e.adm # n
    BY <1>1, <1>5, CallTypes
  <2> QED BY <2>1, <2>2
<1>8. \A b \in Ids : KeyOf(b)' = KeyOf(b)
  BY <1>4 DEF KeyOf
<1>9. /\ calls' \subseteq CallType' /\ Claims'
      /\ \A c, e \in calls' : c.aw /\ e.aw /\ c.adm = e.adm => c = e
      /\ \A c \in calls' : c.aw => c \in calls \/ c \in new
  <2> DEFINE none == {}
  <2>1. /\ none \in SUBSET calls /\ none \in SUBSET none /\ new \in SUBSET CallType'
        /\ calls' = CallsNow(none, none, new)
        /\ \A c, e \in new : c = e
        /\ \A c \in new : c.at # "read"
             /\ \A e \in calls \ none : e.aw => e.adm # c.adm
        /\ UNCHANGED <<record, marks, forgotten>>
    BY <1>2, <1>6, <1>7 DEF Ledger
  <2> HIDE DEF none, new
  <2>2. /\ calls' \subseteq CallType' /\ Claims'
        /\ \A c, e \in calls' : c.aw /\ e.aw /\ c.adm = e.adm => c = e
        /\ \A c \in calls' : c.aw => c \in calls \ none \/ c \in new
    BY <1>5, <1>8, <2>1, CallsChange
  <2> QED BY <2>2
<1> HIDE DEF new
<1>10. TypeOK'
  <2>1. n <= MaxAdmits /\ pass' \in [Devices -> Seq(Ids')]
    <3>1. \A e \in Devices : pass[e] \in Seq(Ids')
      <4>1. \A q \in Seq(Ids) : q \in Seq(Ids')
        BY <1>5, SeqMonotonic
      <4> QED BY <1>1, <4>1 DEF TypeOK
    <3> QED BY <1>1, <1>6, <3>1 DEF TypeOK
  <2>2. retry' \in [Devices -> [rows : Seq(Ids'), again : BOOLEAN]]
    <3>1. \A q \in Seq(Ids) : q \in Seq(Ids')
      BY <1>5, SeqMonotonic
    <3> QED BY <1>1, <1>6, <3>1 DEF TypeOK
  <2> QED BY <1>1, <1>4, <1>5, <1>6, <1>9, <2>1, <2>2 DEF TypeOK, Ledger
<1>11. Sending'
  <2> SUFFICES ASSUME NEW c \in calls', c.aw, admits'[c.adm].place = "queued"
               PROVE  admits'[c.adm].tries < MaxAttempts
    BY DEF Sending
  <2>1. CASE c \in calls
    BY <1>1, <1>4, <2>1, CallTypes DEF ScanInv, Sending
  <2>2. CASE c \in new
    BY <1>4, <1>7, <2>2, ScanAssumptions
  <2> QED BY <1>9, <2>1, <2>2
<1>12. Owned'
  BY <1>4, <1>5, <1>6 DEF ScanInv, Owned
<1>13. StandingIsAccounted'
  <2> SUFFICES ASSUME NEW b \in Ids', admits'[b].mark = "stands",
                      admits'[b].heard = "none", admits'[b].place \notin Accounted
               PROVE  /\ admits'[b].place = "cancelled"
                      /\ \E e \in Ids' : /\ admits'[e].mark = "undone"
                                         /\ admits'[e].dev = admits'[b].dev
                                         /\ admits'[e].t = admits'[b].t
    BY DEF StandingIsAccounted, Accounted
  <2>1. b \in Ids /\ admits'[b] = admits[b]
    BY <1>4, <1>5 DEF Accounted
  <2>2. PICK e \in Ids : /\ admits[b].place = "cancelled"
                         /\ admits[e].mark = "undone"
                         /\ admits[e].dev = admits[b].dev
                         /\ admits[e].t = admits[b].t
    BY <2>1 DEF ScanInv, StandingIsAccounted, Accounted
  <2> QED BY <1>4, <1>5, <2>1, <2>2
<1>14. Retrying'
  BY <1>4, <1>6, RetryStays DEF ScanInv, Retrying
<1> QED BY <1>6, <1>9, <1>10, <1>11, <1>12, <1>13, <1>14 DEF ScanInv, Ledger

\* An admission leaves a row, unless the database failed before it.
LEMMA AdmitStep ==
  ASSUME ScanInv, NEW d \in Devices, NEW t \in Tickets, Admit(d, t)
  PROVE  ScanInv'
<1>1. CASE admits' = admits
  <2>1. calls' = calls
    <3>1. \A row : Len(Append(admits, row)) = Len(admits) + 1
      BY DEF ScanInv, TypeOK
    <3>2. Len(admits) \in Nat
      BY RowTypes DEF ScanInv
    <3> QED BY <1>1, <3>1, <3>2 DEF Admit
  <2>2. /\ Ledger /\ UNCHANGED <<undos, user, online, pass, retry, late>>
        /\ faults' \subseteq faults /\ shown' = [shown EXCEPT ![d] = @ \ {t}]
    BY LedgerStays DEF Admit, Disturbed
  <2>3. RetryTurns
    BY <2>2, RetryStays
  <2> QED BY <1>1, <2>1, <2>2, <2>3, RowsStay DEF ScanInv, TypeOK
<1> QED BY <1>1, AppendStep

LEMMA StartPassStep ==
  ASSUME ScanInv, NEW d \in Devices, StartPass(d)
  PROVE  ScanInv'
<1>1. PICK q \in InOrder(Queue(d)) : pass' = [pass EXCEPT ![d] = q]
  BY DEF StartPass
<1>2. TypeOK /\ Queue(d) \subseteq Ids
  BY DEF ScanInv, Queue
<1>3. q \in Seq(Ids)
  BY <1>2, RowsInOrder
<1>4. pass' \in [Devices -> Seq(Ids)]
  BY <1>1, <1>2, <1>3 DEF TypeOK
<1>5. Ledger /\ RetryTurns
  BY LedgerStays, RetryStays DEF StartPass, history
<1> QED BY <1>2, <1>4, <1>5, RowsStay DEF StartPass, history, TypeOK

LEMMA DeviceStep ==
  ASSUME ScanInv, NEW d \in Devices, GoOffline(d) \/ GoOnline(d) \/ Sync(d)
  PROVE  ScanInv'
<1>1. TypeOK /\ Ledger
  BY LedgerStays DEF ScanInv, GoOffline, GoOnline, Sync, history
<1>2. /\ UNCHANGED <<admits, calls, user, late, undos, pass>> /\ RetryTurns
      /\ online' \subseteq Devices /\ faults' \subseteq faults
      /\ shown' \in [Devices -> SUBSET Tickets]
  BY <1>1, RetryStays DEF GoOffline, GoOnline, Sync, history, Disturbed, TypeOK
<1> QED BY <1>1, <1>2, RowsStay DEF TypeOK

\* A ticket that is taken away keeps the scans that were counted.
LEMMA VoidStep ==
  ASSUME ScanInv, NEW t \in Tickets, Void(t)
  PROVE  ScanInv'
<1>1. /\ TypeOK /\ ticket' = [ticket EXCEPT ![t] = "VOID"] /\ faults' \subseteq faults
      /\ UNCHANGED <<record, payload, marks, reverts, calls, undos, user, online,
                     shown, pass, retry, admits, late, forgotten>>
  BY DEF ScanInv, Void, device, Disturbed
<1>2. AcceptedOnce'
  <2>1. \A u : AcceptedOn(u)' = AcceptedOn(u)
    BY <1>1, AcceptedOnSum, AcceptedOnSumNext
  <2>2. \A u \in Tickets : ticket'[u] = IF u = t THEN "VOID" ELSE ticket[u]
    BY <1>1 DEF TypeOK
  <2> QED BY <1>1, <2>1, <2>2 DEF ScanInv, AcceptedOnce
<1>3. Ledger
  BY <1>1, <1>2 DEF Ledger, TypeOK, Statuses
<1>4. RetryTurns
  BY <1>1, RetryStays
<1> QED BY <1>1, <1>3, <1>4, RowsStay DEF TypeOK

-----------------------------------------------------------------------------
(* The invariant.                                                          *)

LEMMA InitScan == Init => ScanInv
<1> SUFFICES ASSUME Init PROVE ScanInv
  OBVIOUS
<1>1. Ids = {} /\ admits = <<>>
  BY DEF Init, Ids
<1>2. TypeOK
  <2>1. /\ admits \in Seq(AdmitType) /\ Len(admits) = 0 /\ MaxAdmits \in Nat
        /\ <<>> \in Seq(Ids)
    BY <1>1, EmptySeq, ScanAssumptions
  <2>2. faults \subseteq Disturbances
    BY ScanAssumptions DEF Init
  <2>3. /\ ticket \in [Tickets -> Statuses] /\ record \in [Keys -> RecordStates]
        /\ payload \in [Keys -> Operators \union {Nobody}]
        /\ marks \in [Keys -> Nat] /\ reverts \in [Tickets -> Nat]
    BY DEF Init, Statuses, RecordStates
  <2>4. /\ user \in [Devices -> Operators \union {Nobody}]
        /\ shown \in [Devices -> SUBSET Tickets] /\ pass \in [Devices -> Seq(Ids)]
        /\ retry \in [Devices -> [rows : Seq(Ids), again : BOOLEAN]]
    BY <2>1 DEF Init, NoRetry
  <2>5. /\ calls = {} /\ undos = {} /\ online \subseteq Devices /\ late = {}
        /\ forgotten \subseteq Keys
    BY DEF Init
  <2>6. /\ calls \subseteq CallType /\ undos \subseteq Ids /\ late \subseteq Devices
        /\ \A c, e \in calls : c.aw /\ e.aw /\ c.adm = e.adm => c = e
        /\ Len(admits) <= MaxAdmits
    BY <2>1, <2>5
  <2> QED BY <2>1, <2>2, <2>3, <2>4, <2>5, <2>6, Zenon DEF TypeOK
<1>3. AcceptedOnce
  <2> SUFFICES ASSUME NEW t \in Tickets
               PROVE  AcceptedOn(t) = 0 /\ ticket[t] = "VALID" /\ reverts[t] = 0
    BY DEF AcceptedOnce
  <2> DEFINE f == [o \in Operators |-> marks[<<t, o>>]]
             zero == [o \in Operators |-> 0]
  <2>1. \A o \in Operators : f[o] = 0
    BY DEF Init, Keys
  <2>2. f = zero
    BY <2>1
  <2>3. AcceptedOn(t) = SumOver(zero, Operators)
    BY <2>2, AcceptedOnSum DEF Admitted
  <2>4. SumOver(zero, Operators) = 0
    BY SumZero, ScanAssumptions
  <2> QED BY <2>3, <2>4 DEF Init
<1>4. Sending /\ Claims /\ Owned /\ StandingIsAccounted
  BY <1>1 DEF Init, Sending, Claims, Owned, StandingIsAccounted, Keys
<1>5. Retrying
  BY DEF Init, Retrying, NoRetry
<1> QED BY <1>2, <1>3, <1>4, <1>5 DEF ScanInv

LEMMA StepScan == ScanInv /\ [Next]_vars => ScanInv'
<1> SUFFICES ASSUME ScanInv, [Next]_vars PROVE ScanInv'
  OBVIOUS
<1>1. ASSUME NEW c \in calls, Server(c) \/ Settle(c) \/ Throws(c) \/ Lost(c)
      PROVE  ScanInv'
  BY <1>1, BeginStep, ServerStep, LiveSettlesStep, LiveRetriesStep,
     LiveQueuesStep DEF Server, Settle
<1>2. ASSUME NEW k \in Keys, Lapse(k) PROVE ScanInv'
  BY <1>2, LapseStep
<1>3. ASSUME NEW d \in Devices, NEW t \in Tickets, Admit(d, t) PROVE ScanInv'
  BY <1>3, AdmitStep
<1>4. ASSUME NEW d \in Devices, StartPass(d) \/ Flush(d) \/ PassThrows(d)
      PROVE  ScanInv'
  BY <1>4, StartPassStep, PassOverStep, SendStep, AnsweredStep, TimesOutStep,
     PassThrowsStep DEF Flush
<1>5. ASSUME NEW d \in Devices, RetryDropped(d) \/ Resend(d) \/ Retried(d)
      PROVE  ScanInv'
  BY <1>5, RetryDroppedStep, ResendStep, RetriedStep
<1>6. ASSUME NEW a \in Ids,
             Dismiss(a) \/ UndoLocally(a) \/ UndoAtServer(a) \/ Revert(a)
      PROVE  ScanInv'
  BY <1>6, DismissStep, UndoLocallyStep, UndoAtServerStep, RevertStep
<1>7. ASSUME NEW d \in Devices, SignOut(d) \/ SignIn(d) \/ AppDies(d)
      PROVE  ScanInv'
  BY <1>7, SignOutStep, SignInStep, AppDiesStep
<1>8. ASSUME NEW d \in Devices, GoOffline(d) \/ GoOnline(d) \/ Sync(d)
      PROVE  ScanInv'
  BY <1>8, DeviceStep
<1>9. ASSUME NEW t \in Tickets, Void(t) PROVE ScanInv'
  BY <1>9, VoidStep
<1>10. CASE UNCHANGED vars
  <2>1. /\ Ledger /\ UNCHANGED <<admits, calls, user, late>>
        /\ online' = online /\ undos' = undos /\ faults' = faults
        /\ shown' = shown /\ pass' = pass /\ RetryTurns
    BY <1>10, LedgerStays, RetryStays DEF vars, server, device, history
  <2> QED BY <2>1, RowsStay DEF ScanInv, TypeOK
<1> QED BY <1>1, <1>2, <1>3, <1>4, <1>5, <1>6, <1>7, <1>8, <1>9, <1>10 DEF Next

\* Whatever devices, operators and faults do, the server counts every scan, the
\* claims hold their keys, and the devices account for what they admitted.
THEOREM ScanInvariance == Spec => []ScanInv
<1>1. Init => ScanInv
  BY InitScan
<1>2. ScanInv /\ [Next]_vars => ScanInv'
  BY StepScan
<1> QED BY <1>1, <1>2, PTL DEF Spec

\* The state of the door has its types (Scan.TypeOK).
THEOREM ScanTypes == Spec => []TypeOK
<1>1. ScanInv => TypeOK
  BY DEF ScanInv
<1> QED BY <1>1, ScanInvariance, PTL

\* Nobody gets in on a ticket that somebody else is in on: the accepted scans of
\* a ticket exceed its reverts by one when it is SCANNED, and never by more, for
\* any number of devices and operators.
THEOREM OneIsIn == Spec => []AcceptedOnce
<1>1. ScanInv => AcceptedOnce
  BY DEF ScanInv
<1> QED BY <1>1, ScanInvariance, PTL

\* An operator's key burns its ticket once, unless its claim lapsed under a
\* running scan, or over one that burnt the ticket and stored no answer.
THEOREM KeyBurnsOnce == Spec => []MarkedOnce
<1>1. ScanInv => MarkedOnce
  BY DEF ScanInv, Claims, MarkedOnce
<1> QED BY <1>1, ScanInvariance, PTL

\* No admission that stands is forgotten by its device, whatever calls, passes,
\* retries and sign-outs do, unless the app dies or its database fails.
THEOREM NothingForgotten == Spec => []StandingIsAccounted
<1>1. ScanInv => StandingIsAccounted
  BY DEF ScanInv
<1> QED BY <1>1, ScanInvariance, PTL

\* A sign-out leaves nothing of its operator in the queue or the drops.
THEOREM NothingLeft == Spec => []PurgeIsFinal
<1>1. ScanInv => PurgeIsFinal
  BY DEF ScanInv, Owned, PurgeIsFinal
<1> QED BY <1>1, ScanInvariance, PTL

-----------------------------------------------------------------------------
(* What no step does.                                                      *)

LEMMA VoidStays ==
  ASSUME ScanInv, [Next]_vars, NEW t \in Tickets, ticket[t] = "VOID"
  PROVE  ticket'[t] = "VOID"
<1>1. ticket \in [Tickets -> Statuses]
  BY DEF ScanInv, TypeOK
<1>2. ASSUME NEW c \in calls, Server(c) \/ Settle(c) \/ Throws(c) \/ Lost(c)
      PROVE  ticket'[t] = "VOID"
  <2>1. Scans(c) \/ ticket' = ticket
    BY <1>2 DEF Server, Begin, Finish, Throws, Lost, Settle, LiveSettles,
                LiveRetries, LiveQueues, server
  <2> QED BY <2>1, ScansOnce
<1>3. ASSUME NEW a \in Ids, Revert(a) PROVE ticket'[t] = "VOID"
  BY <1>1, <1>3 DEF Revert, StillScanned
<1>4. ASSUME NEW u \in Tickets, Void(u) PROVE ticket'[t] = "VOID"
  BY <1>1, <1>4 DEF Void
<1>5. CASE \/ \E k \in Keys : Lapse(k)
           \/ \E d \in Devices, u \in Tickets : Admit(d, u)
           \/ \E d \in Devices : StartPass(d) \/ Flush(d) \/ PassThrows(d)
           \/ \E d \in Devices : RetryDropped(d) \/ Resend(d) \/ Retried(d)
           \/ \E a \in Ids : Dismiss(a) \/ UndoLocally(a) \/ UndoAtServer(a)
           \/ \E d \in Devices : SignOut(d) \/ SignIn(d) \/ AppDies(d)
           \/ \E d \in Devices : GoOffline(d) \/ GoOnline(d) \/ Sync(d)
           \/ UNCHANGED vars
  BY <1>5 DEF Lapse, Admit, StartPass, Flush, PassOver, Send, Answered, TimesOut,
              PassThrows, RetryDropped, Resend, Retried, Dismiss, UndoLocally,
              UndoAtServer, SignOut, SignIn, AppDies, GoOffline, GoOnline, Sync,
              vars, server
<1> QED BY <1>2, <1>3, <1>4, <1>5 DEF Next

\* No scan, no undo, no replayed call brings a voided ticket back.
THEOREM VoidForGood == Spec => VoidIsFinal
<1>1. ScanInv /\ [Next]_vars =>
        [\A t \in Tickets : ticket[t] = "VOID" => ticket'[t] = "VOID"]_vars
  BY VoidStays
<1> QED BY <1>1, ScanInvariance, PTL DEF Spec, VoidIsFinal

Gone(a) == admits[a].place \notin {"live", "queued", "dropped"}

LEMMA GoneStays ==
  ASSUME ScanInv, [Next]_vars, NEW b \in Ids, Gone(b)
  PROVE  admits'[b].place = admits[b].place
<1>1. /\ TypeOK /\ admits \in [Ids -> AdmitType] /\ admits[b] \in AdmitType
      /\ admits \in Seq(AdmitType) /\ Ids = 1..Len(admits)
  BY RowTypes DEF ScanInv, TypeOK
<1> DEFINE Goal == admits'[b].place = admits[b].place
<1>2. ASSUME NEW c \in calls, Server(c) \/ Settle(c) \/ Throws(c) \/ Lost(c)
      PROVE  Goal
  <2>1. CASE Server(c) \/ Throws(c) \/ Lost(c)
    BY <2>1 DEF Server, Begin, Finish, Throws, Lost
  <2>2. CASE LiveSettles(c)
    BY <1>1, <2>2 DEF LiveSettles, Gone
  <2>3. CASE LiveRetries(c)
    BY <1>1, <2>3 DEF LiveRetries, AdmitType
  <2>4. CASE LiveQueues(c)
    BY <1>1, <2>4 DEF LiveQueues, Goes, Gone
  <2> QED BY <1>2, <2>1, <2>2, <2>3, <2>4 DEF Settle
<1>3. ASSUME NEW d \in Devices, NEW t \in Tickets, Admit(d, t) PROVE Goal
  <2>1. admits' = admits \/ \E row : admits' = Append(admits, row)
    BY <1>3 DEF Admit
  <2>2. \A row : Append(admits, row)[b] = admits[b]
    BY <1>1
  <2> QED BY <2>1, <2>2
<1>4. ASSUME NEW d \in Devices, StartPass(d) \/ Flush(d) \/ PassThrows(d)
      PROVE  Goal
  <2>1. CASE StartPass(d) \/ Send(d) \/ PassThrows(d)
    BY <2>1 DEF StartPass, Send, PassThrows
  <2>2. CASE PassOver(d) \/ Answered(d) \/ TimesOut(d)
    <3> DEFINE a == Head(pass[d])
    <3>1. \/ admits' = admits
          \/ admits[a].place = "queued" /\ \E row : admits' = [admits EXCEPT ![a] = row]
      BY <2>2 DEF PassOver, Answered, TimesOut, Dropped, Goes, Removed, Bumped,
                  IsQueued
    <3> QED BY <1>1, <3>1 DEF Gone
  <2> QED BY <1>4, <2>1, <2>2 DEF Flush
<1>5. ASSUME NEW d \in Devices, RetryDropped(d) \/ Resend(d) \/ Retried(d)
      PROVE  Goal
  <2> DEFINE a == Head(retry[d].rows)
  <2>1. \/ admits' = admits
        \/ /\ admits[a].place = "dropped"
           /\ \E val : admits' = [admits EXCEPT ![a].place = "settled",
                                               ![a].heard = val]
    BY <1>5 DEF RetryDropped, Resend, Retried
  <2> QED BY <1>1, <2>1 DEF Gone
<1>6. ASSUME NEW a \in Ids,
             Dismiss(a) \/ UndoLocally(a) \/ UndoAtServer(a) \/ Revert(a)
      PROVE  Goal
  <2>1. \A mark : Marked(admits[b], mark).place = admits[b].place
    BY <1>1 DEF Marked, AdmitType
  <2>2. CASE UndoLocally(a)
    <3>1. b \notin Rows(a)
      BY DEF Rows, Queue, Gone
    <3>2. admits'[b] = IF b = a THEN Marked(admits[b], "undone") ELSE admits[b]
      BY <2>2, <3>1 DEF UndoLocally
    <3> QED BY <2>1, <3>2
  <2>3. CASE Dismiss(a)
    BY <1>1, <2>3 DEF Dismiss, Goes, Gone
  <2>4. CASE UndoAtServer(a) \/ Revert(a)
    <3>1. \/ admits' = admits
          \/ admits' = [admits EXCEPT ![a] = Marked(@, "undone")]
      BY <2>4 DEF UndoAtServer, Revert
    <3> QED BY <1>1, <2>1, <3>1
  <2> QED BY <1>6, <2>2, <2>3, <2>4
<1>7. ASSUME NEW d \in Devices, SignOut(d) \/ SignIn(d) \/ AppDies(d)
      PROVE  Goal
  <2>1. CASE SignOut(d)
    <3>1. admits'[b] = IF admits[b].dev # d THEN admits[b]
                       ELSE [admits[b] EXCEPT !.mark = "wiped", !.place = @]
      BY <2>1 DEF SignOut, PurgedPlaces, Gone
    <3> QED BY <1>1, <3>1 DEF AdmitType
  <2>2. CASE SignIn(d)
    BY <2>2 DEF SignIn
  <2>3. CASE AppDies(d)
    BY <2>3 DEF AppDies, Gone
  <2> QED BY <1>7, <2>1, <2>2, <2>3
<1>8. CASE \/ \E k \in Keys : Lapse(k)
           \/ \E d \in Devices : GoOffline(d) \/ GoOnline(d) \/ Sync(d)
           \/ \E t \in Tickets : Void(t)
           \/ UNCHANGED vars
  BY <1>8 DEF Lapse, GoOffline, GoOnline, Sync, Void, vars
<1> QED BY <1>2, <1>3, <1>4, <1>5, <1>6, <1>7, <1>8 DEF Next

\* What an undo, a sign-out, a dismissal or an answer took from the queue is not
\* put back by a pass or a call that started before.
THEOREM GoneForGood == Spec => GoneStaysGone
<1>1. ScanInv /\ [Next]_vars =>
        [\A a \in Ids : admits[a].place \notin {"live", "queued", "dropped"} =>
                       admits'[a].place = admits[a].place]_vars
  BY GoneStays DEF Gone
<1> QED BY <1>1, ScanInvariance, PTL DEF Spec, GoneStaysGone
=============================================================================
