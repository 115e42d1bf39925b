-------------------------------- MODULE Scan --------------------------------
(***************************************************************************)
(* Admission at the door.  Scanners admit tickets, online by calling the   *)
(* server and offline by queueing the admission on the device; a pass over *)
(* the queue sends its rows one by one and may be overtaken by an undo, a  *)
(* sign-out or a send that is never answered.  The server deduplicates by  *)
(* an idempotency record whose client key names the event, the ticket and  *)
(* the operator, and burns the ticket with a compare-and-swap.             *)
(*                                                                         *)
(* One event, whose doors are open.  Backoff decides when a row is sent    *)
(* again and never whether, so every queued row is due; the 60 s in which  *)
(* a scan can be undone may or may not be over.                            *)
(***************************************************************************)
EXTENDS Naturals, Sequences, FiniteSets, FiniteSetsExt

CONSTANTS
  Tickets, Devices, Operators,
  Nobody,
  MaxAttempts,  \* MAX_ATTEMPTS: sends of a queued row before it is dropped
  MaxAdmits,    \* bound: admissions made at the door
  FaultPlans    \* bound: what may disturb a behaviour, each thing once

Disturbances == {"throw", "net", "slow", "app", "disk", "sign-out", "void"}

ASSUME ScanAssumptions ==
  /\ IsFiniteSet(Tickets) /\ IsFiniteSet(Devices) /\ IsFiniteSet(Operators)
  /\ Nobody \notin Operators
  /\ MaxAttempts \in Nat \ {0} /\ MaxAdmits \in Nat
  /\ FaultPlans \subseteq SUBSET Disturbances

VARIABLES
  ticket,   \* Ticket.status at the server; VOID: refunded, revoked
  record,   \* the idempotency record of each key
  payload,  \* whose scan each stored answer is for, as its payloadHash says
  marks,    \* history: the ACCEPTED scans recorded under each key
  reverts,  \* history: how often each ticket's scan was reverted
  calls,    \* scanTicket calls: [adm, by, aw, at, val]
  undos,    \* admissions whose revertTicketScan has read the ticket
  user,     \* who is signed in on each device
  online,   \* devices with a connection
  shown,    \* tickets that each device's own copy shows as VALID
  admits,   \* history and recent_scans: the admissions, oldest first
  pass,     \* rows the pass over each device's queue has still to visit
  retry,    \* rows the retry of each device's drops has still to send
  late,     \* history: devices where a call failed after its sign-out
  faults,   \* what may still go wrong
  forgotten \* history: keys whose claim lapsed over a scan, done or running

server == <<ticket, record, payload, marks, reverts>>
device == <<user, online, shown, pass, retry>>
history == <<late, faults, forgotten>>
vars == <<server, calls, undos, device, admits, history>>

Keys == Tickets \X Operators
Outcomes == {"ACCEPTED", "REPLAY", "REJECTED"}
Errors == {"locked", "error", "refused", "network"}
Statuses == {"VALID", "SCANNED", "VOID"}
RecordStates == {"none", "in_progress", "failed"} \union Outcomes

\* place, the admission's way to the server: live until its call is answered,
\* scan_queue and dropped_scans on the device, settled once its row is removed,
\* unsaved when the device's database failed to write it down.
Places == {"live", "queued", "dropped", "settled", "cancelled", "dismissed",
           "purged", "lost", "unsaved"}
Marks == {"stands", "undone", "refused", "wiped"}
AdmitType ==
  [dev : Devices, op : Operators, t : Tickets, mark : Marks, place : Places,
   tries : 0..MaxAttempts, heard : Outcomes \union {"none"}]

Ids == DOMAIN admits
KeyOf(a) == <<admits[a].t, admits[a].op>>
CallType == [adm : Ids, by : Operators \union {Nobody}, aw : BOOLEAN,
             at : {"sent", "read", "done"},
             val : {"none"} \union Statuses \union Outcomes \union Errors]

TypeOK ==
  /\ ticket \in [Tickets -> Statuses]
  /\ record \in [Keys -> RecordStates]
  /\ payload \in [Keys -> Operators \union {Nobody}]
  /\ marks \in [Keys -> Nat] /\ reverts \in [Tickets -> Nat]
  /\ admits \in Seq(AdmitType) /\ Len(admits) <= MaxAdmits
  /\ calls \subseteq CallType /\ undos \subseteq Ids
  /\ \A c, e \in calls : c.aw /\ e.aw /\ c.adm = e.adm => c = e
  /\ user \in [Devices -> Operators \union {Nobody}]
  /\ online \subseteq Devices /\ late \subseteq Devices
  /\ shown \in [Devices -> SUBSET Tickets]
  /\ pass \in [Devices -> Seq(Ids)]
  /\ retry \in [Devices -> [rows : Seq(Ids), again : BOOLEAN]]
  /\ faults \subseteq Disturbances /\ forgotten \subseteq Keys

NoRetry == [rows |-> <<>>, again |-> FALSE]

Init ==
  /\ ticket = [t \in Tickets |-> "VALID"]
  /\ record = [k \in Keys |-> "none"]
  /\ payload = [k \in Keys |-> Nobody]
  /\ marks = [k \in Keys |-> 0] /\ reverts = [t \in Tickets |-> 0]
  /\ calls = {} /\ undos = {}
  /\ user \in [Devices -> Operators]
  /\ online \in SUBSET Devices
  /\ shown = [d \in Devices |-> Tickets]
  /\ admits = <<>>
  /\ pass = [d \in Devices |-> <<>>]
  /\ retry = [d \in Devices |-> NoRetry]
  /\ late = {} /\ faults \in FaultPlans /\ forgotten = {}

-----------------------------------------------------------------------------
(* scanTicket.                                                             *)

\* A call from a device, under whoever is signed in there.  Without a
\* connection it fails at once.
CallFrom(d, a) ==
  [adm |-> a, by |-> user[d], aw |-> TRUE,
   at |-> IF d \in online THEN "sent" ELSE "done",
   val |-> IF d \in online THEN "none" ELSE "network"]

Call(a) == CallFrom(admits[a].dev, a)

\* The call ends with an answer, which nobody hears if nobody awaits it.
AnsweredWith(c, val) ==
  calls' = (calls \ {c}) \union
           (IF c.aw THEN {[c EXCEPT !.at = "done", !.val = val]} ELSE {})

\* A disturbance, once.
Disturbed(kind) == kind \in faults /\ faults' = faults \ {kind}

\* Begin: nobody's call is turned away; a stored answer is returned, or is a
\* conflict under another operator's name, whose payload has another hash; a
\* claim in progress or failed locks the key; and otherwise the call claims it
\* and reads the ticket.
Begin(c) ==
  LET k == KeyOf(c.adm) IN
  /\ c.at = "sent"
  /\ \/ /\ c.by = Nobody
        /\ AnsweredWith(c, "locked")
        /\ UNCHANGED record
     \/ /\ c.by # Nobody /\ record[k] \in Outcomes
        /\ AnsweredWith(c, IF payload[k] = c.by THEN record[k] ELSE "refused")
        /\ UNCHANGED record
     \/ /\ c.by # Nobody /\ record[k] \in {"in_progress", "failed"}
        /\ AnsweredWith(c, "locked")
        /\ UNCHANGED record
     \/ /\ c.by # Nobody /\ record[k] = "none"
        /\ record' = [record EXCEPT ![k] = "in_progress"]
        /\ calls' = (calls \ {c}) \union
                    {[c EXCEPT !.at = "read", !.val = ticket[k[1]]]}
  /\ UNCHANGED <<ticket, payload, marks, reverts, undos, device, admits, history>>

\* A bug to tell apart: the conditional update's count is not looked at.
Unchecked(c) == c.val = "VALID"

\* markScanned: of the scans that read VALID only the first updates the row.
Burns(c) == c.val = "VALID" /\ ticket[admits[c.adm].t] = "VALID"

Outcome(c) ==
  CASE Burns(c) -> "ACCEPTED"
    [] c.val = "VOID" -> "REJECTED"
    [] OTHER -> "REPLAY"

\* The scan's transaction.
Scans(c) ==
  /\ IF Burns(c)
     THEN /\ ticket' = [ticket EXCEPT ![admits[c.adm].t] = "SCANNED"]
          /\ marks' = [marks EXCEPT ![KeyOf(c.adm)] = @ + 1]
     ELSE UNCHANGED <<ticket, marks>>
  /\ UNCHANGED reverts

\* A bug to tell apart: the answer is kept for the claim's 10 s.
KeptBriefly(outcome) == "none"

\* commit keeps the answer for three days, longer than the event.
Kept(outcome) == outcome

Records(c, r) == record' = [record EXCEPT ![KeyOf(c.adm)] = r]

Finish(c) ==
  /\ c.at = "read"
  /\ Scans(c)
  /\ Records(c, Kept(Outcome(c)))
  /\ payload' = [payload EXCEPT ![KeyOf(c.adm)] = c.by]
  /\ AnsweredWith(c, Outcome(c))
  /\ UNCHANGED <<undos, device, admits, history>>

\* The transaction throws, over a lost role or anything else, and rolls back;
\* or the scan is committed and storing its answer throws.
Throws(c) ==
  /\ c.at = "read"
  /\ Disturbed("throw")
  /\ \/ /\ UNCHANGED <<ticket, marks, reverts>>
        /\ \E e \in {"error", "refused"} : AnsweredWith(c, e)
     \/ /\ Scans(c)
        /\ AnsweredWith(c, "error")
  /\ Records(c, "failed")
  /\ UNCHANGED <<payload, undos, device, admits, late, forgotten>>

\* The request or its answer is lost, or the server dies at it before or after
\* the transaction.  Without a connection nothing else can happen.
Lost(c) ==
  /\ c.aw /\ c.val # "network"
  /\ IF admits[c.adm].dev \in online THEN Disturbed("net") ELSE UNCHANGED faults
  /\ \/ UNCHANGED server
     \/ /\ c.at = "read"
        /\ Scans(c)
        /\ UNCHANGED <<record, payload>>
  /\ AnsweredWith(c, "network")
  /\ UNCHANGED <<undos, device, admits, late, forgotten>>

\* The claim of a scan that died or still runs after 10 s, or the record of
\* one that failed, expires.  What that scan did is not on record any more.
Running(k) == \E c \in calls : c.at = "read" /\ KeyOf(c.adm) = k

Lapse(k) ==
  /\ record[k] \in {"in_progress", "failed"}
  /\ record' = [record EXCEPT ![k] = "none"]
  /\ IF Running(k) THEN Disturbed("slow") ELSE UNCHANGED faults
  /\ forgotten' = IF Running(k) \/ marks[k] > 0
                  THEN forgotten \union {k} ELSE forgotten
  /\ UNCHANGED <<ticket, payload, marks, reverts, calls, undos, device, admits,
                 late>>

-----------------------------------------------------------------------------
(* The scanner: an admission and its call.                                 *)

\* handleAdmit: the ticket reads VALID at the server, or did when this device
\* last looked.  A database that fails at the row of the queue leaves the
\* admission without one, and one that fails earlier leaves no admission.
Admit(d, t) ==
  LET here(place) ==
        [dev |-> d, op |-> user[d], t |-> t, mark |-> "stands",
         place |-> place, tries |-> 0, heard |-> "none"]
  IN
  /\ user[d] # Nobody
  /\ t \in shown[d] \/ (d \in online /\ ticket[t] = "VALID")
  /\ Len(admits) < MaxAdmits
  /\ shown' = [shown EXCEPT ![d] = @ \ {t}]
  /\ \/ /\ d \in online
        /\ admits' = Append(admits, here("live"))
        /\ calls' = calls \union {CallFrom(d, Len(admits) + 1)}
        /\ UNCHANGED faults
     \/ /\ d \notin online
        /\ admits' = Append(admits, here("queued"))
        /\ UNCHANGED <<calls, faults>>
     \/ /\ d \notin online /\ Disturbed("disk")
        /\ admits' = Append(admits, here("unsaved"))
        /\ UNCHANGED calls
     \/ Disturbed("disk") /\ UNCHANGED <<admits, calls>>
  /\ UNCHANGED <<server, undos, user, online, pass, retry, late, forgotten>>

\* The local copy of a ticket reads VALID again, if sign-out left one.
ShowsAgain(a) ==
  shown' = IF admits[a].mark = "wiped" THEN shown
           ELSE [shown EXCEPT ![admits[a].dev] = @ \union {admits[a].t}]

Goes(a, place) == admits' = [admits EXCEPT ![a].place = place]

\* The row of the admission in recent_scans gets a mark, unless it is gone.
Marked(row, mark) ==
  [row EXCEPT !.mark = IF @ = "stands" THEN mark ELSE @]

\* The live call is answered: accepted, or marked NOT ADMITTED, which the
\* database may fail to write down.
LiveSettles(c) ==
  LET a == c.adm
      AsIs(r) == admits' = [admits EXCEPT ![a] = r]
      row == [admits[a] EXCEPT !.place = "settled",
                !.heard = IF c.val \in Outcomes THEN c.val ELSE "none"]
  IN
  /\ c.aw /\ c.at = "done" /\ admits[a].place = "live"
  /\ \/ c.val \in Outcomes
     \/ c.val \in {"locked", "refused"} /\ admits[a].tries = 1
  /\ \/ c.val = "ACCEPTED" /\ AsIs(row) /\ UNCHANGED <<shown, faults>>
     \/ /\ c.val # "ACCEPTED" /\ AsIs(Marked(row, "refused"))
        /\ IF c.val = "REPLAY" THEN UNCHANGED shown ELSE ShowsAgain(a)
        /\ UNCHANGED faults
     \/ /\ c.val # "ACCEPTED" /\ Disturbed("disk")
        /\ AsIs([row EXCEPT !.place = "unsaved"])
        /\ UNCHANGED shown \/ (c.val # "REPLAY" /\ ShowsAgain(a))
  /\ calls' = calls \ {c}
  /\ UNCHANGED <<server, undos, user, online, pass, retry, late, forgotten>>

\* The query client's `mutations.retry: 1`: an error is sent once more.
LiveRetries(c) ==
  /\ c.aw /\ c.val \in Errors /\ admits[c.adm].place = "live"
  /\ admits[c.adm].tries = 0
  /\ admits' = [admits EXCEPT ![c.adm].tries = 1]
  /\ calls' = (calls \ {c}) \union {Call(c.adm)}
  /\ UNCHANGED <<server, undos, device, history>>

\* A call that failed for good reason to try again later is queued, even when
\* its operator has left the device.  If that fails it is only reported.
LiveQueues(c) ==
  LET a == c.adm IN
  /\ c.aw /\ c.val \in {"error", "network"} /\ admits[a].place = "live"
  /\ admits[a].tries = 1
  /\ \/ /\ admits' = [admits EXCEPT ![a].place = "queued", ![a].tries = 0]
        /\ late' = IF admits[a].mark = "wiped" THEN late \union {admits[a].dev}
                   ELSE late
        /\ UNCHANGED faults
     \/ /\ Disturbed("disk")
        /\ Goes(a, "unsaved")
        /\ UNCHANGED late
  /\ calls' = calls \ {c}
  /\ UNCHANGED <<server, undos, device, forgotten>>

-----------------------------------------------------------------------------
(* The queue.                                                              *)

Queue(d) == {a \in Ids : admits[a].dev = d /\ admits[a].place = "queued"}

\* The rows of a set in the order they were queued.
InOrder(rows) == {q \in [1..Cardinality(rows) -> rows] :
                    \A i, j \in DOMAIN q : i < j => q[i] < q[j]}

StartPass(d) ==
  /\ d \in online /\ user[d] # Nobody
  /\ pass[d] = <<>> /\ Queue(d) # {}
  /\ \E q \in InOrder(Queue(d)) : pass' = [pass EXCEPT ![d] = q]
  /\ UNCHANGED <<server, calls, undos, user, online, shown, retry, admits, history>>

Sent(d) ==
  {c \in calls : c.aw /\ pass[d] # <<>> /\ c.adm = Head(pass[d])}
Moves(d) == pass' = [pass EXCEPT ![d] = Tail(@)]
Stops(d) == pass' = [pass EXCEPT ![d] = <<>>]
\* Bugs to tell apart: the pass trusts the rows it read at its start, and a
\* row is deleted without a trace when it is given up.
Trusts(a) == TRUE
Deleted(a) == Goes(a, "settled") /\ UNCHANGED faults

\* isScanQueued: a pass asks again before it sends a row and once it is
\* answered, for an undo or a sign-out may have taken it meanwhile.
IsQueued(a) == admits[a].place = "queued"

\* A bug to tell apart: one send too many.
OverTried(a) == admits[a].tries > MaxAttempts

\* MAX_ATTEMPTS sends were not answered.
Exhausted(a) == admits[a].tries >= MaxAttempts

\* dropTerminally moves the row to dropped_scans; if it cannot be recorded there
\* it is removed all the same, and only reported.
Dropped(a) ==
  \/ Goes(a, "dropped") /\ UNCHANGED faults
  \/ Goes(a, "unsaved") /\ Disturbed("disk")

\* A row that left the queue is skipped, one that was tried too often dropped.
PassOver(d) ==
  LET a == Head(pass[d]) IN
  /\ pass[d] # <<>> /\ Sent(d) = {}
  /\ \/ ~IsQueued(a) /\ UNCHANGED <<admits, faults>>
     \/ IsQueued(a) /\ Exhausted(a) /\ Dropped(a)
  /\ Moves(d)
  /\ UNCHANGED <<server, calls, undos, user, online, shown, retry, late,
                 forgotten>>

Send(d) ==
  LET a == Head(pass[d]) IN
  /\ pass[d] # <<>> /\ Sent(d) = {}
  /\ IsQueued(a) /\ ~Exhausted(a)
  /\ calls' = calls \union {Call(a)}
  /\ UNCHANGED <<server, undos, device, admits, history>>

Bumped(a) == admits' = [admits EXCEPT ![a].tries = @ + 1] /\ UNCHANGED faults

\* removeQueuedScan, whatever the outcome.
Removed(a, outcome) ==
  /\ admits' = IF admits[a].place = "queued"
               THEN [admits EXCEPT ![a].place = "settled", ![a].heard = outcome]
               ELSE admits
  /\ UNCHANGED faults

Answered(d) ==
  LET a == Head(pass[d]) IN
  \E c \in Sent(d) :
    /\ c.at = "done"
    /\ calls' = calls \ {c}
    /\ \/ c.val \in Outcomes /\ Removed(a, c.val) /\ Moves(d)
       \/ /\ c.val \in Errors /\ ~IsQueued(a)
          /\ UNCHANGED <<admits, faults>> /\ Moves(d)
       \/ c.val = "refused" /\ IsQueued(a) /\ Dropped(a) /\ Moves(d)
       \/ c.val \in {"locked", "error"} /\ IsQueued(a) /\ Bumped(a) /\ Moves(d)
       \/ c.val = "network" /\ IsQueued(a) /\ Bumped(a) /\ Stops(d)
    /\ UNCHANGED <<server, undos, user, online, shown, retry, late, forgotten>>

\* A bug to tell apart: a send may wait for its answer for ever.
Patient(c) == FALSE

\* withTimeout gives up on a send that is still unanswered.
Overdue(c) == c.at # "done"

\* No answer in 20 s: the call is left to itself.  A second row in a row ends
\* the pass.
TimesOut(d) ==
  LET a == Head(pass[d]) IN
  \E c \in Sent(d) :
    /\ Overdue(c)
    /\ calls' = (calls \ {c}) \union {[c EXCEPT !.aw = FALSE]}
    /\ IF IsQueued(a) THEN Bumped(a) ELSE UNCHANGED <<admits, faults>>
    /\ Moves(d) \/ (IsQueued(a) /\ Stops(d))
    /\ UNCHANGED <<server, undos, user, online, shown, retry, late, forgotten>>

\* What nobody awaits any more: an answer that came is gone.
Unheard(those) ==
  (calls \ those) \union
    {[c EXCEPT !.aw = FALSE] : c \in {e \in those : e.at # "done"}}

\* A local read or write that throws ends the pass, and the row it was at stays
\* as it was.
PassThrows(d) ==
  /\ pass[d] # <<>> /\ Disturbed("disk")
  /\ Stops(d)
  /\ calls' = Unheard(Sent(d))
  /\ UNCHANGED <<server, undos, user, online, shown, retry, admits, late,
                 forgotten>>

-----------------------------------------------------------------------------
(* The failed-sync list.                                                   *)

Drops(d) == {a \in Ids : admits[a].dev = d /\ admits[a].place = "dropped"}

\* retryAll reads the rows once, to send them one after the other.
RetryDropped(d) ==
  /\ user[d] # Nobody /\ retry[d].rows = <<>>
  /\ \E q \in InOrder(Drops(d)) :
       /\ q # <<>>
       /\ retry' = [retry EXCEPT ![d].rows = q]
  /\ UNCHANGED <<server, calls, undos, user, online, shown, pass, admits, history>>

\* The send of the row a retry is at.
Resent(d) ==
  {c \in calls : c.aw /\ retry[d].rows # <<>> /\ c.adm = Head(retry[d].rows)}

\* It does not ask whether its row is still dropped, nor who is signed in.
Resend(d) ==
  /\ retry[d].rows # <<>> /\ Resent(d) = {}
  /\ calls' = calls \union {Call(Head(retry[d].rows))}
  /\ UNCHANGED <<server, undos, device, admits, history>>

\* An answered row is cleared, if it is there and the database does it.  An
\* error is sent once more by the query client.
Retried(d) ==
  LET a == Head(retry[d].rows)
      Done == retry' = [retry EXCEPT ![d] = [rows |-> Tail(@.rows),
                                             again |-> FALSE]]
  IN
  \E c \in Resent(d) :
    /\ c.at = "done"
    /\ \/ /\ c.val \in Outcomes /\ admits[a].place = "dropped"
          /\ admits' = [admits EXCEPT ![a].place = "settled", ![a].heard = c.val]
          /\ calls' = calls \ {c} /\ Done /\ UNCHANGED faults
       \/ /\ c.val \in Outcomes /\ calls' = calls \ {c} /\ Done
          /\ IF admits[a].place = "dropped" THEN Disturbed("disk")
             ELSE UNCHANGED faults
          /\ UNCHANGED admits
       \/ /\ c.val \in Errors /\ retry[d].again
          /\ calls' = calls \ {c} /\ Done /\ UNCHANGED <<admits, faults>>
       \/ /\ c.val \in Errors /\ ~retry[d].again
          /\ calls' = (calls \ {c}) \union {Call(a)}
          /\ retry' = [retry EXCEPT ![d].again = TRUE]
          /\ UNCHANGED <<admits, faults>>
    /\ UNCHANGED <<server, undos, user, online, shown, pass, late, forgotten>>

Dismiss(a) ==
  /\ admits[a].place = "dropped" /\ user[admits[a].dev] # Nobody
  /\ Goes(a, "dismissed")
  /\ UNCHANGED <<server, calls, undos, device, history>>

-----------------------------------------------------------------------------
(* Undo.                                                                   *)

\* The queued rows of an admission's ticket on its device.
Rows(a) == {b \in Queue(admits[a].dev) : admits[b].t = admits[a].t}

Undoable(a) == admits[a].mark = "stands" /\ user[admits[a].dev] # Nobody

\* undoQueuedScanLocally cancels every row of the ticket.
UndoLocally(a) ==
  /\ Undoable(a) /\ Rows(a) # {}
  /\ admits' = [b \in Ids |->
       LET row == IF b \in Rows(a)
                  THEN [admits[b] EXCEPT !.place = "cancelled"] ELSE admits[b]
       IN IF b = a THEN Marked(row, "undone") ELSE row]
  /\ ShowsAgain(a)
  /\ UNCHANGED <<server, calls, undos, user, online, pass, retry, history>>

\* With no row the server has to revert the scan; revertTicketScan reads it.
UndoAtServer(a) ==
  /\ Undoable(a) /\ Rows(a) = {}
  /\ admits[a].dev \in online /\ a \notin undos
  /\ ticket[admits[a].t] = "SCANNED"
  /\ undos' = undos \union {a}
  /\ UNCHANGED <<server, calls, device, admits, history>>

\* A bug to tell apart: setStatus without the status that was read.
Blindly(t) == TRUE

\* setStatus(VALID, expectedStatus: SCANNED).
StillScanned(t) == ticket[t] = "SCANNED"

\* The revert, and the device's marks unless its answer is lost or they fail.
Revert(a) ==
  LET t == admits[a].t IN
  /\ a \in undos
  /\ undos' = undos \ {a}
  /\ \/ /\ StillScanned(t)
        /\ ticket' = [ticket EXCEPT ![t] = "VALID"]
        /\ reverts' = [reverts EXCEPT ![t] = @ + 1]
        /\ \/ /\ admits' = [admits EXCEPT ![a] = Marked(@, "undone")]
              /\ ShowsAgain(a)
              /\ UNCHANGED faults
           \/ /\ Disturbed("net") \/ Disturbed("disk")
              /\ UNCHANGED <<admits, shown>>
     \/ ~StillScanned(t) /\ UNCHANGED <<ticket, reverts, admits, shown, faults>>
  /\ UNCHANGED <<record, payload, marks, calls, user, online, pass, retry, late,
                 forgotten>>

-----------------------------------------------------------------------------
(* The device, and the ticket elsewhere.                                   *)

\* A bug to tell apart: a table that the purge does not know.
PurgedQueue == {"queued"}

\* clearAll empties the queue and the drops.
PurgedPlaces == {"queued", "dropped"}

\* Sign-out wipes the database, its marks and its copy of the tickets, and
\* ends the pass.  Live calls and a retry of the drops go on.
SignOut(d) ==
  /\ user[d] # Nobody /\ Disturbed("sign-out")
  /\ user' = [user EXCEPT ![d] = Nobody]
  /\ shown' = [shown EXCEPT ![d] = {}]
  /\ Stops(d)
  /\ calls' = Unheard(Sent(d))
  /\ admits' = [a \in Ids |->
       IF admits[a].dev # d THEN admits[a]
       ELSE [admits[a] EXCEPT !.mark = "wiped",
               !.place = IF @ \in PurgedPlaces THEN "purged" ELSE @]]
  /\ UNCHANGED <<server, undos, online, retry, late, forgotten>>

SignIn(d) ==
  /\ user[d] = Nobody /\ d \in online
  /\ \E o \in Operators : user' = [user EXCEPT ![d] = o]
  /\ UNCHANGED <<server, calls, undos, online, shown, admits, pass, retry, history>>

\* The app is killed: the database stays, live calls leave no trace.
AppDies(d) ==
  /\ Disturbed("app")
  /\ Stops(d)
  /\ retry' = [retry EXCEPT ![d] = NoRetry]
  /\ calls' = Unheard({c \in calls : admits[c.adm].dev = d})
  /\ undos' = {a \in undos : admits[a].dev # d}
  /\ admits' = [a \in Ids |->
       IF admits[a].dev = d /\ admits[a].place = "live"
       THEN [admits[a] EXCEPT !.place = "lost"] ELSE admits[a]]
  /\ UNCHANGED <<server, user, online, shown, late, forgotten>>

GoOffline(d) ==
  /\ d \in online /\ Disturbed("net")
  /\ online' = online \ {d}
  /\ UNCHANGED <<server, calls, undos, user, shown, admits, pass, retry, late,
                 forgotten>>

GoOnline(d) ==
  /\ d \notin online
  /\ online' = online \union {d}
  /\ UNCHANGED <<server, calls, undos, user, shown, admits, pass, retry, history>>

\* The manifest replaces the device's copy, its own SCANNED marks included.
Sync(d) ==
  /\ d \in online /\ user[d] # Nobody
  /\ shown' = [shown EXCEPT ![d] = {t \in Tickets : ticket[t] = "VALID"}]
  /\ UNCHANGED <<server, calls, undos, user, online, admits, pass, retry, history>>

\* A refund or a revocation.
Void(t) ==
  /\ ticket[t] # "VOID" /\ Disturbed("void")
  /\ ticket' = [ticket EXCEPT ![t] = "VOID"]
  /\ UNCHANGED <<record, payload, marks, reverts, calls, undos, device, admits,
                 late, forgotten>>

-----------------------------------------------------------------------------
Server(c) == Begin(c) \/ Finish(c)
Settle(c) == LiveSettles(c) \/ LiveRetries(c) \/ LiveQueues(c)
Flush(d) == PassOver(d) \/ Send(d) \/ Answered(d) \/ TimesOut(d)

Next ==
  \/ \E c \in calls : Server(c) \/ Settle(c) \/ Throws(c) \/ Lost(c)
  \/ \E k \in Keys : Lapse(k)
  \/ \E d \in Devices, t \in Tickets : Admit(d, t)
  \/ \E d \in Devices : StartPass(d) \/ Flush(d) \/ PassThrows(d)
  \/ \E d \in Devices : RetryDropped(d) \/ Resend(d) \/ Retried(d)
  \/ \E a \in Ids : Dismiss(a) \/ UndoLocally(a) \/ UndoAtServer(a) \/ Revert(a)
  \/ \E d \in Devices : SignOut(d) \/ SignIn(d) \/ AppDies(d)
  \/ \E d \in Devices : GoOffline(d) \/ GoOnline(d) \/ Sync(d)
  \/ \E t \in Tickets : Void(t)

Spec == Init /\ [][Next]_vars

\* A running app flushes its queue every 15 s and goes through its pass.
FairSpec ==
  Spec /\ \A d \in Devices : SF_vars(StartPass(d)) /\ WF_vars(Flush(d))

-----------------------------------------------------------------------------
(* Properties.                                                             *)

\* How many scans of a ticket were recorded as ACCEPTED.
AcceptedOn(t) == MapThenSumSet(LAMBDA o : marks[<<t, o>>], Operators)

\* The scans recorded as ACCEPTED, less those reverted, are one when the
\* ticket is SCANNED and none when it is VALID: whatever devices, retries and
\* late calls do, nobody gets in on a ticket that somebody else is in on.
AcceptedOnce ==
  \A t \in Tickets :
    /\ ticket[t] = "VALID" => AcceptedOn(t) = reverts[t]
    /\ ticket[t] = "SCANNED" => AcceptedOn(t) = reverts[t] + 1
    /\ AcceptedOn(t) \in {reverts[t], reverts[t] + 1}

\* A call that repeats an earlier one, because its answer was late, does not
\* burn the ticket again after an undo: each key burns its ticket once.  Two
\* cases are excused, key by key: the claim lapsed under a running scan, or
\* over one that burnt the ticket and died or threw before its answer was
\* stored.  Of those only AcceptedOnce speaks.
MarkedOnce == \A k \in Keys : k \notin forgotten => marks[k] <= 1

\* An admission that the operator still sees as standing, and that no server
\* answered, is in the queue or in the failed-sync list or on its way, unless
\* an undo of its ticket took it, the operator dismissed it, the app died or
\* the device's own database failed to write it down, which is only reported.
StandingIsAccounted ==
  \A a \in Ids :
    admits[a].mark = "stands" /\ admits[a].heard = "none" =>
      \/ admits[a].place \in {"live", "queued", "dropped", "dismissed", "lost",
                             "unsaved"}
      \/ /\ admits[a].place = "cancelled"
         /\ \E b \in Ids : /\ admits[b].mark = "undone"
                           /\ admits[b].dev = admits[a].dev
                           /\ admits[b].t = admits[a].t

\* The codes and keys that a device holds are of the operator signed in on it:
\* nothing of a departed operator is left or written back, except by a call
\* that was answered after the sign-out.
PurgeIsFinal ==
  \A a \in Ids :
    admits[a].place \in {"queued", "dropped"} /\ admits[a].dev \notin late =>
      admits[a].op = user[admits[a].dev]

\* No scan and no undo brings a refunded or revoked ticket back.
VoidIsFinal ==
  [][\A t \in Tickets : ticket[t] = "VOID" => ticket'[t] = "VOID"]_vars

\* An admission whose row an undo, a sign-out, a dismissal or an answer took
\* away is not put back by a pass or a call that started before.
GoneStaysGone ==
  [][\A a \in Ids :
       admits[a].place \notin {"live", "queued", "dropped"} =>
         admits'[a].place = admits[a].place]_vars

\* While somebody is signed in and the device is connected, the queue drains:
\* no row is stuck, behind another one or behind a send without an answer.
QueueDrains ==
  \A d \in Devices :
    <>[](d \in online /\ user[d] # Nobody) => <>[](Queue(d) = {})

\* What the key's comment takes for granted, that it only deduplicates retries
\* within 10 s: an admission that stands and was answered ACCEPTED has burnt
\* its ticket, when the one before it was accepted and undone.
AcceptedIsRecorded ==
  \A a, b \in Ids :
    /\ a < b /\ admits[a].t = admits[b].t
    /\ admits[a].mark = "undone" /\ admits[b].mark = "stands"
    /\ admits[a].heard = "ACCEPTED" /\ admits[b].heard = "ACCEPTED"
    => ticket[admits[b].t] # "VALID"
=============================================================================
