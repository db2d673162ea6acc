------------------------------- MODULE Alerts -------------------------------
(* Price alerts: the API requests that create and delete rows of             *)
(* price_alerts, and the check runs (app/tasks/alerts.py, one transaction    *)
(* each) that e-mail the owners of triggered alerts and deactivate the rows. *)
(*                                                                           *)
(* PostgreSQL is READ COMMITTED: a statement sees what is committed when it  *)
(* starts, an UPDATE or DELETE of a row locks it until the transaction ends, *)
(* and a second writer of that row waits and then looks at the row again.    *)
(* An alert id is a uuid4: it stands for one create request, whose product   *)
(* and threshold no endpoint changes, so they are constants.                 *)
EXTENDS Naturals, FiniteSets

CONSTANTS Alerts,      \* alert ids
          Products, Shops,
          Prices,      \* the prices (USD) a shop may quote
          ProductOf,   \* [Alerts -> Products]
          Limit,       \* threshold_price_usd, [Alerts -> Nat]
          Runs,        \* check runs that may be under way at once
          Requests,    \* API requests that may be under way at once
          MaxFaults,   \* bound: crashes, rollbacks and mail errors of a behaviour
          NoAlert, NoPrice

ASSUME AlertsAssumption ==
  /\ ProductOf \in [Alerts -> Products]
  /\ Limit \in [Alerts -> Nat]
  /\ Prices \subseteq Nat
  /\ NoPrice \notin Nat
  /\ NoAlert \notin Alerts
  /\ MaxFaults \in Nat

VARIABLES
  status,    \* what is committed of each alert's row
  price,     \* the latest committed price of each product in each shop
  req,       \* the open transaction of each API request
  pc, todo, cur,   \* each check run: where it is, the rows left, the row in hand
  pending,   \* rows each check run deactivated and has not committed (it holds their locks)
  email_enabled,   \* EMAIL_ENABLED of the deployment; FALSE, the default, is console mode
  bad,       \* alerts whose owner's address the mail server refuses
  mailed,    \* history: e-mails delivered for each alert
  logged,    \* history: alerts whose e-mail was logged instead (console mode)
  faults     \* history: crashes, rollbacks and mail errors so far

smtp == <<email_enabled, bad>>
mail == <<smtp, mailed, logged>>
vars == <<status, price, req, pc, todo, cur, pending, mail, faults>>

Status == {"unused", "inserted", "active", "fired", "deleted"}
Idle == [op |-> "none", alert |-> NoAlert]

TypeOK ==
  /\ status \in [Alerts -> Status]
  /\ price \in [Products -> [Shops -> Prices \cup {NoPrice}]]
  /\ req \in [Requests -> [op : {"none", "create", "delete"}, alert : Alerts \cup {NoAlert}]]
  /\ pc \in [Runs -> {"idle", "sending", "updating", "waiting"}]
  /\ todo \in [Runs -> SUBSET Alerts]
  /\ cur \in [Runs -> Alerts \cup {NoAlert}]
  /\ pending \in [Runs -> SUBSET Alerts]
  /\ email_enabled \in BOOLEAN /\ bad \subseteq Alerts
  /\ mailed \in [Alerts -> Nat] /\ logged \subseteq Alerts
  /\ faults \in Nat

Init ==
  /\ status = [a \in Alerts |-> "unused"]
  /\ price = [p \in Products |-> [s \in Shops |-> NoPrice]]
  /\ req = [q \in Requests |-> Idle]
  /\ pc = [r \in Runs |-> "idle"]
  /\ todo = [r \in Runs |-> {}]
  /\ cur = [r \in Runs |-> NoAlert]
  /\ pending = [r \in Runs |-> {}]
  /\ email_enabled \in BOOLEAN
  /\ bad \in SUBSET Alerts /\ (~ email_enabled => bad = {})
  /\ mailed = [a \in Alerts |-> 0] /\ logged = {}
  /\ faults = 0

-----------------------------------------------------------------------------
(* Rows, locks and the query.                                                *)

\* A committed row of price_alerts.
Stored(a) == status[a] \in {"active", "fired"}

DeletedBy(q, a) == req[q].op = "delete" /\ req[q].alert = a

LockedByRequest(a) == \E q \in Requests : DeletedBy(q, a)

\* The run at the head of row a's queue: it holds PostgreSQL's tuple lock and
\* waits for the transaction that updated or deleted the row to end.
WaitedForBy(o, a) == pc[o] = "waiting" /\ cur[o] = a

Locked(a) == LockedByRequest(a) \/ \E r \in Runs : a \in pending[r]

\* Whoever already waits for the row gets it first.
CanTake(r, a) ==
  /\ ~ LockedByRequest(a)
  /\ \A o \in Runs \ {r} : a \notin pending[o]
  /\ pc[r] = "waiting" \/ \A o \in Runs : ~ WaitedForBy(o, a)

\* The minimum over the shops of the product's latest price is at or below the
\* threshold; a product without a price is not joined.
Triggered(a) == \E s \in Shops : LET x == price[ProductOf[a]][s]
                                 IN x \in Prices /\ x <= Limit[a]

\* The query without its is_active filter.
ListAll == {a \in Alerts : Stored(a) /\ Triggered(a)}

list_triggered == {a \in Alerts : status[a] = "active" /\ Triggered(a)}

-----------------------------------------------------------------------------
(* API requests.  The response is sent first and the commit follows it, so   *)
(* each request is two steps; a failed commit rolls back.                    *)

create_alert(q, a) ==
  /\ req[q] = Idle
  /\ status[a] = "unused"
  /\ status' = [status EXCEPT ![a] = "inserted"]
  /\ req' = [req EXCEPT ![q] = [op |-> "create", alert |-> a]]
  /\ UNCHANGED <<price, pc, todo, cur, pending, mail, faults>>

\* The DELETE waits while a check run or another request has the row locked;
\* a missing row, or one of another user, is a 404 that changes nothing.
delete_alert(q, a) ==
  /\ req[q] = Idle
  /\ Stored(a)
  /\ ~ Locked(a)
  /\ \A r \in Runs : ~ WaitedForBy(r, a)
  /\ req' = [req EXCEPT ![q] = [op |-> "delete", alert |-> a]]
  /\ UNCHANGED <<status, price, pc, todo, cur, pending, mail, faults>>

commit_request(q) ==
  /\ req[q] # Idle
  /\ status' = [status EXCEPT ![req[q].alert] =
                   IF req[q].op = "create" THEN "active" ELSE "deleted"]
  /\ req' = [req EXCEPT ![q] = Idle]
  /\ UNCHANGED <<price, pc, todo, cur, pending, mail, faults>>

rollback_request(q) ==
  /\ req[q] # Idle
  /\ faults < MaxFaults
  /\ faults' = faults + 1
  /\ status' = [status EXCEPT ![req[q].alert] =
                   IF req[q].op = "create" THEN "unused" ELSE @]
  /\ req' = [req EXCEPT ![q] = Idle]
  /\ UNCHANGED <<price, pc, todo, cur, pending, mail>>

-----------------------------------------------------------------------------
(* A fetch task commits new snapshots; q gives the listings it priced.       *)

CommitPrices(q) ==
  /\ price' = [p \in Products |-> [s \in Shops |->
                 IF q[p][s] = NoPrice THEN price[p][s] ELSE q[p][s]]]
  /\ UNCHANGED <<status, req, pc, todo, cur, pending, mail, faults>>

-----------------------------------------------------------------------------
(* A check run.                                                              *)

BeginCheckUnfiltered(r) ==
  /\ pc[r] = "idle"
  /\ ListAll # {}
  /\ todo' = [todo EXCEPT ![r] = ListAll]
  /\ pc' = [pc EXCEPT ![r] = "sending"]
  /\ UNCHANGED <<status, price, req, cur, pending, mail, faults>>

\* A run that finds nothing commits an empty transaction.
BeginCheck(r) ==
  /\ pc[r] = "idle"
  /\ list_triggered # {}
  /\ todo' = [todo EXCEPT ![r] = list_triggered]
  /\ pc' = [pc EXCEPT ![r] = "sending"]
  /\ UNCHANGED <<status, price, req, cur, pending, mail, faults>>

\* send_email returned: the server took the message, or, in console mode, it was
\* logged and no server was asked.  The query has no ORDER BY: any remaining row
\* may be next.
SendEmail(r, a) ==
  /\ pc[r] = "sending"
  /\ a \in todo[r]
  /\ IF email_enabled
       THEN /\ a \notin bad
            /\ mailed' = [mailed EXCEPT ![a] = @ + 1]
            /\ UNCHANGED logged
       ELSE logged' = logged \cup {a} /\ UNCHANGED mailed
  /\ todo' = [todo EXCEPT ![r] = @ \ {a}]
  /\ cur' = [cur EXCEPT ![r] = a]
  /\ pc' = [pc EXCEPT ![r] = "updating"]
  /\ UNCHANGED <<status, price, req, pending, smtp, faults>>

\* The except clause falls through to deactivate.
EmailFailsAndDeactivates(r, a) ==
  /\ pc[r] = "sending" /\ email_enabled
  /\ a \in todo[r]
  /\ \/ a \in bad /\ UNCHANGED faults
     \/ a \notin bad /\ faults < MaxFaults /\ faults' = faults + 1
  /\ todo' = [todo EXCEPT ![r] = @ \ {a}]
  /\ cur' = [cur EXCEPT ![r] = a]
  /\ pc' = [pc EXCEPT ![r] = "updating"]
  /\ UNCHANGED <<status, price, req, pending, mail>>

\* The exception ends the whole run instead of this row.
EmailFailureEndsRun(r, a) ==
  /\ pc[r] = "sending" /\ email_enabled
  /\ a \in todo[r]
  /\ \/ a \in bad /\ UNCHANGED faults
     \/ a \notin bad /\ faults < MaxFaults /\ faults' = faults + 1
  /\ todo' = [todo EXCEPT ![r] = {}]
  /\ pc' = [pc EXCEPT ![r] = "idle"]
  /\ pending' = [pending EXCEPT ![r] = {}]
  /\ UNCHANGED <<status, price, req, cur, mail>>

\* The failed row is kept for another try in the same run.
EmailRetriedForever(r, a) ==
  /\ pc[r] = "sending" /\ email_enabled
  /\ a \in todo[r]
  /\ \/ a \in bad /\ UNCHANGED faults
     \/ a \notin bad /\ faults < MaxFaults /\ faults' = faults + 1
  /\ UNCHANGED <<status, price, req, pc, todo, cur, pending, mail>>

\* send_email raised: logged, and the loop goes on with the next row.
EmailFails(r, a) ==
  /\ pc[r] = "sending" /\ email_enabled
  /\ a \in todo[r]
  /\ \/ a \in bad /\ UNCHANGED faults
     \/ a \notin bad /\ faults < MaxFaults /\ faults' = faults + 1
  /\ todo' = [todo EXCEPT ![r] = @ \ {a}]
  /\ UNCHANGED <<status, price, req, pc, cur, pending, mail>>

\* The server took the message and the reply was lost: the owner gets the
\* e-mail, send_email raises, and the row stays active.
EmailReplyLost(r, a) ==
  /\ pc[r] = "sending" /\ email_enabled
  /\ a \in todo[r] \ bad
  /\ faults < MaxFaults
  /\ faults' = faults + 1
  /\ mailed' = [mailed EXCEPT ![a] = @ + 1]
  /\ todo' = [todo EXCEPT ![r] = @ \ {a}]
  /\ UNCHANGED <<status, price, req, pc, cur, pending, smtp, logged>>

\* Another transaction has updated or deleted the row and has not ended.  A
\* run that finds the row already waited for stays behind ("updating").
WaitForRow(r) ==
  /\ pc[r] = "updating"
  /\ Locked(cur[r])
  /\ \A o \in Runs : ~ WaitedForBy(o, cur[r])
  /\ pc' = [pc EXCEPT ![r] = "waiting"]
  /\ UNCHANGED <<status, price, req, todo, cur, pending, mail, faults>>

\* The row in hand is let go before it is recorded: the wrong id is updated.
DeactivateStale(r) ==
  /\ pc[r] \in {"updating", "waiting"}
  /\ CanTake(r, cur[r])
  /\ cur' = [cur EXCEPT ![r] = NoAlert]
  /\ pending' = [pending EXCEPT ![r] = @ \cup {cur'[r]}]
  /\ pc' = [pc EXCEPT ![r] = "sending"]
  /\ UNCHANGED <<status, price, req, todo, mail, faults>>

\* The row is written back whether or not it still exists.
DeactivateUpsert(r) ==
  /\ pc[r] \in {"updating", "waiting"}
  /\ CanTake(r, cur[r])
  /\ pending' = [pending EXCEPT ![r] = @ \cup {cur[r]}]
  /\ cur' = [cur EXCEPT ![r] = NoAlert]
  /\ pc' = [pc EXCEPT ![r] = "sending"]
  /\ UNCHANGED <<status, price, req, todo, mail, faults>>

\* UPDATE ... WHERE id: once the row is free it matches a row that another run
\* fired (triggered_at is overwritten), and no row if it was deleted.
deactivate(r) ==
  /\ pc[r] \in {"updating", "waiting"}
  /\ CanTake(r, cur[r])
  /\ pending' = [pending EXCEPT ![r] = IF Stored(cur[r]) THEN @ \cup {cur[r]} ELSE @]
  /\ cur' = [cur EXCEPT ![r] = NoAlert]
  /\ pc' = [pc EXCEPT ![r] = "sending"]
  /\ UNCHANGED <<status, price, req, todo, mail, faults>>

\* The task returns without db.commit(): closing the session rolls back.
ReturnWithoutCommit(r) ==
  /\ pc[r] = "sending"
  /\ todo[r] = {}
  /\ pending' = [pending EXCEPT ![r] = {}]
  /\ pc' = [pc EXCEPT ![r] = "idle"]
  /\ UNCHANGED <<status, price, req, todo, cur, mail, faults>>

CommitCheck(r) ==
  /\ pc[r] = "sending"
  /\ todo[r] = {}
  /\ status' = [a \in Alerts |-> IF a \in pending[r] THEN "fired" ELSE status[a]]
  /\ pending' = [pending EXCEPT ![r] = {}]
  /\ pc' = [pc EXCEPT ![r] = "idle"]
  /\ UNCHANGED <<price, req, todo, cur, mail, faults>>

\* The transaction of run r is gone; Celery acknowledged the task when it
\* started, so only the next scheduled run looks at these alerts again.
Abandon(r) ==
  /\ faults' = faults + 1
  /\ pc' = [pc EXCEPT ![r] = "idle"]
  /\ todo' = [todo EXCEPT ![r] = {}]
  /\ cur' = [cur EXCEPT ![r] = NoAlert]
  /\ pending' = [pending EXCEPT ![r] = {}]
  /\ UNCHANGED <<status, price, req, mail>>

\* The worker dies, or the connection or the commit fails.
CrashCheck(r) == pc[r] # "idle" /\ faults < MaxFaults /\ Abandon(r)

Waits(r, o) ==
  /\ r # o
  /\ \/ pc[r] = "waiting" /\ cur[r] \in pending[o]
     \/ pc[r] = "updating" /\ WaitedForBy(o, cur[r])

\* r is on a cycle of check runs each waiting for a row the next has updated.
InCycle(r) == \E S \in SUBSET Runs :
                 /\ r \in S
                 /\ \A x \in S : \E o \in S : Waits(x, o)
                 /\ \A x \in S : \E o \in S : Waits(o, x)

\* PostgreSQL aborts one transaction of a cycle; deactivate is outside the
\* try block, so the task fails.
DeadlockVictim(r) == InCycle(r) /\ Abandon(r)

-----------------------------------------------------------------------------
Quotes == [Products -> [Shops -> Prices \cup {NoPrice}]]

RequestStep(q) ==
  \/ \E a \in Alerts : create_alert(q, a) \/ delete_alert(q, a)
  \/ commit_request(q) \/ rollback_request(q)

CheckStep(r) ==
  \/ BeginCheck(r) \/ WaitForRow(r) \/ deactivate(r) \/ CommitCheck(r) \/ DeadlockVictim(r)
  \/ \E a \in Alerts : SendEmail(r, a) \/ EmailFails(r, a)

FaultStep(r) == CrashCheck(r) \/ \E a \in Alerts : EmailReplyLost(r, a)

Next ==
  \/ \E q \in Requests : RequestStep(q)
  \/ \E qs \in Quotes : CommitPrices(qs)
  \/ \E r \in Runs : CheckStep(r) \/ FaultStep(r)

Spec == Init /\ [][Next]_vars

\* Celery beat schedules the check again and again, an awaited statement
\* returns, and an open request ends.
Fairness == /\ \A r \in Runs : WF_vars(CheckStep(r))
            /\ \A q \in Requests : WF_vars(commit_request(q))

FairSpec == Spec /\ Fairness

-----------------------------------------------------------------------------
(* Properties.                                                               *)

\* send_email has done its part for the alert: its owner received an e-mail or, in
\* console mode, the e-mail is in the log and nobody received anything.
Reported(a) == IF email_enabled THEN mailed[a] > 0 ELSE a \in logged

\* An alert is marked fired only after it was reported, and with EMAIL_ENABLED that
\* is an e-mail to its owner: check_alerts deactivates after send_email returned, in
\* the same iteration.  In console mode, the default, alerts fire without an e-mail.
FiredWasReported == \A a \in Alerts : status[a] = "fired" => Reported(a)

\* An owner gets at most one e-mail per check run that may be under way plus
\* one for each crash, rollback or lost reply: the deactivation is committed
\* with the run that sent the e-mail and hides the row from every later one.
EmailBudget == \A a \in Alerts : mailed[a] <= Cardinality(Runs) + faults

\* The documents' promise: an alert is deactivated after its first firing, so
\* it is e-mailed once.
AtMostOneEmail == \A a \in Alerts : mailed[a] <= 1

\* No interleaving of check runs and requests brings a deleted alert back, and
\* a fired alert is never armed again, although deactivate updates by id alone.
OneWay == [][\A a \in Alerts :
               /\ status[a] = "deleted" => status'[a] = "deleted"
               /\ status[a] = "fired" => status'[a] \in {"fired", "deleted"}]_vars

\* The alert can be reported and the price is at the threshold.
Due(a) == a \notin bad /\ status[a] = "active" /\ Triggered(a)

\* An alert that stays due is served in the end, whatever happens to the other
\* alerts of the batch: one refused address does not hold up the rest, and
\* check runs that deadlock on each other's rows make progress.
DueIsServed == \A a \in Alerts : []<>~Due(a)

\* Every check run ends: rows locked by other runs and requests, deadlocks and
\* addresses that are always refused cannot keep it going for ever.
RunsEnd == \A r \in Runs : []<>(pc[r] = "idle")

-----------------------------------------------------------------------------
(* The inductive invariants of the proofs: IInv is behind FiredWasReported and *)
(* ImplementsDelivery, and with BudgetInv behind EmailBudget.                 *)

\* A row with a transaction that was committed for it.
Visible(a) == status[a] \in {"active", "fired", "deleted"}

RequestsOK ==
  /\ \A q \in Requests : req[q] # Idle =>
       /\ req[q].alert \in Alerts
       /\ \/ req[q].op = "create" /\ status[req[q].alert] = "inserted"
          \/ req[q].op = "delete" /\ Stored(req[q].alert)
  /\ \A q, x \in Requests :
       req[q] # Idle /\ req[x] # Idle /\ q # x => req[q].alert # req[x].alert

RunsOK ==
  \A r \in Runs :
    /\ \A a \in todo[r] : Visible(a)
    /\ pc[r] \in {"updating", "waiting"} => cur[r] \in Alerts /\ Reported(cur[r])
    /\ \A a \in pending[r] :
         Stored(a) /\ Reported(a) /\ \A q \in Requests : ~ DeletedBy(q, a)

MailOK == \A a \in Alerts : Reported(a) => Visible(a)

IInv == TypeOK /\ RequestsOK /\ RunsOK /\ MailOK /\ FiredWasReported

\* The runs with an e-mail for alert a that they have not committed, and those that
\* may still send one.
Holds(a) ==
  {r \in Runs : \/ a \in pending[r]
                \/ pc[r] \in {"updating", "waiting"} /\ cur[r] = a}

MayMail(a) == {r \in Runs : a \in todo[r]}

\* A run is done with the rows it has mailed.
RowsInHand ==
  \A r \in Runs :
    /\ pc[r] = "idle" => pending[r] = {}
    /\ pending[r] \cap todo[r] = {}
    /\ pc[r] \in {"updating", "waiting"} => cur[r] \notin todo[r]

\* While an alert is active only the runs under way and the faults account for its
\* e-mails; once it is retired no further run selects it.
MailsAccounted ==
  \A a \in Alerts :
    IF status[a] \in {"fired", "deleted"}
    THEN mailed[a] + Cardinality(MayMail(a)) <= Cardinality(Runs) + faults
    ELSE mailed[a] <= Cardinality(Holds(a)) + faults

BudgetInv == RowsInHand /\ MailsAccounted

-----------------------------------------------------------------------------
(* The alerts feature as its users see it.                                   *)

PhaseOf(x) == CASE x \in {"unused", "inserted"} -> "none"
                [] x = "active" -> "armed"
                [] x = "fired" -> "fired"
                [] x = "deleted" -> "removed"

Phases == [a \in Alerts |-> PhaseOf(status[a])]

Notified == {a \in Alerts : Reported(a)}

Delivery == INSTANCE AlertDelivery WITH phase <- Phases, notified <- Notified

\* The requests and check runs implement the promise: armed, reported, then
\* retired in batches that contain only reported alerts.
ImplementsDelivery == Delivery!ASpec
=============================================================================
