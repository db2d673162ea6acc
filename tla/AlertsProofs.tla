---------------------------- MODULE AlertsProofs ----------------------------
(* Theorems of module Alerts, for every set of alerts, products, shops,      *)
(* runs and requests, every threshold and every number of faults.            *)
EXTENDS Alerts, TLAPS, FiniteSetTheorems

USE AlertsAssumption DEF mail, smtp

LEMMA InitIInv == Init => IInv
<1> SUFFICES ASSUME Init PROVE IInv
  OBVIOUS
<1>1. TypeOK
  BY DEF Init, TypeOK, Status, Idle
<1>2. RequestsOK /\ RunsOK
  BY DEF Init, RequestsOK, RunsOK
<1>3. MailOK /\ FiredWasReported
  BY DEF Init, MailOK, FiredWasReported, Reported
<1> QED BY <1>1, <1>2, <1>3 DEF IInv

LEMMA Step_create_alert ==
  ASSUME IInv, NEW q \in Requests, NEW a \in Alerts, create_alert(q, a)
  PROVE  IInv'
<1> USE DEF IInv, create_alert, Idle
<1>1. TypeOK'
  BY DEF TypeOK, Status
<1>2. RequestsOK'
  <2>1. /\ \A x \in Requests : req[x] # Idle => req[x].alert # a
        /\ \A x \in Requests \ {q} : req'[x] = req[x]
        /\ req'[q] = [op |-> "create", alert |-> a]
    BY DEF TypeOK, RequestsOK, Stored
  <2>2. /\ status'[a] = "inserted"
        /\ \A b \in Alerts \ {a} : status'[b] = status[b]
    BY DEF TypeOK
  <2> QED BY <2>1, <2>2 DEF RequestsOK, Stored
<1>3. RunsOK'
  BY DEF RunsOK, Stored, DeletedBy, Visible, Reported
<1>4. MailOK'
  BY DEF MailOK, Visible, Reported
<1>5. FiredWasReported'
  BY DEF FiredWasReported, Reported
<1> QED BY <1>1, <1>2, <1>3, <1>4, <1>5

LEMMA Step_delete_alert ==
  ASSUME IInv, NEW q \in Requests, NEW a \in Alerts, delete_alert(q, a)
  PROVE  IInv'
<1> USE DEF IInv, delete_alert, Idle, Locked, LockedByRequest
<1>1. TypeOK'
  BY DEF TypeOK
<1>2. RequestsOK'
  BY DEF RequestsOK, Stored, DeletedBy
<1>3. RunsOK'
  BY DEF RunsOK, Stored, DeletedBy, Visible, Reported
<1>4. MailOK'
  BY DEF MailOK, Visible, Reported
<1>5. FiredWasReported'
  BY DEF FiredWasReported, Reported
<1> QED BY <1>1, <1>2, <1>3, <1>4, <1>5

LEMMA Step_commit_request ==
  ASSUME IInv, NEW q \in Requests, commit_request(q)
  PROVE  IInv'
<1> USE DEF IInv, commit_request, Idle
<1>1. TypeOK'
  BY DEF TypeOK, Status
<1>2. RequestsOK'
  BY DEF TypeOK, RequestsOK, Stored
<1>3. RunsOK'
  BY DEF RequestsOK, RunsOK, Stored, DeletedBy, Visible, Reported
<1>4. MailOK'
  BY DEF MailOK, Visible, Reported
<1>5. FiredWasReported'
  BY DEF FiredWasReported, Reported
<1> QED BY <1>1, <1>2, <1>3, <1>4, <1>5

LEMMA Step_rollback_request ==
  ASSUME IInv, NEW q \in Requests, rollback_request(q)
  PROVE  IInv'
<1> USE DEF IInv, rollback_request, Idle
<1>1. TypeOK'
  <2>1. status' \in [Alerts -> Status]
    BY DEF TypeOK, Status
  <2>2. req' \in [Requests -> [op : {"none", "create", "delete"}, alert : Alerts \cup {NoAlert}]]
    BY DEF TypeOK
  <2> QED BY <2>1, <2>2 DEF TypeOK
<1>2. RequestsOK'
  BY DEF TypeOK, RequestsOK, Stored
<1>3. RunsOK'
  BY DEF RequestsOK, RunsOK, Stored, DeletedBy, Visible, Reported
<1>4. MailOK'
  BY DEF RequestsOK, MailOK, Visible, Reported
<1>5. FiredWasReported'
  BY DEF FiredWasReported, Reported
<1> QED BY <1>1, <1>2, <1>3, <1>4, <1>5

LEMMA Step_CommitPrices ==
  ASSUME IInv, NEW qs \in Quotes, CommitPrices(qs)
  PROVE  IInv'
<1> USE DEF IInv, CommitPrices, Quotes
<1>1. TypeOK'
  BY DEF TypeOK
<1>2. RequestsOK'
  BY DEF RequestsOK, Stored
<1>3. RunsOK'
  BY DEF RunsOK, Stored, DeletedBy, Visible, Reported
<1>4. MailOK'
  BY DEF MailOK, Visible, Reported
<1>5. FiredWasReported'
  BY DEF FiredWasReported, Reported
<1> QED BY <1>1, <1>2, <1>3, <1>4, <1>5

LEMMA Step_BeginCheck ==
  ASSUME IInv, NEW r \in Runs, BeginCheck(r)
  PROVE  IInv'
<1> USE DEF IInv, BeginCheck, list_triggered
<1>1. TypeOK'
  BY DEF TypeOK
<1>2. RequestsOK'
  BY DEF RequestsOK, Stored
<1>3. RunsOK'
  BY DEF RunsOK, Stored, DeletedBy, Visible, Reported
<1>4. MailOK'
  BY DEF MailOK, Visible, Reported
<1>5. FiredWasReported'
  BY DEF FiredWasReported, Reported
<1> QED BY <1>1, <1>2, <1>3, <1>4, <1>5

LEMMA Step_WaitForRow ==
  ASSUME IInv, NEW r \in Runs, WaitForRow(r)
  PROVE  IInv'
<1> USE DEF IInv, WaitForRow
<1>1. TypeOK'
  BY DEF TypeOK
<1>2. RequestsOK'
  BY DEF RequestsOK, Stored
<1>3. RunsOK'
  BY DEF RunsOK, Stored, DeletedBy, Visible, Reported
<1>4. MailOK'
  BY DEF MailOK, Visible, Reported
<1>5. FiredWasReported'
  BY DEF FiredWasReported, Reported
<1> QED BY <1>1, <1>2, <1>3, <1>4, <1>5

LEMMA Step_deactivate ==
  ASSUME IInv, NEW r \in Runs, deactivate(r)
  PROVE  IInv'
<1> USE DEF IInv, deactivate, CanTake, LockedByRequest
<1>1. TypeOK'
  BY DEF TypeOK, RunsOK
<1>2. RequestsOK'
  BY DEF RequestsOK, Stored
<1>3. RunsOK'
  BY DEF TypeOK, RunsOK, Stored, DeletedBy, Visible, Reported
<1>4. MailOK'
  BY DEF MailOK, Visible, Reported
<1>5. FiredWasReported'
  BY DEF FiredWasReported, Reported
<1> QED BY <1>1, <1>2, <1>3, <1>4, <1>5

LEMMA Step_CommitCheck ==
  ASSUME IInv, NEW r \in Runs, CommitCheck(r)
  PROVE  IInv'
<1> USE DEF IInv, CommitCheck
<1>1. TypeOK'
  BY DEF TypeOK, Status
<1>2. RequestsOK'
  BY DEF RequestsOK, RunsOK, Stored
<1>3. RunsOK'
  BY DEF TypeOK, RunsOK, Stored, DeletedBy, Visible, Reported
<1>4. MailOK'
  BY DEF MailOK, Visible, Reported
<1>5. FiredWasReported'
  BY DEF RunsOK, FiredWasReported, Reported
<1> QED BY <1>1, <1>2, <1>3, <1>4, <1>5

LEMMA Step_Abandon ==
  ASSUME IInv, NEW r \in Runs, Abandon(r)
  PROVE  IInv'
<1> USE DEF IInv, Abandon
<1>1. TypeOK'
  BY DEF TypeOK
<1>2. RequestsOK'
  BY DEF RequestsOK, Stored
<1>3. RunsOK'
  BY DEF TypeOK, RunsOK, Stored, DeletedBy, Visible, Reported
<1>4. MailOK'
  BY DEF MailOK, Visible, Reported
<1>5. FiredWasReported'
  BY DEF FiredWasReported, Reported
<1> QED BY <1>1, <1>2, <1>3, <1>4, <1>5

LEMMA Step_SendEmail ==
  ASSUME IInv, NEW r \in Runs, NEW a \in Alerts, SendEmail(r, a)
  PROVE  IInv'
<1> USE DEF IInv
<1>1. TypeOK'
  BY DEF SendEmail, TypeOK
<1>2. /\ UNCHANGED <<status, req, pending>>
      /\ Visible(a)
      /\ todo' = [todo EXCEPT ![r] = @ \ {a}]
      /\ pc' = [pc EXCEPT ![r] = "updating"] /\ cur' = [cur EXCEPT ![r] = a]
  BY DEF SendEmail, RunsOK
<1>3. \A b \in Alerts : Reported(b)' <=> Reported(b) \/ b = a
  BY DEF SendEmail, Reported, TypeOK
<1>4. RequestsOK'
  BY <1>2 DEF RequestsOK, Stored
<1>5. RunsOK'
  BY <1>2, <1>3 DEF TypeOK, RunsOK, Stored, DeletedBy, Visible
<1>6. MailOK'
  BY <1>2, <1>3 DEF MailOK, Visible
<1>7. FiredWasReported'
  BY <1>2, <1>3 DEF FiredWasReported
<1> QED BY <1>1, <1>4, <1>5, <1>6, <1>7

LEMMA Step_EmailFails ==
  ASSUME IInv, NEW r \in Runs, NEW a \in Alerts, EmailFails(r, a)
  PROVE  IInv'
<1> USE DEF IInv, EmailFails
<1>1. TypeOK'
  BY DEF TypeOK
<1>2. RequestsOK'
  BY DEF RequestsOK, Stored
<1>3. RunsOK'
  BY DEF RunsOK, Stored, DeletedBy, Visible, Reported
<1>4. MailOK'
  BY DEF MailOK, Visible, Reported
<1>5. FiredWasReported'
  BY DEF FiredWasReported, Reported
<1> QED BY <1>1, <1>2, <1>3, <1>4, <1>5

LEMMA Step_EmailReplyLost ==
  ASSUME IInv, NEW r \in Runs, NEW a \in Alerts, EmailReplyLost(r, a)
  PROVE  IInv'
<1> USE DEF IInv, EmailReplyLost
<1>1. TypeOK'
  BY DEF TypeOK
<1>2. RequestsOK'
  BY DEF RequestsOK, Stored
<1>3. RunsOK'
  BY DEF TypeOK, RunsOK, Stored, DeletedBy, Visible, Reported
<1>4. MailOK'
  BY DEF RunsOK, MailOK, Visible, Reported
<1>5. FiredWasReported'
  BY DEF TypeOK, FiredWasReported, Reported
<1> QED BY <1>1, <1>2, <1>3, <1>4, <1>5

-----------------------------------------------------------------------------
LEMMA IInvInductive == IInv /\ [Next]_vars => IInv'
<1> SUFFICES ASSUME IInv, [Next]_vars PROVE IInv'
  OBVIOUS
<1>1. ASSUME NEW q \in Requests, RequestStep(q) PROVE IInv'
  BY <1>1, Step_create_alert, Step_delete_alert, Step_commit_request,
     Step_rollback_request DEF RequestStep
<1>2. ASSUME NEW qs \in Quotes, CommitPrices(qs) PROVE IInv'
  BY <1>2, Step_CommitPrices
<1>3. ASSUME NEW r \in Runs, CheckStep(r) PROVE IInv'
  BY <1>3, Step_BeginCheck, Step_WaitForRow, Step_deactivate, Step_CommitCheck,
     Step_Abandon, Step_SendEmail, Step_EmailFails DEF CheckStep, DeadlockVictim
<1>4. ASSUME NEW r \in Runs, FaultStep(r) PROVE IInv'
  BY <1>4, Step_Abandon, Step_EmailReplyLost DEF FaultStep, CrashCheck
<1>5. CASE UNCHANGED vars
  BY <1>5 DEF vars, IInv, TypeOK, RequestsOK, RunsOK, MailOK, FiredWasReported,
     Visible, Stored, DeletedBy, Reported
<1> QED BY <1>1, <1>2, <1>3, <1>4, <1>5 DEF Next

THEOREM InvariantHolds == Spec => []IInv
<1> QED BY InitIInv, IInvInductive, PTL DEF Spec

\* Type correctness of the requests and check runs.
THEOREM TypeCorrect == Spec => []TypeOK
<1>1. IInv => TypeOK
  BY DEF IInv
<1> QED BY <1>1, InvariantHolds, PTL

\* No alert is marked fired unless its owner was e-mailed or, in console mode, the
\* e-mail was logged, however many check runs overlap and wherever they crash.
THEOREM FiredIsReported == Spec => []FiredWasReported
<1>1. IInv => FiredWasReported
  BY DEF IInv
<1> QED BY <1>1, InvariantHolds, PTL

-----------------------------------------------------------------------------
(* No step brings back a deleted row or arms a fired one.                    *)

NoReturn == \A a \in Alerts :
              /\ status[a] = "deleted" => status'[a] = "deleted"
              /\ status[a] = "fired" => status'[a] \in {"fired", "deleted"}

LEMMA StepNoReturn == IInv /\ [Next]_vars => NoReturn
<1> SUFFICES ASSUME IInv, [Next]_vars PROVE NoReturn
  OBVIOUS
<1> USE DEF NoReturn
<1>1. ASSUME NEW q \in Requests, RequestStep(q) PROVE NoReturn
  BY <1>1 DEF RequestStep, create_alert, delete_alert, commit_request,
     rollback_request, IInv, TypeOK, RequestsOK
<1>2. ASSUME NEW r \in Runs, CommitCheck(r) PROVE NoReturn
  BY <1>2 DEF CommitCheck, IInv, RunsOK, Stored
<1>3. ASSUME UNCHANGED status PROVE NoReturn
  BY <1>3
<1>4. ASSUME NEW r \in Runs, CheckStep(r), ~ CommitCheck(r) PROVE NoReturn
  BY <1>3, <1>4 DEF CheckStep, BeginCheck, WaitForRow, deactivate, DeadlockVictim,
     Abandon, SendEmail, EmailFails
<1>5. ASSUME NEW r \in Runs, FaultStep(r) PROVE NoReturn
  BY <1>3, <1>5 DEF FaultStep, CrashCheck, Abandon, EmailReplyLost
<1> QED BY <1>1, <1>2, <1>3, <1>4, <1>5 DEF Next, CommitPrices, vars

\* A deleted alert stays deleted and a fired one is never armed again, although
\* deactivate writes by id from a list read before the e-mails went out.
THEOREM NeverBack == Spec => OneWay
<1>1. IInv /\ [Next]_vars => [NoReturn]_vars
  BY StepNoReturn
<1> QED BY <1>1, InvariantHolds, PTL DEF Spec, OneWay, NoReturn

-----------------------------------------------------------------------------
(* Every step is a step of AlertDelivery or leaves its variables alone.      *)

LEMMA PhaseTable ==
  /\ PhaseOf("unused") = "none" /\ PhaseOf("inserted") = "none"
  /\ PhaseOf("active") = "armed" /\ PhaseOf("fired") = "fired"
  /\ PhaseOf("deleted") = "removed"
BY DEF PhaseOf

DStep == [Delivery!ANext]_(Delivery!avars)

LEMMA SameStatusAndMail == ASSUME UNCHANGED <<status, mail>> PROVE DStep
<1>1. Phases' = Phases /\ Notified' = Notified
  BY DEF Phases, Notified, Reported
<1> QED BY <1>1 DEF DStep, Delivery!avars

LEMMA MailNotifies ==
  ASSUME IInv, NEW a \in Alerts, UNCHANGED <<status, smtp>>, Visible(a),
         IF email_enabled
           THEN mailed' = [mailed EXCEPT ![a] = @ + 1] /\ UNCHANGED logged
           ELSE logged' = logged \cup {a} /\ UNCHANGED mailed
  PROVE  DStep
<1>1. Phases' = Phases
  BY DEF Phases
<1>2. Phases[a] # "none"
  BY PhaseTable DEF Phases, Visible
<1>3. Notified' = Notified \cup {a}
  BY DEF Notified, Reported, IInv, TypeOK
<1>4. Delivery!Notify(a)
  BY <1>1, <1>2, <1>3 DEF Delivery!Notify
<1> QED BY <1>4 DEF DStep, Delivery!ANext

LEMMA RequestSimulates ==
  ASSUME IInv, NEW q \in Requests, RequestStep(q)
  PROVE  DStep
<1> DEFINE a == req[q].alert
<1>1. Notified' = Notified
  BY DEF RequestStep, create_alert, delete_alert, commit_request,
     rollback_request, Notified, Reported
<1>2. ASSUME NEW b \in Alerts, create_alert(q, b) PROVE DStep
  <2>1. Phases' = Phases
    BY <1>2, PhaseTable DEF create_alert, Phases
  <2> QED BY <1>1, <2>1 DEF DStep, Delivery!avars
<1>3. ASSUME NEW b \in Alerts, delete_alert(q, b) PROVE DStep
  BY <1>3, SameStatusAndMail DEF delete_alert
<1>4. CASE rollback_request(q)
  <2>1. Phases' = Phases
    BY <1>4, PhaseTable DEF rollback_request, Phases, IInv, RequestsOK
  <2> QED BY <1>1, <2>1 DEF DStep, Delivery!avars
<1>5. CASE commit_request(q) /\ req[q].op = "create"
  <2>1. a \in Alerts /\ status[a] = "inserted"
    BY <1>5 DEF commit_request, IInv, RequestsOK
  <2>2. status' = [status EXCEPT ![a] = "active"]
    BY <1>5 DEF commit_request
  <2>3. Phases[a] = "none" /\ Phases' = [Phases EXCEPT ![a] = "armed"]
    BY <2>1, <2>2, PhaseTable DEF Phases, IInv, TypeOK
  <2> QED BY <1>1, <2>1, <2>3 DEF DStep, Delivery!ANext, Delivery!Arm
<1>6. CASE commit_request(q) /\ req[q].op # "create"
  <2>1. a \in Alerts /\ Stored(a)
    BY <1>6 DEF commit_request, IInv, RequestsOK
  <2>2. status' = [status EXCEPT ![a] = "deleted"]
    BY <1>6 DEF commit_request
  <2>3. Phases[a] \in {"armed", "fired"} /\ Phases' = [Phases EXCEPT ![a] = "removed"]
    BY <2>1, <2>2, PhaseTable DEF Phases, Stored, IInv, TypeOK
  <2> QED BY <1>1, <2>1, <2>3 DEF DStep, Delivery!ANext, Delivery!Remove
<1> QED BY <1>2, <1>3, <1>4, <1>5, <1>6 DEF RequestStep

LEMMA CommitRetires ==
  ASSUME IInv, NEW r \in Runs, CommitCheck(r)
  PROVE  DStep
<1> DEFINE S == {a \in pending[r] : status[a] = "active"}
<1>1. S \in SUBSET Alerts /\ Notified' = Notified
  BY DEF CommitCheck, Notified, Reported, IInv, TypeOK
<1>2. \A a \in S : Phases[a] = "armed" /\ a \in Notified
  BY <1>1, PhaseTable DEF Phases, Notified, IInv, RunsOK
<1>3. Phases' = [a \in Alerts |-> IF a \in S THEN "fired" ELSE Phases[a]]
  BY PhaseTable DEF CommitCheck, Phases, IInv, RunsOK, Stored
<1>4. Delivery!Retire(S)
  BY <1>1, <1>2, <1>3 DEF Delivery!Retire
<1> QED BY <1>1, <1>4 DEF DStep, Delivery!ANext

LEMMA StepSimulates == IInv /\ [Next]_vars => DStep
<1> SUFFICES ASSUME IInv, [Next]_vars PROVE DStep
  OBVIOUS
<1>1. ASSUME NEW r \in Runs, NEW a \in Alerts, SendEmail(r, a) \/ EmailReplyLost(r, a)
      PROVE  DStep
  BY <1>1, MailNotifies DEF SendEmail, EmailReplyLost, IInv, RunsOK
<1>2. ASSUME NEW r \in Runs, CheckStep(r), ~ CommitCheck(r) PROVE DStep
  BY <1>1, <1>2, SameStatusAndMail DEF CheckStep, BeginCheck, WaitForRow, deactivate,
     DeadlockVictim, Abandon, EmailFails
<1>3. ASSUME NEW r \in Runs, FaultStep(r) PROVE DStep
  BY <1>1, <1>3, SameStatusAndMail DEF FaultStep, CrashCheck, Abandon
<1>4. ASSUME NEW qs \in Quotes, CommitPrices(qs) PROVE DStep
  BY <1>4, SameStatusAndMail DEF CommitPrices
<1>5. CASE UNCHANGED vars
  BY <1>5, SameStatusAndMail DEF vars
<1> QED BY <1>2, <1>3, <1>4, <1>5, RequestSimulates, CommitRetires DEF Next

LEMMA InitSimulates == Init => Delivery!AInit
BY PhaseTable DEF Init, Delivery!AInit, Phases, Notified, Reported

\* Requests and check runs together implement the promise of AlertDelivery.
THEOREM Implements == Spec => ImplementsDelivery
<1>1. IInv /\ [Next]_vars => [Delivery!ANext]_(Delivery!avars)
  BY StepSimulates DEF DStep
<1> QED BY <1>1, InitSimulates, InvariantHolds, PTL
        DEF Spec, ImplementsDelivery, Delivery!ASpec

\* -------------------------------------------------------------------------
\* EmailBudget, for any finite number of runs.

Retired(a) == status[a] \in {"fired", "deleted"}

LEMMA HoldersAreRuns ==
  ASSUME IsFiniteSet(Runs), NEW a \in Alerts
  PROVE  /\ IsFiniteSet(Holds(a)) /\ Cardinality(Holds(a)) \in Nat
         /\ IsFiniteSet(MayMail(a)) /\ Cardinality(MayMail(a)) \in Nat
         /\ Cardinality(Holds(a)) <= Cardinality(Runs) /\ Cardinality(Runs) \in Nat
<1>1. Holds(a) \subseteq Runs /\ MayMail(a) \subseteq Runs
  BY DEF Holds, MayMail
<1> QED BY <1>1, FS_Subset, FS_CardinalityType

\* A run that may still mail an alert has not mailed it: there are no more of both
\* kinds than there are runs.
LEMMA RunsAreOneOf ==
  ASSUME IsFiniteSet(Runs), RowsInHand, NEW a \in Alerts
  PROVE  Cardinality(Holds(a)) + Cardinality(MayMail(a)) <= Cardinality(Runs)
<1>1. Holds(a) \cap MayMail(a) = {}
  BY DEF RowsInHand, Holds, MayMail
<1>2. Holds(a) \cup MayMail(a) \subseteq Runs
  BY DEF Holds, MayMail
<1>3. Cardinality(Holds(a) \cup MayMail(a)) = Cardinality(Holds(a)) + Cardinality(MayMail(a))
  <2>1. Cardinality({}) = 0
    BY FS_EmptySet
  <2>2. Cardinality(Holds(a) \cup MayMail(a))
          = Cardinality(Holds(a)) + Cardinality(MayMail(a)) - Cardinality(Holds(a) \cap MayMail(a))
    BY HoldersAreRuns, FS_Union
  <2>3. Cardinality(Holds(a) \cap MayMail(a)) = 0
    BY <1>1, <2>1
  <2> QED BY <2>2, <2>3, HoldersAreRuns
<1> QED BY <1>2, <1>3, FS_Subset

LEMMA InitBudget == ASSUME IsFiniteSet(Runs), Init PROVE BudgetInv
<1>1. RowsInHand
  BY DEF Init, RowsInHand
<1>2. ASSUME NEW a \in Alerts
      PROVE  status[a] = "unused" /\ mailed[a] <= Cardinality(Holds(a)) + faults
  BY HoldersAreRuns DEF Init
<1> QED BY <1>1, <1>2 DEF BudgetInv, MailsAccounted

LEMMA RowsStay ==
  ASSUME IInv, RowsInHand, [Next]_vars
  PROVE  RowsInHand'
<1> USE DEF RowsInHand, IInv, TypeOK
<1>1. ASSUME NEW q \in Requests, RequestStep(q) PROVE RowsInHand'
  BY <1>1 DEF RequestStep, create_alert, delete_alert, commit_request, rollback_request
<1>2. ASSUME NEW r \in Runs, BeginCheck(r) \/ WaitForRow(r) PROVE RowsInHand'
  BY <1>2 DEF BeginCheck, WaitForRow
<1>3. ASSUME NEW r \in Runs, deactivate(r) PROVE RowsInHand'
  BY <1>3 DEF deactivate
<1>4. ASSUME NEW r \in Runs, CommitCheck(r) \/ Abandon(r) PROVE RowsInHand'
  BY <1>4 DEF CommitCheck, Abandon
<1>5. ASSUME NEW r \in Runs, NEW a \in Alerts, SendEmail(r, a) PROVE RowsInHand'
  BY <1>5 DEF SendEmail
<1>6. ASSUME NEW r \in Runs, NEW a \in Alerts, EmailFails(r, a) \/ EmailReplyLost(r, a)
      PROVE  RowsInHand'
  <2>1. pc' = pc /\ cur' = cur /\ pending' = pending /\ todo' = [todo EXCEPT ![r] = @ \ {a}]
    BY <1>6 DEF EmailFails, EmailReplyLost
  <2> QED BY <2>1
<1>7. CASE UNCHANGED vars \/ \E qs \in Quotes : CommitPrices(qs)
  BY <1>7 DEF vars, CommitPrices
<1> QED BY <1>1, <1>2, <1>3, <1>4, <1>5, <1>6, <1>7
        DEF Next, CheckStep, FaultStep, DeadlockVictim, CrashCheck

-----------------------------------------------------------------------------
(* The accounts of one alert, step by step.                                  *)

Account(a) ==
  IF Retired(a)
  THEN mailed[a] + Cardinality(MayMail(a)) <= Cardinality(Runs) + faults
  ELSE mailed[a] <= Cardinality(Holds(a)) + faults

LEMMA Counts ==
  ASSUME IsFiniteSet(Runs), TypeOK, TypeOK', NEW a \in Alerts
  PROVE  /\ mailed[a] \in Nat /\ faults \in Nat /\ mailed'[a] \in Nat /\ faults' \in Nat
         /\ IsFiniteSet(Holds(a)') /\ IsFiniteSet(MayMail(a)')
         /\ Cardinality(Holds(a)') \in Nat /\ Cardinality(MayMail(a)') \in Nat
<1>1. Holds(a)' \subseteq Runs /\ MayMail(a)' \subseteq Runs
  BY DEF Holds, MayMail
<1>2. mailed[a] \in Nat /\ faults \in Nat /\ mailed'[a] \in Nat /\ faults' \in Nat
  BY DEF TypeOK
<1> QED BY <1>1, <1>2, FS_Subset, FS_CardinalityType

\* A step that mails only with a fault, and leaves the runs that hold an active alert.
LEMMA AccountKept ==
  ASSUME IsFiniteSet(Runs), TypeOK, TypeOK', RowsInHand, NEW a \in Alerts, Account(a),
         mailed'[a] - mailed[a] <= faults' - faults,
         Retired(a)' \/ Holds(a) \subseteq Holds(a)',
         MayMail(a)' \subseteq MayMail(a) \/ ~ Retired(a)',
         Retired(a) => Retired(a)'
  PROVE  Account(a)'
<1>1. CASE ~ Retired(a)'
  <2>1. Cardinality(Holds(a)) <= Cardinality(Holds(a)')
    BY <1>1, Counts, FS_Subset
  <2>2. mailed[a] <= Cardinality(Holds(a)) + faults
    BY <1>1 DEF Account
  <2>3. mailed'[a] <= Cardinality(Holds(a)') + faults'
    BY <2>1, <2>2, Counts, HoldersAreRuns
  <2> QED BY <1>1, <2>3 DEF Account
<1>2. CASE Retired(a)'
  <2>1. Cardinality(MayMail(a)') <= Cardinality(MayMail(a))
    BY <1>2, HoldersAreRuns, FS_Subset
  <2>2. mailed[a] + Cardinality(MayMail(a)) <= Cardinality(Runs) + faults
    BY HoldersAreRuns, RunsAreOneOf, Counts DEF Account
  <2>3. mailed'[a] + Cardinality(MayMail(a)') <= Cardinality(Runs) + faults'
    BY <2>1, <2>2, Counts, HoldersAreRuns
  <2> QED BY <1>2, <2>3 DEF Account
<1> QED BY <1>1, <1>2

\* A run that ends with a fault lets its e-mail go, and the fault stands for it.
LEMMA AccountOfAbandoned ==
  ASSUME IsFiniteSet(Runs), TypeOK, TypeOK', RowsInHand, NEW a \in Alerts, Account(a),
         NEW r \in Runs, Abandon(r)
  PROVE  Account(a)'
<1>1. /\ mailed' = mailed /\ faults' = faults + 1
      /\ Retired(a)' <=> Retired(a)
  BY DEF Abandon, Retired
<1>2. Holds(a) \ {r} \subseteq Holds(a)' /\ MayMail(a)' \subseteq MayMail(a)
  BY DEF Abandon, TypeOK, Holds, MayMail
<1>3. Cardinality(Holds(a)) <= Cardinality(Holds(a)') + 1
  <2>1. /\ IsFiniteSet(Holds(a) \ {r})
        /\ Cardinality(Holds(a) \ {r}) \in Nat
        /\ Cardinality(Holds(a)) <= Cardinality(Holds(a) \ {r}) + 1
    <3>1. IsFiniteSet(Holds(a)) /\ Cardinality(Holds(a)) \in Nat
      BY HoldersAreRuns
    <3> HIDE AlertsAssumption
    <3>2. /\ IsFiniteSet(Holds(a) \ {r})
          /\ Cardinality(Holds(a) \ {r}) =
               IF r \in Holds(a) THEN Cardinality(Holds(a)) - 1 ELSE Cardinality(Holds(a))
      BY <3>1, FS_RemoveElement
    <3>3. Cardinality(Holds(a) \ {r}) \in Nat
      BY <3>2, FS_CardinalityType
    <3> QED BY <3>1, <3>2, <3>3
  <2>2. Cardinality(Holds(a) \ {r}) <= Cardinality(Holds(a)')
    BY <1>2, Counts, FS_Subset
  <2> QED BY <2>1, <2>2, Counts, HoldersAreRuns
<1>4. Cardinality(MayMail(a)') <= Cardinality(MayMail(a))
  BY <1>2, HoldersAreRuns, FS_Subset
<1>5. CASE Retired(a)
  <2>1. mailed'[a] + Cardinality(MayMail(a)') <= Cardinality(Runs) + faults'
    BY <1>1, <1>4, <1>5, Counts, HoldersAreRuns DEF Account
  <2> QED BY <1>1, <1>5, <2>1 DEF Account
<1>6. CASE ~ Retired(a)
  <2>1. mailed'[a] <= Cardinality(Holds(a)') + faults'
    BY <1>1, <1>3, <1>6, Counts, HoldersAreRuns DEF Account
  <2> QED BY <1>1, <1>6, <2>1 DEF Account
<1> QED BY <1>5, <1>6

\* The run that mails an alert changes from one that may to one that holds it.
LEMMA AccountOfSent ==
  ASSUME IsFiniteSet(Runs), TypeOK, TypeOK', RowsInHand, NEW a \in Alerts, Account(a),
         NEW r \in Runs, SendEmail(r, a), email_enabled
  PROVE  Account(a)'
<1>1. /\ mailed'[a] = mailed[a] + 1 /\ faults' = faults
      /\ Retired(a)' <=> Retired(a)
  BY DEF SendEmail, Retired, TypeOK
<1>2. /\ r \in MayMail(a) /\ MayMail(a)' = MayMail(a) \ {r}
      /\ r \notin Holds(a) /\ Holds(a)' = Holds(a) \cup {r}
  <2>1. r \in MayMail(a) /\ r \notin Holds(a)
    BY DEF SendEmail, RowsInHand, Holds, MayMail
  <2>2. MayMail(a)' = MayMail(a) \ {r}
    BY DEF SendEmail, TypeOK, MayMail
  <2>3. Holds(a)' = Holds(a) \cup {r}
    BY DEF SendEmail, TypeOK, Holds
  <2> QED BY <2>1, <2>2, <2>3
<1>3. /\ Cardinality(MayMail(a)') = Cardinality(MayMail(a)) - 1
      /\ Cardinality(Holds(a)') = Cardinality(Holds(a)) + 1
  <2>1. Cardinality(MayMail(a) \ {r}) = Cardinality(MayMail(a)) - 1
    BY <1>2, HoldersAreRuns, FS_RemoveElement
  <2>2. Cardinality(Holds(a) \cup {r}) = Cardinality(Holds(a)) + 1
    BY <1>2, HoldersAreRuns, FS_AddElement
  <2> QED BY <1>2, <2>1, <2>2
<1>4. CASE Retired(a)
  <2>1. mailed'[a] + Cardinality(MayMail(a)') <= Cardinality(Runs) + faults'
    BY <1>1, <1>3, <1>4, Counts, HoldersAreRuns DEF Account
  <2> QED BY <1>1, <1>4, <2>1 DEF Account
<1>5. CASE ~ Retired(a)
  <2>1. mailed'[a] <= Cardinality(Holds(a)') + faults'
    BY <1>1, <1>3, <1>5, Counts, HoldersAreRuns DEF Account
  <2> QED BY <1>1, <1>5, <2>1 DEF Account
<1> QED BY <1>4, <1>5

LEMMA AccountsStay ==
  ASSUME IsFiniteSet(Runs), IInv, IInv', RowsInHand, [Next]_vars, NEW a \in Alerts, Account(a)
  PROVE  Account(a)'
<1> USE DEF Retired, Holds, MayMail
<1>1. TypeOK /\ TypeOK'
  BY DEF IInv
<1>2. ASSUME mailed' = mailed, faults' - faults \in Nat,
             Retired(a)' \/ Holds(a) \subseteq Holds(a)',
             MayMail(a)' \subseteq MayMail(a) \/ ~ Retired(a)',
             Retired(a) => Retired(a)'
      PROVE  Account(a)'
  <2>1. mailed'[a] - mailed[a] <= faults' - faults
    <3> HIDE DEF Retired, Holds, MayMail
    <3>1. mailed[a] \in Nat
      BY <1>1 DEF TypeOK
    <3>2. mailed'[a] - mailed[a] = 0
      BY <1>2, <3>1
    <3>3. 0 <= faults' - faults
      BY <1>2
    <3> QED BY <3>2, <3>3
  <2> QED BY <1>1, <1>2, <2>1, AccountKept
<1>3. faults - faults \in Nat /\ (faults + 1) - faults \in Nat
  BY <1>1 DEF TypeOK
<1>4. ASSUME NEW q \in Requests, RequestStep(q) PROVE Account(a)'
  <2>1. ASSUME NEW b \in Alerts, create_alert(q, b) \/ delete_alert(q, b) PROVE Account(a)'
    BY <1>1, <1>2, <1>3, <2>1 DEF create_alert, delete_alert, TypeOK
  <2>2. CASE commit_request(q)
    BY <1>1, <1>2, <1>3, <2>2 DEF commit_request, IInv, RequestsOK, TypeOK
  <2>3. CASE rollback_request(q)
    BY <1>1, <1>2, <1>3, <2>3 DEF rollback_request, IInv, RequestsOK, TypeOK
  <2> QED BY <1>4, <2>1, <2>2, <2>3 DEF RequestStep
<1>5. ASSUME NEW r \in Runs, BeginCheck(r) PROVE Account(a)'
  BY <1>1, <1>2, <1>3, <1>5 DEF BeginCheck, list_triggered, TypeOK
<1>6. ASSUME NEW r \in Runs, WaitForRow(r) PROVE Account(a)'
  BY <1>1, <1>2, <1>3, <1>6 DEF WaitForRow, TypeOK
<1>7. ASSUME NEW r \in Runs, deactivate(r) PROVE Account(a)'
  BY <1>1, <1>2, <1>3, <1>7 DEF deactivate, TypeOK, IInv, RunsOK, MailOK, Visible, Stored
<1>8. ASSUME NEW r \in Runs, CommitCheck(r) PROVE Account(a)'
  BY <1>1, <1>2, <1>3, <1>8 DEF CommitCheck, TypeOK
<1>9. ASSUME NEW r \in Runs, Abandon(r) PROVE Account(a)'
  BY <1>1, <1>9, AccountOfAbandoned
<1>10. ASSUME NEW r \in Runs, NEW b \in Alerts, EmailFails(r, b) PROVE Account(a)'
  BY <1>1, <1>2, <1>3, <1>10 DEF EmailFails, TypeOK
<1>11. ASSUME NEW r \in Runs, NEW b \in Alerts, EmailReplyLost(r, b) PROVE Account(a)'
  <2>1. mailed'[a] - mailed[a] <= faults' - faults
    BY <1>1, <1>11 DEF EmailReplyLost, TypeOK
  <2>2. Retired(a)' = Retired(a) /\ Holds(a) \subseteq Holds(a)' /\ MayMail(a)' \subseteq MayMail(a)
    BY <1>1, <1>11 DEF EmailReplyLost, TypeOK
  <2> QED BY <1>1, <2>1, <2>2, AccountKept
<1>12. ASSUME NEW r \in Runs, NEW b \in Alerts, SendEmail(r, b) PROVE Account(a)'
  <2>1. CASE a = b /\ email_enabled
    BY <1>1, <1>12, <2>1, AccountOfSent
  <2>2. CASE a # b \/ ~ email_enabled
    <3>1. mailed'[a] - mailed[a] <= faults' - faults
      BY <1>1, <1>12, <2>2 DEF SendEmail, TypeOK
    <3>2. /\ Retired(a)' = Retired(a) /\ MayMail(a)' \subseteq MayMail(a)
          /\ Holds(a) \subseteq Holds(a)'
      BY <1>1, <1>12, <2>2 DEF SendEmail, TypeOK
    <3> QED BY <1>1, <3>1, <3>2, AccountKept
  <2> QED BY <2>1, <2>2
<1>13. CASE UNCHANGED vars \/ \E qs \in Quotes : CommitPrices(qs)
  BY <1>1, <1>2, <1>3, <1>13 DEF vars, CommitPrices, TypeOK
<1> QED BY <1>4, <1>5, <1>6, <1>7, <1>8, <1>9, <1>10, <1>11, <1>12, <1>13
        DEF Next, CheckStep, FaultStep, DeadlockVictim, CrashCheck

-----------------------------------------------------------------------------
LEMMA BudgetInductive ==
  ASSUME IsFiniteSet(Runs)
  PROVE  IInv /\ IInv' /\ BudgetInv /\ [Next]_vars => BudgetInv'
<1> SUFFICES ASSUME IInv, IInv', BudgetInv, [Next]_vars PROVE BudgetInv'
  OBVIOUS
<1>1. RowsInHand'
  BY RowsStay DEF BudgetInv
<1>2. ASSUME NEW a \in Alerts PROVE Account(a)'
  BY AccountsStay DEF BudgetInv, MailsAccounted, Account, Retired
<1> QED BY <1>1, <1>2 DEF BudgetInv, MailsAccounted, Account, Retired

LEMMA BudgetKept ==
  ASSUME IsFiniteSet(Runs)
  PROVE  IInv /\ BudgetInv => EmailBudget
<1> SUFFICES ASSUME IInv, BudgetInv, NEW a \in Alerts
             PROVE  mailed[a] <= Cardinality(Runs) + faults
  BY DEF EmailBudget
<1>1. mailed[a] \in Nat /\ faults \in Nat
  BY DEF IInv, TypeOK
<1>2. mailed[a] + Cardinality(MayMail(a)) <= Cardinality(Runs) + faults
      \/ mailed[a] <= Cardinality(Holds(a)) + faults
  BY DEF BudgetInv, MailsAccounted
<1> QED BY <1>1, <1>2, HoldersAreRuns

\* An owner gets no more e-mails for an alert than runs can be under way plus one for
\* each fault, however many runs there are in the life of the service.
THEOREM MailsAreBounded == ASSUME IsFiniteSet(Runs) PROVE Spec => []EmailBudget
<1>1. Init => BudgetInv
  BY InitBudget
<1> QED BY <1>1, BudgetInductive, BudgetKept, InvariantHolds, PTL DEF Spec
=============================================================================
