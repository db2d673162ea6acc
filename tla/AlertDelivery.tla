--------------------------- MODULE AlertDelivery ---------------------------
(* What the price-alert feature promises its users, with no worker, no       *)
(* transaction and no mail server: an alert is armed once, is reported, and  *)
(* is retired only after it was reported; a removed alert never comes back.  *)
(* To report is to e-mail the owner or, in a deployment in console mode, to  *)
(* write the e-mail to the log.  Module Alerts implements it.                *)
CONSTANT Alerts

VARIABLES phase,      \* [Alerts -> Phase]
          notified    \* the alerts that were reported at least once

avars == <<phase, notified>>

Phase == {"none", "armed", "fired", "removed"}

AInit == /\ phase = [a \in Alerts |-> "none"]
         /\ notified = {}

\* PriceAlert.is_active starts True.
Arm(a) == /\ phase[a] = "none"
          /\ phase' = [phase EXCEPT ![a] = "armed"]
          /\ UNCHANGED notified

\* A notification may be late (the alert fired or was deleted while a check
\* run was under way) but is never about an alert that never existed.
Notify(a) == /\ phase[a] # "none"
             /\ notified' = notified \cup {a}
             /\ UNCHANGED phase

\* A check run retires a whole batch at once, and only alerts it reported.
Retire(S) == /\ \A a \in S : phase[a] = "armed" /\ a \in notified
             /\ phase' = [a \in Alerts |-> IF a \in S THEN "fired" ELSE phase[a]]
             /\ UNCHANGED notified

Remove(a) == /\ phase[a] \in {"armed", "fired"}
             /\ phase' = [phase EXCEPT ![a] = "removed"]
             /\ UNCHANGED notified

ANext == \/ \E a \in Alerts : Arm(a) \/ Notify(a) \/ Remove(a)
         \/ \E S \in SUBSET Alerts : Retire(S)

ASpec == AInit /\ [][ANext]_avars
============================================================================
