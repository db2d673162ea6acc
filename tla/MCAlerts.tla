------------------------------ MODULE MCAlerts ------------------------------
(* Small instances of Alerts: two alerts on one product.                     *)
EXTENDS Alerts

CONSTANTS a1, a2, p1

MCPrices == {1, 2}
MCProductOf == [a \in Alerts |-> p1]
\* a1 triggers at either price, a2 only at the lower one.
MCLimit == [a \in Alerts |-> IF a = a1 THEN 2 ELSE 1]
=============================================================================
