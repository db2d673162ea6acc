---------------------------- MODULE MCDeployment ----------------------------
(* A small instance of Deployment: compose's migrate and two runs by hand.   *)
EXTENDS Deployment
=============================================================================
