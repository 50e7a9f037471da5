---------------------------- MODULE MCBalancer -----------------------------
(* Instances of BalancerHistory for TLC.                                   *)
EXTENDS MCLoadBalancer, BalancerHistory
=============================================================================
