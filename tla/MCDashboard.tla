---------------------------- MODULE MCDashboard -----------------------------
(***************************************************************************)
(* Instances of Dashboard for TLC: a TCP pool with one backend, a spare    *)
(* object for the same address and one for another, and an HTTP pool whose *)
(* two routes have a backend at one address.                               *)
(***************************************************************************)
EXTENDS Dashboard

CONSTANTS t1, t2, t3, w1, w2

Objects == {t1, t2, t3, w1, w2}
Addresses == (t1 :> 1) @@ (t2 :> 1) @@ (t3 :> 3) @@ (w1 :> 2) @@ (w2 :> 2)
Pools == << <<t1>>, <<w1, w2>> >>

\* Bound: traffic and latencies are explored apart, the latter of one backend
\* and without time or requests; they share the list of backends only.
OneConcern ==
  LET sampled == \E o \in Object : taken[o] # <<>>
  IN  sampled => carried = 0 /\ now = 1 /\ scan = None /\ restarts = 0
=============================================================================
