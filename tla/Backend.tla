------------------------------ MODULE Backend -------------------------------
(***************************************************************************)
(* A backend of a load-balancer pool (crates/lb/src/lib.rs): the flags and *)
(* counters the proxy tasks and the health checker share, and the choice   *)
(* of a backend for a connection.  Each field is an atomic of its own and  *)
(* every access below is one atomic operation.  Byte and failure counters  *)
(* and the latency ring steer nothing and are left out.                    *)
(***************************************************************************)
EXTENDS Integers, FiniteSets

CONSTANTS
  Addr,     \* socket addresses of backends
  Width     \* values of the active-connection counter (2^64 in the code)

ASSUME WidthAssumption == Width \in Nat \ {0}

Algorithm == {"round_robin", "least_connections", "random", "failover"}

NewBackend(a) == [addr |-> a, healthy |-> TRUE, active |-> 0]

SetHealthy(b, ok) == [b EXCEPT !.healthy = ok]

\* Backend::connect once the socket is open.
Connected(b) == [b EXCEPT !.active = (@ + 1) % Width]

\* Backend::release: fetch_sub wraps below zero.
Released(b) == [b EXCEPT !.active = (@ + (Width - 1)) % Width]

\* select_backend: those of the objects in list, numbers into bs, that it may
\* return.  The list is in the order of the numbers.
Healthy(bs, list) == {k \in list : bs[k].healthy}

Selectable(bs, list, algo, counter) ==
  LET candidates == Healthy(bs, list)
      before(k)  == {j \in candidates : j < k}
      preferred(j, k) == bs[j].active < bs[k].active
                           \/ (bs[j].active = bs[k].active /\ j <= k)
  IN  CASE algo = "round_robin" ->
             {k \in candidates : Cardinality(before(k)) = counter % Cardinality(candidates)}
        [] algo = "least_connections" ->
             {k \in candidates : \A j \in candidates : preferred(k, j)}
        [] algo = "random"   -> candidates
        [] algo = "failover" -> {k \in candidates : before(k) = {}}
=============================================================================
