---------------------------- MODULE MCTelemetry -----------------------------
(***************************************************************************)
(* Instances of Telemetry for TLC.                                         *)
(***************************************************************************)
EXTENDS MCController, Telemetry

\* Bound: the telemetry path is explored with registrations around it, and the
\* configuration path with registrations around it, but not both at once; they
\* share only the device records.
OneConcern ==
  ~ \E r, q \in Request : /\ job[r].op = "telemetry"
                          /\ job[q].op \in {"apply", "put", "delete"}
=============================================================================
