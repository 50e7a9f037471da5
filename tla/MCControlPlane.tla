--------------------------- MODULE MCControlPlane ---------------------------
(* Instances of ControlPlane for TLC.                                      *)
EXTENDS ControlPlane

CONSTANTS d1, o1, n1, n2, b1, b2, r1, r2, s1, s2

\* Version 2 with and without a configuration that validates, and the last
\* version, which the agent's verification refuses.
BodyMixed ==
  {c \in [dev: {d1}, org: {o1}, host: {n1}, version: {2, MaxVersion}, valid: BOOLEAN] :
     c.valid \/ c.version = 2}
AcceptedNotLast == {c \in Config : c.version # MaxVersion}
NoFrames == {}

\* Startups, requests and connections are interchangeable: each is used after
\* the one before it.
Used(r) == job[r].pc # "idle"
InOrder ==
  /\ Used(b2) => Used(b1)
  /\ Used(r2) => Used(r1)
  /\ stream[s2].pc # "idle" => stream[s1].pc # "idle"

\* A restart of the agent with one request of clients, or no restart and two.
RestartOrTwo == ~ (Used(b2) /\ Used(r2))
=============================================================================
