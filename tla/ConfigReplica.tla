--------------------------- MODULE ConfigReplica ----------------------------
(***************************************************************************)
(* What a device promises about its active configuration, whatever happens *)
(* inside apply_config (crates/sdwan-agent/src/agent.rs): it is replaced   *)
(* only by the answer to the startup pull or by a validated, strictly      *)
(* newer configuration, and every answer the agent gives about an apply    *)
(* tells the version that is active when the answer is given.              *)
(***************************************************************************)
EXTENDS DeviceConfig

CONSTANTS
  Self,    \* the device
  Home,    \* the org it belongs to
  Hostname,\* the name it starts with
  None     \* no answer yet

\* ApplyOutcome, without the text of the error.
Outcome == [new: Version, verified: BOOLEAN, active: Version]

VARIABLES
  active,  \* the configuration the data plane runs
  reply    \* the latest answer of apply_config

\* Agent::new: the placeholder of a process that has just started.
Placeholder == EmptyConfig(Self, Home, Hostname, 0)

Init == active = Placeholder /\ reply = None

\* The process starts again; nothing is kept on disk.
Restart == active' = Placeholder

\* Startup takes whatever the controller has, once.
Pull(c) ==
  /\ active = Placeholder
  /\ active' = c

\* A validated configuration replaces a strictly older one.
Commit(c) ==
  /\ c.valid /\ IsStrictlyNewerThan(c, active)
  /\ active' = c

\* The answer names the active version; it claims success only for the
\* configuration that is active.
Answer(o) ==
  /\ o.active = active.version
  /\ o.verified => o.new = active.version
  /\ reply' = o

Next ==
  \/ Restart /\ reply' = None
  \/ (\E c \in Config : Pull(c) \/ Commit(c)) /\ UNCHANGED reply
  \/ (\E o \in Outcome : Answer(o)) /\ UNCHANGED active

Spec == Init /\ [][Next]_<<active, reply>>
=============================================================================
