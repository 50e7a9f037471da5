---------------------------- MODULE AgentContents ----------------------------
(***************************************************************************)
(* The agent together with what its configurations hold: module Agent's    *)
(* one bit "valid" is the verdict of DeviceConfig::validate, module        *)
(* ConfigCheck, on the configuration's contents.                           *)
(***************************************************************************)
EXTENDS Agent

CONSTANT Contents  \* configuration -> its interfaces, tunnels, ports and DSCPs

Check == INSTANCE ConfigCheck

Errors == {"Interface", "Tunnel", "FirewallRule", "QosClass", "PublicKeyLength",
           "PublicKeyCharset", "PublicKeyDecode", "PublicKeyDecodedLength"}

\* A ValidatedConfig is made by DeviceConfig::validate only.
ASSUME ContentsAssumption ==
  /\ None \notin Errors /\ None \notin Nat
  /\ \A c \in Pushes : Contents[c] \in Check!Content /\ Check!Verdict(Contents[c]) = None

\* A configuration apply_state calls committed has every part well formed,
\* although the one active since the startup pull may not be (agent.rs,
\* ws_connect_and_drain and apply_config; ValidatedConfig).
CommittedIsWellFormed ==
  applyState = "committed" => Check!WellFormed(Contents[current])
=============================================================================
