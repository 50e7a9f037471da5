----------------------------- MODULE ConfigCheck -----------------------------
(***************************************************************************)
(* What DeviceConfig::validate checks of a configuration before an agent   *)
(* applies it (crates/sdwan-core/src/lib.rs).  A configuration is reduced  *)
(* to the parts that are looked at; routes, path labels and MTUs are not.  *)
(***************************************************************************)
EXTENDS Naturals, Sequences

CONSTANT None  \* no port, no error, a key that does not decode

KeyChars == 44
KeyBytes == 32

\* A base64 public key: its length, whether a byte is outside the alphabet, and
\* the number of bytes it decodes to.
Key == [chars: Nat, foreign: BOOLEAN, bytes: Nat \cup {None}]

\* An interface: whether it has a name, and for each address whether it is
\* unspecified (0.0.0.0 or ::).
Iface == [named: BOOLEAN, unspecified: Seq(BOOLEAN)]

\* A tunnel is its public key (the only kind is WireGuard), a firewall rule
\* its optional 16-bit port, a QoS class its DSCP byte.
MaxPort == 65535
Tunnel == Key
Rule   == 0 .. MaxPort \cup {None}
Class  == 0 .. 255

Content == [interfaces: Seq(Iface), tunnels: Seq(Tunnel),
            ports: Seq(Rule), dscps: Seq(Class)]

\* Mutant: a key of the right length over the right alphabet is a key.
KeyErrorUndecoded(k) ==
  IF k.chars # KeyChars THEN "PublicKeyLength"
  ELSE IF k.foreign THEN "PublicKeyCharset" ELSE None

\* validate_public_key: 44 characters can hold 31, 32 or 33 bytes.
KeyError(k) ==
  CASE k.chars # KeyChars                     -> "PublicKeyLength"
    [] k.chars = KeyChars /\ k.foreign        -> "PublicKeyCharset"
    [] k.chars = KeyChars /\ ~ k.foreign /\ k.bytes = None -> "PublicKeyDecode"
    [] k.chars = KeyChars /\ ~ k.foreign /\ k.bytes \notin {None, KeyBytes} ->
         "PublicKeyDecodedLength"
    [] OTHER                                  -> None

InterfaceFails(i) ==
  ~ i.named \/ \E a \in DOMAIN i.unspecified : i.unspecified[a]
TunnelFails(k) == KeyError(k) # None
RuleFails(port) == port # None /\ port = 0
ClassFails(dscp) == dscp > 63

Some(Fails(_), parts) == \E i \in DOMAIN parts : Fails(parts[i])

\* DeviceConfig::validate returns the error of the first part that fails.
Verdict(c) ==
  IF Some(InterfaceFails, c.interfaces) THEN "Interface"
  ELSE IF Some(TunnelFails, c.tunnels)  THEN "Tunnel"
  ELSE IF Some(RuleFails, c.ports)      THEN "FirewallRule"
  ELSE IF Some(ClassFails, c.dscps)     THEN "QosClass"
  ELSE None

\* The invariants the apply path relies on: named interfaces with real
\* addresses, keys of 32 bytes, ports 1 .. 65535, DSCP values 0 .. 63.
WellFormed(c) ==
  /\ \A i \in DOMAIN c.interfaces :
       c.interfaces[i].named /\ TRUE \notin {c.interfaces[i].unspecified[a] :
                                               a \in DOMAIN c.interfaces[i].unspecified}
  /\ \A i \in DOMAIN c.tunnels : c.tunnels[i] = [chars |-> 44, foreign |-> FALSE, bytes |-> 32]
  /\ \A i \in DOMAIN c.ports : c.ports[i] \in 1 .. MaxPort \cup {None}
  /\ \A i \in DOMAIN c.dscps : c.dscps[i] \in 0 .. 63
=============================================================================
