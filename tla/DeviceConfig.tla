---------------------------- MODULE DeviceConfig ----------------------------
(***************************************************************************)
(* The versioned device configuration that controller and agents exchange  *)
(* (crates/sdwan-core/src/lib.rs).  Interfaces, tunnels, routes and policy *)
(* are abstracted to one bit, "valid": whether DeviceConfig::validate      *)
(* accepts them; the hostname is kept, since it alone changes without a    *)
(* new version.  Versions are u64 in the code; MaxVersion stands for       *)
(* u64::MAX, so a version in the model ranges over 0 .. MaxVersion.        *)
(***************************************************************************)
EXTENDS Naturals

CONSTANTS
  Device,       \* device identities (DeviceId)
  Org,          \* tenants (OrgId)
  Name,         \* hostnames
  MaxVersion    \* the largest version number the counter can hold

ASSUME VersionAssumption == MaxVersion \in Nat \ {0}

Version == 0 .. MaxVersion

Config == [dev: Device, org: Org, host: Name, version: Version, valid: BOOLEAN]

\* DeviceConfig::is_strictly_newer_than: a may replace b.
IsStrictlyNewerThan(a, b) == a.version > b.version

\* The empty configuration a device has before anything is pushed to it:
\* version 0 in Agent::new, the requested version in the register handler.
EmptyConfig(d, o, n, v) ==
  [dev |-> d, org |-> o, host |-> n, version |-> v, valid |-> TRUE]

\* Two configurations that may differ in the hostname only.
SameButHost(a, b) ==
  /\ a.dev = b.dev /\ a.org = b.org
  /\ a.version = b.version /\ a.valid = b.valid
=============================================================================
