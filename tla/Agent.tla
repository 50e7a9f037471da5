------------------------------- MODULE Agent --------------------------------
(***************************************************************************)
(* The on-device agent (crates/sdwan-agent/src/agent.rs): the startup pull *)
(* and the transactional apply, snapshot -> apply -> verify -> commit or   *)
(* rollback.                                                               *)
(*                                                                         *)
(* apply_config takes &self and runs in async tasks on several threads.    *)
(* The active configuration is an atomic swap; the lifecycle state and the *)
(* verifier each have a mutex that is held for one access.  One action is  *)
(* the code from one such access to the next, so calls interleave between  *)
(* any two of them.                                                        *)
(***************************************************************************)
EXTENDS DeviceConfig

CONSTANTS
  Caller,     \* tasks that call apply_config (in production one: sync_loop)
  Self,       \* AgentConfig.device_id
  Home,       \* AgentConfig.org_id
  Hostname,   \* AgentConfig.hostname
  Starts,     \* configurations the startup pull may return
  Pushes,     \* configurations handed to apply_config
  Accepted,   \* configurations the verify callback returns Ok for
  None

ASSUME AgentAssumption ==
  /\ Self \in Device /\ Home \in Org /\ Hostname \in Name
  /\ Starts \subseteq Config
  /\ Pushes \subseteq Config /\ \A c \in Pushes : c.valid
  /\ None \notin Config

Outcome == [new: Version, verified: BOOLEAN, active: Version]

ASSUME NoneIsNoOutcome == None \notin Outcome

VARIABLES
  started,     \* register has returned, sync_loop runs
  current,     \* Agent.current
  applyState,  \* Agent.state
  verify,      \* Agent.verify: whether a callback is installed
  call,        \* per caller, apply_config's program counter and locals
  reply        \* what apply_config returned last

vars == <<started, current, applyState, verify, call, reply>>

ApplyState == {"idle", "validating", "applying", "verifying", "committed", "rolled_back"}

Call == [pc: {"idle", "snapshot", "refuse", "apply", "load_verifier", "begin_verify",
              "verify", "store", "commit", "rollback"},
         new: Config \cup {None},
         snap: Version]

IdleCall == [pc |-> "idle", new |-> None, snap |-> 0]

TypeOK ==
  /\ started \in BOOLEAN
  /\ current \in Config
  /\ applyState \in ApplyState
  /\ verify \in BOOLEAN
  /\ call \in [Caller -> Call]
  /\ \A a \in Caller : call[a].pc # "idle" => call[a].new \in Pushes /\ started
  /\ reply \in Outcome \cup {None}

\* Agent::new.
Init ==
  /\ started = FALSE
  /\ current = EmptyConfig(Self, Home, Hostname, 0)
  /\ applyState = "idle"
  /\ verify = FALSE
  /\ call = [a \in Caller |-> IdleCall]
  /\ reply = None

Goto(a, pc) == call' = [call EXCEPT ![a].pc = pc]

\* apply_config returns o and forgets its locals.
Return(a, o) ==
  /\ call' = [call EXCEPT ![a] = IdleCall]
  /\ reply' = o

-----------------------------------------------------------------------------

\* Agent::register succeeds: the configuration the controller returned becomes
\* active as it is.  When the POST or the GET fails the process exits, which
\* changes nothing here.
Register(c) ==
  /\ ~ started
  /\ started' = TRUE
  /\ current' = c
  /\ UNCHANGED <<applyState, verify, call, reply>>

\* Agent::set_verify.
SetVerify ==
  /\ ~ verify
  /\ verify' = TRUE
  /\ UNCHANGED <<started, current, applyState, call, reply>>

\* Mutant: applies are served before the startup pull.
BeginUnstarted(a, c) ==
  /\ call[a].pc = "idle"
  /\ applyState' = "validating"
  /\ call' = [call EXCEPT ![a] = [pc |-> "snapshot", new |-> c, snap |-> 0]]
  /\ UNCHANGED <<started, current, verify, reply>>

\* apply_config is called with a ValidatedConfig.
Begin(a, c) ==
  /\ started /\ call[a].pc = "idle"
  /\ applyState' = "validating"
  /\ call' = [call EXCEPT ![a] = [pc |-> "snapshot", new |-> c, snap |-> 0]]
  /\ UNCHANGED <<started, current, verify, reply>>

Snapshot(a) ==
  /\ call[a].pc = "snapshot"
  /\ call' = [call EXCEPT ![a].snap = current.version,
                          ![a].pc = IF IsStrictlyNewerThan(call[a].new, current)
                                    THEN "apply" ELSE "refuse"]
  /\ UNCHANGED <<started, current, applyState, verify, reply>>

Refuse(a) ==
  /\ call[a].pc = "refuse"
  /\ applyState' = "idle"
  /\ Return(a, [new |-> call[a].new.version, verified |-> FALSE, active |-> call[a].snap])
  /\ UNCHANGED <<started, current, verify>>

\* Mutant: the new configuration is active before it is verified.
ApplyUnverified(a) ==
  /\ call[a].pc = "apply"
  /\ applyState' = "applying"
  /\ current' = call[a].new
  /\ Goto(a, "load_verifier")
  /\ UNCHANGED <<started, verify, reply>>

Apply(a) ==
  /\ call[a].pc = "apply"
  /\ applyState' = "applying"
  /\ Goto(a, "load_verifier")
  /\ UNCHANGED <<started, current, verify, reply>>

\* Without a callback the configuration is accepted as it is.
LoadVerifier(a) ==
  /\ call[a].pc = "load_verifier"
  /\ Goto(a, IF verify THEN "begin_verify" ELSE "store")
  /\ UNCHANGED <<started, current, applyState, verify, reply>>

BeginVerify(a) ==
  /\ call[a].pc = "begin_verify"
  /\ applyState' = "verifying"
  /\ Goto(a, "verify")
  /\ UNCHANGED <<started, current, verify, reply>>

Verify(a) ==
  /\ call[a].pc = "verify"
  /\ Goto(a, IF call[a].new \in Accepted THEN "store" ELSE "rollback")
  /\ UNCHANGED <<started, current, applyState, verify, reply>>

Store(a) ==
  /\ call[a].pc = "store"
  /\ current' = call[a].new
  /\ Goto(a, "commit")
  /\ UNCHANGED <<started, applyState, verify, reply>>

Commit(a) ==
  /\ call[a].pc = "commit"
  /\ applyState' = "committed"
  /\ Return(a, [new |-> call[a].new.version, verified |-> TRUE,
                active |-> call[a].new.version])
  /\ UNCHANGED <<started, current, verify>>

\* Mutant: a rollback leaves the lifecycle state where it was.
RollbackUnmarked(a) ==
  /\ call[a].pc = "rollback"
  /\ Return(a, [new |-> call[a].new.version, verified |-> FALSE, active |-> call[a].snap])
  /\ UNCHANGED <<started, current, applyState, verify>>

Rollback(a) ==
  /\ call[a].pc = "rollback"
  /\ applyState' = "rolled_back"
  /\ Return(a, [new |-> call[a].new.version, verified |-> FALSE, active |-> call[a].snap])
  /\ UNCHANGED <<started, current, verify>>

\* The process is killed and started again: everything is in memory.
Crash ==
  /\ started
  /\ started' = FALSE
  /\ current' = EmptyConfig(Self, Home, Hostname, 0)
  /\ applyState' = "idle"
  /\ verify' = FALSE
  /\ call' = [a \in Caller |-> IdleCall]
  /\ reply' = None

-----------------------------------------------------------------------------

Step(a) ==
  \/ Snapshot(a) \/ Refuse(a) \/ Apply(a) \/ LoadVerifier(a) \/ BeginVerify(a)
  \/ Verify(a) \/ Store(a) \/ Commit(a) \/ Rollback(a)

Next ==
  \/ \E c \in Starts : Register(c)
  \/ SetVerify
  \/ \E a \in Caller : Step(a) \/ \E c \in Pushes : Begin(a, c)
  \/ Crash

Spec == Init /\ [][Next]_vars

-----------------------------------------------------------------------------
(* Properties.                                                             *)

Replica == INSTANCE ConfigReplica WITH active <- current

\* With one caller, all the interleavings, crashes and rollbacks of
\* apply_config amount to what ConfigReplica promises: strictly newer
\* configurations only, and answers that tell the truth.
ImplementsReplica == Replica!Spec

\* With several callers, an apply that does not increase the active version
\* happens only when the configuration it took its snapshot of is no longer
\* the active one: the version gate is an optimistic lock.
ApplyOvertaken ==
  [][\A a \in Caller : Store(a) =>
       \/ IsStrictlyNewerThan(call[a].new, current)
       \/ current.version # call[a].snap]_vars

InFlight(a) == call[a].pc # "idle"

\* Between applies of a single caller, apply_state tells how the last one
\* ended: committed iff it was verified, and after a rollback or a refusal the
\* older configuration is still active.
StateTellsOutcome ==
  (\A a \in Caller : ~ InFlight(a)) /\ reply # None =>
    /\ applyState \in {"idle", "committed", "rolled_back"}
    /\ (applyState = "committed") = reply.verified
    /\ applyState = "committed" => current.version = reply.new
    /\ applyState = "rolled_back" => current.version < reply.new
    /\ applyState = "idle" => current.version >= reply.new
=============================================================================
