---------------------------- MODULE ControlPlane ----------------------------
(***************************************************************************)
(* A controller and one device's agent: startup (register, then pull), the *)
(* WebSocket over which pushed configurations arrive, their application,   *)
(* connection loss and agent restarts (run_agent in main.rs, register,     *)
(* sync_loop and ws_connect_and_drain in agent.rs).                        *)
(*                                                                         *)
(* The controller is module Controller with all its interleavings.  The    *)
(* agent applies one configuration at a time from sync_loop, so an apply   *)
(* is one step here, ConfigReplica's Commit; module Agent shows that the   *)
(* code's many steps amount to that.                                       *)
(***************************************************************************)
EXTENDS Controller

CONSTANTS
  Self, Home,  \* the agent's device id and org
  Hostname,    \* the name it registers with
  Boots,       \* the requests the agent's startups use; the others are clients'
  Accepted     \* configurations the agent's verify callback accepts

ASSUME PlaneAssumption ==
  /\ Self \in Device /\ Home \in Org /\ Hostname \in Name
  /\ 1 \in Registered
  /\ Boots \subseteq Request

VARIABLES
  active,  \* the agent's active configuration
  agent,   \* where run_agent is
  orderly  \* history: the requests for the device came one after the other, from
           \* clients that let it follow (see Follows)

agentVars == <<active, agent>>

Replica == INSTANCE ConfigReplica WITH reply <- None

Down == [pc |-> "down", req |-> None, conn |-> None, read |-> 0]
Offline == [Down EXCEPT !.pc = "offline"]

PlaneInit ==
  /\ Init
  /\ active = Replica!Placeholder
  /\ agent = Down
  /\ orderly = TRUE

-----------------------------------------------------------------------------
(* The history.                                                            *)

OneAtATime ==
  \A q, r \in Request :
    InFlight(q) /\ InFlight(r) /\ job[q].dev = Self /\ job[r].dev = Self => q = r

\* The request that arrives in this step leaves registration to the agent, does
\* not put a version unchecked, and names the device in its body if and only if
\* it is for the device.
Follows(r) ==
  /\ job'[r].dev = Self => job'[r].op \notin {"register", "put"}
  /\ job'[r].pc = "replace" => (job'[r].cfg.dev = Self <=> job'[r].dev = Self)

-----------------------------------------------------------------------------

\* The process starts: Agent::new, then the POST of Agent::register arrives,
\* with version 1.
AgentBoot(r) ==
  /\ agent.pc = "down" /\ r \in Boots
  /\ Register(r, Self, Home, Hostname, 1)
  /\ Replica!Restart
  /\ orderly' = (orderly /\ OneAtATime')
  /\ agent' = [Down EXCEPT !.pc = "registering", !.req = r]

\* The POST is answered; the GET of the configuration follows.  404 ends the
\* process.
AgentPull ==
  /\ agent.pc = "registering" /\ job[agent.req].pc = "done"
  /\ IF Present(Self)
     THEN Replica!Pull(devices[Self].cfg) /\ agent' = Offline
     ELSE agent' = Down /\ UNCHANGED active
  /\ UNCHANGED <<vars, orderly>>

\* The upgrade request is accepted; while the device is unknown the agent gets
\* 404 and retries, which changes nothing.
AgentConnect(s) ==
  /\ agent.pc = "offline"
  /\ OpenStream(s, Self)
  /\ agent' = [Offline EXCEPT !.pc = "online", !.conn = s]
  /\ UNCHANGED <<active, orderly>>

\* Mutant: the staleness check has its arguments swapped.
AgentReceiveOlder ==
  /\ agent.pc = "online" /\ agent.read < Len(sent[agent.conn])
  /\ agent' = [agent EXCEPT !.read = @ + 1]
  /\ LET c == sent[agent.conn][agent.read + 1]
     IN  IF c.valid /\ IsStrictlyNewerThan(active, c) /\ c \in Accepted
         THEN active' = c
         ELSE UNCHANGED active
  /\ UNCHANGED <<vars, orderly>>

\* ws_connect_and_drain reads one frame: skipped when it does not validate,
\* refused when it is stale, rolled back when verification fails.
AgentReceive ==
  /\ agent.pc = "online" /\ agent.read < Len(sent[agent.conn])
  /\ agent' = [agent EXCEPT !.read = @ + 1]
  /\ LET c == sent[agent.conn][agent.read + 1]
     IN  IF c.valid /\ IsStrictlyNewerThan(c, active) /\ c \in Accepted
         THEN Replica!Commit(c)
         ELSE UNCHANGED active
  /\ UNCHANGED <<vars, orderly>>

\* The transport fails; frames the agent has not read are lost with it.
\* Stream bounds the connections that follow.
AgentDisconnect ==
  /\ agent.pc = "online"
  /\ ClientLeaves(agent.conn)
  /\ agent' = Offline
  /\ UNCHANGED <<active, orderly>>

\* The process dies.  Boots bounds the starts that follow.
AgentCrash ==
  /\ agent.pc # "down"
  /\ IF agent.pc = "online" THEN ClientLeaves(agent.conn) ELSE UNCHANGED vars
  /\ agent' = Down
  /\ UNCHANGED <<active, orderly>>

-----------------------------------------------------------------------------

ClientRequest(r) ==
  /\ Arrive(r)
  /\ orderly' = (orderly /\ OneAtATime' /\ Follows(r))
  /\ UNCHANGED agentVars

ControllerStep ==
  /\ (\E r \in Request : Continue(r)) \/ (\E s \in Stream : StreamStep(s))
  /\ UNCHANGED <<agentVars, orderly>>

AgentStep == AgentPull \/ (\E s \in Stream : AgentConnect(s)) \/ AgentReceive

PlaneNext ==
  \/ \E r \in Request \ Boots : ClientRequest(r)
  \/ ControllerStep
  \/ AgentStep
  \/ (\E r \in Boots : AgentBoot(r)) \/ AgentDisconnect \/ AgentCrash

planeVars == <<vars, agentVars, orderly>>

PlaneSpec == PlaneInit /\ [][PlaneNext]_planeVars

\* The two processes run; nothing makes clients act, connections fail or a
\* dead agent start again.
PlaneFairness ==
  /\ \A r \in Request : WF_planeVars(Continue(r) /\ UNCHANGED <<agentVars, orderly>>)
  /\ \A s \in Stream : WF_planeVars(StreamStep(s) /\ UNCHANGED <<agentVars, orderly>>)
  /\ WF_planeVars(AgentStep)

PlaneFairSpec == PlaneSpec /\ PlaneFairness

-----------------------------------------------------------------------------
(* Properties.                                                             *)

Running   == agent.pc \in {"offline", "online"}
Streaming == agent.pc = "online" /\ stream[agent.conn].pc = "open"

\* While requests for the device come one after the other, and clients register
\* nothing, the agent mirrors the controller's revisions: it never runs a newer
\* version than the controller stores for it, and the version it runs is the
\* configuration the controller stores under that version, but for the hostname,
\* which a metadata update changes under the same version and without a push
\* (register, the stream, the version gate, update_meta).
AgentFollows ==
  orderly /\ Running /\ Present(Self) =>
    /\ active.version <= devices[Self].cfg.version
    /\ active.version = devices[Self].cfg.version => SameButHost(active, devices[Self].cfg)

\* A configuration that is sent while the agent's stream is open becomes active
\* (or a later one does), unless the stream or the connection ends first.
PushApplied ==
  \A c \in Body \cap Accepted :
    (/\ c.valid /\ c.dev = Self /\ Streaming
     /\ \E r \in Request : job[r].pc = "send" /\ job[r].cfg = c)
      ~> (active.version >= c.version \/ ~ Streaming)

=============================================================================
