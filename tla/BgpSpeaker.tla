----------------------------- MODULE BgpSpeaker -----------------------------
(***************************************************************************)
(* The BGP speaker of crates/bgp: the dial loop of every configured        *)
(* neighbor, the listener, run_session for every connection, the RIB and   *)
(* the reflection of routes to other neighbors.                            *)
(*                                                                         *)
(* A neighbor may have several connections at once (dialled and accepted), *)
(* which share its entry in `sessions` and in `reflect_tx`.  Each lock is  *)
(* taken for one access, except that an UPDATE holds the RIB's write lock  *)
(* until it is applied; one action is the code between two such points.    *)
(* Peers are the environment: they send any message, or vanish.            *)
(***************************************************************************)
EXTENDS Naturals, Sequences

CONSTANTS
  Neighbor,       \* remote addresses
  Configured,     \* those in cfg.neighbors; others may still connect
  Settings,       \* per configured neighbor, its BgpNeighbor
  Conn,           \* connections [nbr, side], side "out" (dialled) or "in"
  Prefix,         \* prefixes peers announce
  Networks,       \* cfg.networks
  PathLen,        \* per neighbor, the AS_PATH lengths it sends
  Open,           \* the OPENs peers send: [as, caps], the 16-bit AS number and a
                  \* sequence of capabilities [code, value]
  Modes,          \* cfg.multipath, cfg.route_reflector and cfg.import_allowlist:
                  \* [multipath, reflector, import]
  None

\* What is configured of a neighbor; an allowlist may be absent.
BgpNeighbor == [remote_as: Nat, local_pref: Nat,
                import: {None} \cup SUBSET Prefix, export: {None} \cup SUBSET Prefix]

ASSUME SpeakerAssumption ==
  /\ Configured \subseteq Neighbor
  /\ Settings \in [Configured -> BgpNeighbor]
  /\ Conn \subseteq [nbr: Neighbor, side: {"out", "in"}]
  /\ \A c \in Conn : c.side = "out" => c.nbr \in Configured
  /\ Networks \subseteq Prefix
  /\ PathLen \in [Neighbor -> SUBSET Nat]
  /\ None \notin Nat /\ None \notin Conn
  /\ \A x \in Modes : x.multipath \in BOOLEAN /\ x.reflector \in BOOLEAN

VARIABLES
  cfg,      \* the mode this speaker runs in
  session,  \* sessions: the state per neighbor, "none" before an entry exists
  sender,   \* reflect_tx: neighbor -> the connection that drains it, or None
  conn,     \* per connection, where run_session is
  writer,   \* per connection, whether its drain task runs
  queue,    \* per connection, the announcements sent to its drain task
  dial,     \* per configured neighbor, its dial loop: "poll", "dialing" or "dead"
  rib,      \* prefix -> neighbor -> AS_PATH length of its route, or None
  said      \* history: the last statement of each neighbor about each prefix

sessionVars == <<session, sender, conn, writer, dial>>
routeVars   == <<rib, said>>
vars == <<cfg, sessionVars, routeVars, queue>>

States == {"none", "idle", "open_sent", "open_confirm", "established"}
Pc     == {"closed", "open_sent", "opened", "confirm", "enter", "up", "leaving"}

BgpTypeOK ==
  /\ cfg \in Modes
  /\ session \in [Neighbor -> States]
  /\ sender \in [Neighbor -> Conn \cup {None}]
  /\ conn \in [Conn -> Pc]
  /\ writer \in [Conn -> BOOLEAN]
  /\ queue \in [Conn -> SUBSET SUBSET Prefix]
  /\ dial \in [Configured -> {"poll", "dialing", "dead"}]
  /\ rib \in [Prefix -> [Neighbor -> Nat \cup {None}]]
  /\ said \in [Neighbor -> [Prefix -> Nat \cup {None}]]
  /\ \A n \in Neighbor : sender[n] # None => sender[n].nbr = n
  /\ \A c \in Conn : queue[c] # {} => writer[c]
  /\ \A c \in Conn : writer[c] => conn[c] \in {"up", "leaving", "closed"}

Init ==
  /\ cfg \in Modes
  /\ session = [n \in Neighbor |-> IF n \in Configured THEN "idle" ELSE "none"]
  /\ sender = [n \in Neighbor |-> None]
  /\ conn = [c \in Conn |-> "closed"]
  /\ writer = [c \in Conn |-> FALSE]
  /\ queue = [c \in Conn |-> {}]
  /\ dial = [n \in Configured |-> "poll"]
  /\ rib = [p \in Prefix |-> [n \in Neighbor |-> None]]
  /\ said = [n \in Neighbor |-> [p \in Prefix |-> None]]

SetState(n, st) == session' = [session EXCEPT ![n] = st]
Goto(c, pc)     == conn' = [conn EXCEPT ![c] = pc]

-----------------------------------------------------------------------------
(* Connecting.  The dial loop looks at the state, then connects to port    *)
(* 179; the state may have changed in between.  A refused connection is    *)
(* tried again after a pause.                                              *)

Poll(n) ==
  /\ dial[n] = "poll" /\ session[n] # "established"
  /\ \A c \in Conn : c = [nbr |-> n, side |-> "out"] => conn[c] = "closed"
  /\ dial' = [dial EXCEPT ![n] = "dialing"]
  /\ UNCHANGED <<cfg, session, sender, conn, writer, routeVars, queue>>

Refused(n) ==
  /\ dial[n] = "dialing"
  /\ dial' = [dial EXCEPT ![n] = "poll"]
  /\ UNCHANGED <<cfg, session, sender, conn, writer, routeVars, queue>>

\* run_session starts: the OPEN is written and the state becomes OpenSent.  (A
\* slot of Conn is used again once its old drain task is gone.)
Begin(c) ==
  /\ conn[c] = "closed" /\ ~ writer[c]
  /\ Goto(c, "open_sent")
  /\ SetState(c.nbr, "open_sent")
  /\ UNCHANGED <<cfg, sender, writer, routeVars, queue>>

Connect(c) ==
  /\ c.side = "out" /\ dial[c.nbr] = "dialing"
  /\ Begin(c)
  /\ dial' = [dial EXCEPT ![c.nbr] = "poll"]

Accept(c) == c.side = "in" /\ Begin(c) /\ UNCHANGED dial

\* The OPEN this program sends, to a peer that runs the same program too: an AS
\* number of more than 16 bits is told as AS_TRANS, and in full as a capability.
OwnOpen(as) == [as   |-> IF as > 65535 THEN 23456 ELSE as,
                caps |-> <<[code |-> "as4", value |-> as], [code |-> "refresh", value |-> None]>>]

\* parse_capabilities: the last AS4 capability counts, the others are skipped.
As4Of(caps) ==
  LET hits == {i \in DOMAIN caps : caps[i].code = "as4"}
  IN  IF hits = {} THEN None
      ELSE caps[CHOOSE i \in hits : \A j \in hits : j <= i].value

\* The AS a peer is taken to have: its AS4 capability, else the 16 bits at the
\* start of the OPEN's body, which are the version (4) and the upper half of
\* the AS number.
EffectiveAs(o) ==
  LET as4 == As4Of(o.caps) IN IF as4 # None THEN as4 ELSE 4 * 256 + (o.as \div 256)

\* The peer's OPEN replaces the neighbor's whole entry, then the AS is checked;
\* a mismatch is answered with a NOTIFICATION and the connection dropped.
PeerOpen(c, o) ==
  /\ conn[c] = "open_sent"
  /\ SetState(c.nbr, "idle")
  /\ Goto(c, IF c.nbr \in Configured /\ EffectiveAs(o) # Settings[c.nbr].remote_as
             THEN "closed" ELSE "opened")
  /\ UNCHANGED <<cfg, sender, writer, dial, routeVars, queue>>

Confirm(c) ==
  /\ conn[c] = "opened"
  /\ Goto(c, "confirm")
  /\ SetState(c.nbr, "open_confirm")
  /\ UNCHANGED <<cfg, sender, writer, dial, routeVars, queue>>

PeerKeepalive(c) ==
  /\ conn[c] = "confirm"
  /\ Goto(c, "enter")
  /\ SetState(c.nbr, "established")
  /\ UNCHANGED <<cfg, sender, writer, dial, routeVars, queue>>

\* The networks a neighbor may be told: those on its export allowlist, which
\* may be empty, or all of them.
Exported(n) ==
  IF n \in Configured /\ Settings[n].export # None
  THEN Networks \cap Settings[n].export ELSE Networks

\* What is sent is an UPDATE that announces prefixes; its AS_PATH is the local
\* AS alone, and nothing reads the CLUSTER_LIST of a reflected one.
Update(ps) == {ps}

Advertised(n) == IF Exported(n) = {} THEN {} ELSE Update(Exported(n))

\* The connection becomes the one reflected updates go to (a sender that was
\* there is dropped), the networks are advertised, the drain task is spawned.
Enter(c) ==
  /\ conn[c] = "enter"
  /\ sender' = [sender EXCEPT ![c.nbr] = c]
  /\ writer' = [writer EXCEPT ![c] = TRUE]
  /\ Goto(c, "up")
  /\ UNCHANGED <<cfg, session, dial, routeVars, queue>>

-----------------------------------------------------------------------------
(* An established connection.                                              *)

\* effective_import: a neighbor's own list, even an empty one, takes the place
\* of the global list; a stranger has the global one.
EffectiveImport(n) ==
  IF n \in Configured /\ Settings[n].import # None THEN Settings[n].import ELSE cfg.import

\* An empty list lets everything in.
Imported(n) == {p \in Prefix : EffectiveImport(n) = {} \/ p \in EffectiveImport(n)}

LocalPref(n) == IF n \in Configured THEN Settings[n].local_pref ELSE 100

\* Whether a route of m with AS_PATH length k is at least as good as one of n
\* with length l: higher LOCAL_PREF first, then the shorter path.
AsGood(m, k, n, l) ==
  \/ LocalPref(m) > LocalPref(n)
  \/ LocalPref(m) = LocalPref(n) /\ k <= l

\* Mutant: the new route clears the others when it is the worse one.
LearnReversed(routes, n, l) ==
  IF /\ routes[n] = None /\ ~ cfg.multipath
     /\ \E m \in Neighbor : routes[m] # None /\ AsGood(m, routes[m], n, l)
  THEN [m \in Neighbor |-> IF m = n THEN l ELSE None]
  ELSE [routes EXCEPT ![n] = l]

\* A prefix's routes after n announced it with length l.  A neighbor's own
\* route is changed in place.  Without multipath a new route that is better
\* than all others clears them; one that is not is added next to them.
Learn(routes, n, l) ==
  IF /\ routes[n] = None /\ ~ cfg.multipath
     /\ \A m \in Neighbor : routes[m] # None => ~ AsGood(m, routes[m], n, l)
  THEN [m \in Neighbor |-> IF m = n THEN l ELSE None]
  ELSE [routes EXCEPT ![n] = l]

Withdrawn(routes, n) == [routes EXCEPT ![n] = None]

\* The other neighbors whose sender is registered get what n announces, before
\* the import filter and whatever their export allowlist; withdrawals are not
\* passed on.
Reflect(n, ps) ==
  queue' = [d \in Conn |->
    IF cfg.reflector /\ d.nbr # n /\ sender[d.nbr] = d /\ writer[d]
    THEN queue[d] \cup UNION {Update({p}) : p \in ps}
    ELSE queue[d]]

\* Mutant: an update with a withdrawal removes the prefix altogether.
ReceiveUpdateWithdrawsAll(c, ps, ws, l) ==
  /\ conn[c] = "up"
  /\ rib' = [p \in Prefix |->
       LET kept == IF p \in ws THEN [m \in Neighbor |-> None] ELSE rib[p]
       IN  IF p \in ps \cap Imported(c.nbr) THEN Learn(kept, c.nbr, l) ELSE kept]
  /\ said' = [said EXCEPT ![c.nbr] = [p \in Prefix |->
       IF p \in ps THEN l ELSE IF p \in ws THEN None ELSE @[p]]]
  /\ Reflect(c.nbr, ps)
  /\ UNCHANGED <<cfg, sessionVars>>

\* UPDATE: withdrawals first, then the announced prefixes, one by one.
ReceiveUpdate(c, ps, ws, l) ==
  /\ conn[c] = "up"
  /\ rib' = [p \in Prefix |->
       LET kept == IF p \in ws THEN Withdrawn(rib[p], c.nbr) ELSE rib[p]
       IN  IF p \in ps \cap Imported(c.nbr) THEN Learn(kept, c.nbr, l) ELSE kept]
  /\ said' = [said EXCEPT ![c.nbr] = [p \in Prefix |->
       IF p \in ps THEN l ELSE IF p \in ws THEN None ELSE @[p]]]
  /\ Reflect(c.nbr, ps)
  /\ UNCHANGED <<cfg, sessionVars>>

\* ROUTE-REFRESH: the networks once more, through the drain task.
Refresh(c) ==
  /\ conn[c] = "up"
  /\ queue' = [queue EXCEPT ![c] = IF writer[c] THEN @ \cup Advertised(c.nbr) ELSE @]
  /\ UNCHANGED <<cfg, sessionVars, routeVars>>

\* The drain task writes one update, or ends: the write fails, its sender was
\* dropped from reflect_tx, or run_session has returned.  (Order within the
\* queue is left out: the queue holds announcements only.)
Drain(c) ==
  /\ writer[c]
  /\ \E m \in queue[c] : queue' = [queue EXCEPT ![c] = @ \ {m}]
  /\ UNCHANGED <<cfg, sessionVars, routeVars>>

EndDrain(c) ==
  /\ writer[c]
  /\ sender[c.nbr] # c \/ conn[c] = "closed"
  /\ writer' = [writer EXCEPT ![c] = FALSE]
  /\ queue' = [queue EXCEPT ![c] = {}]
  /\ UNCHANGED <<cfg, session, sender, conn, dial, routeVars>>

WriteFails(c) ==
  /\ writer[c]
  /\ writer' = [writer EXCEPT ![c] = FALSE]
  /\ queue' = [queue EXCEPT ![c] = {}]
  /\ UNCHANGED <<cfg, session, sender, conn, dial, routeVars>>

-----------------------------------------------------------------------------
(* Ways out of run_session.                                                *)

\* A NOTIFICATION arrives, or the hold timer expires: the neighbor's sender is
\* removed (whichever connection it belongs to), then the state becomes Idle.
Ends(c) ==
  /\ conn[c] = "up"
  /\ sender' = [sender EXCEPT ![c.nbr] = None]
  /\ Goto(c, "leaving")
  /\ UNCHANGED <<cfg, session, writer, dial, routeVars, queue>>

\* Mutant: the state stays as it is.
LeaveUnmarked(c) ==
  /\ conn[c] = "leaving"
  /\ Goto(c, "closed")
  /\ UNCHANGED <<cfg, session, sender, writer, dial, routeVars, queue>>

Leave(c) ==
  /\ conn[c] = "leaving"
  /\ SetState(c.nbr, "idle")
  /\ Goto(c, "closed")
  /\ UNCHANGED <<cfg, sender, writer, dial, routeVars, queue>>

\* The peer sends something else than what is expected, closes, or a write
\* fails: run_session returns and leaves state, sender and routes behind.
Broken(c) ==
  /\ conn[c] \in {"open_sent", "opened", "confirm", "up"}
  /\ Goto(c, "closed")
  /\ UNCHANGED <<cfg, session, sender, writer, dial, routeVars, queue>>

\* An UPDATE whose attributes end two bytes into one of them: parse_update reads
\* the length byte that is not there and panics.  The task that ran the session
\* ends, which for a dialled connection is the neighbor's dial loop.
ParsePanics(c) ==
  /\ conn[c] = "up"
  /\ Goto(c, "closed")
  /\ dial' = IF c.side = "out" THEN [dial EXCEPT ![c.nbr] = "dead"] ELSE dial
  /\ UNCHANGED <<cfg, session, sender, writer, routeVars, queue>>

\* Advertising the networks fails after the sender was registered.
BrokenEntering(c) ==
  /\ conn[c] = "enter" /\ Advertised(c.nbr) # {}
  /\ sender' = [sender EXCEPT ![c.nbr] = c]
  /\ Goto(c, "closed")
  /\ UNCHANGED <<cfg, session, writer, dial, routeVars, queue>>

-----------------------------------------------------------------------------

DialStep(n) == Poll(n) \/ Refused(n)

Handshake(c) ==
  \/ Connect(c) \/ Accept(c)
  \/ \E o \in Open : PeerOpen(c, o)
  \/ Confirm(c) \/ PeerKeepalive(c) \/ Enter(c)

\* What parse_update makes of an UPDATE: prefixes that all have the length of
\* the one AS_PATH, and prefixes withdrawn.  One whose lengths do not fit reads
\* as empty; one that panics is ParsePanics.
Parsed(n) == {u \in [announced: SUBSET Prefix, withdrawn: SUBSET Prefix, len: PathLen[n]] :
                u.announced \cup u.withdrawn # {}}

Receive(c) ==
  \/ \E u \in Parsed(c.nbr) : ReceiveUpdate(c, u.announced, u.withdrawn, u.len)
  \/ Refresh(c)

WriterStep(c) == Drain(c) \/ EndDrain(c) \/ WriteFails(c)
Close(c) == Ends(c) \/ Leave(c) \/ Broken(c) \/ ParsePanics(c) \/ BrokenEntering(c)

Next ==
  \/ \E n \in Configured : DialStep(n)
  \/ \E c \in Conn : Handshake(c) \/ Receive(c) \/ WriterStep(c) \/ Close(c)

Spec == Init /\ [][Next]_vars

\* Tasks that wait for nothing run: the dial loops' polls, a connection's own
\* steps, the end of a drain task.  Peers owe nothing.
Fairness ==
  /\ \A n \in Configured : WF_vars(Poll(n))
  /\ \A c \in Conn : WF_vars(Confirm(c) \/ Enter(c) \/ BrokenEntering(c) \/ Leave(c))
  /\ \A c \in Conn : WF_vars(EndDrain(c))

FairSpec == Spec /\ Fairness

-----------------------------------------------------------------------------
(* Properties.                                                             *)

\* What the RIB holds of a neighbor is what the neighbor last said, over
\* whichever of its connections, and passed the import allowlist; with
\* multipath the RIB holds all of that (bgp/src/lib.rs, MSG_UPDATE).
RibTellsLastStatement ==
  \A p \in Prefix, n \in Neighbor :
    /\ rib[p][n] # None => rib[p][n] = said[n][p] /\ p \in Imported(n)
    /\ cfg.multipath /\ p \in Imported(n) => rib[p][n] = said[n][p]

\* A route disappears without a word of its own neighbor only when a better
\* one is there ("drop worse routes on insert"): the best path of a prefix
\* gets worse only through a statement of the neighbor it came from.
DisplacedByBetter ==
  [][\A p \in Prefix, n \in Neighbor :
       rib[p][n] # None /\ said'[n][p] = said[n][p] =>
         \E m \in Neighbor : rib'[p][m] # None /\ AsGood(m, rib'[p][m], n, rib[p][n])]_vars

Dialed(n) == dial[n] = "dialing"
Busy(n)   == \E c \in Conn : c.nbr = n /\ conn[c] \notin {"closed", "leaving"}

\* After a session ended by NOTIFICATION or hold timer the neighbor is dialled
\* again, unless another connection of it is there or an UPDATE that could not
\* be parsed has killed its dial loop.
EndedIsRedialed ==
  \A c \in {d \in Conn : d.nbr \in Configured} :
    conn[c] = "leaving" ~> Dialed(c.nbr) \/ Busy(c.nbr) \/ dial[c.nbr] = "dead"
=============================================================================
