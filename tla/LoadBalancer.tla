---------------------------- MODULE LoadBalancer ----------------------------
(***************************************************************************)
(* One load-balancer pool: the accept loop, the task of every accepted     *)
(* connection, the health checkers, and the API handlers that change the   *)
(* pool while it runs.  The pool is a TcpLoadBalancer ("tcp"), or an       *)
(* HttpLoadBalancer whose backends speak HTTP/1.1 ("http") or HTTP/2       *)
(* ("h2").  A TCP pool is one route.                                       *)
(*                                                                         *)
(* All of these are tasks of a multi-threaded runtime; an action is the    *)
(* code between two awaits.  A backend is named by its route and its       *)
(* number among the Backend objects made for that route: an address that   *)
(* is removed and added again is a new object, while tasks and checkers    *)
(* that hold the old one keep it.                                          *)
(***************************************************************************)
EXTENDS Backend, SequencesExt

CONSTANTS
  Client,       \* client connections, each made at most once
  Pool,         \* the pool configurations of this instance; their field calls
                \* is a bound on the API calls made on a pool
  Request,      \* request heads: [host, path], host without port, path a sequence
  Limit,        \* values the API gives to max_conns; 0 is unlimited
  Wanted,       \* backend lists a re-read configuration file may hold
  AnyHost,      \* the empty host of a route
  Frail,        \* bound: the addresses whose service may change
  MaxObjects,   \* bound on Backend objects made for a route
  Period        \* of the round-robin counter; a multiple of every list length

Kind == {"tcp", "http", "h2"}

ASSUME PoolAssumption ==
  /\ \A p \in Pool :
       /\ p.kind \in Kind /\ p.algo \in Algorithm /\ p.calls \in Nat
       /\ p.tls \in BOOLEAN /\ p.checked \in BOOLEAN /\ p.path \in BOOLEAN
       /\ p.kind = "tcp" => ~p.tls /\ Len(p.routes) = 1
       /\ p.kind # "tcp" => p.checked /\ p.path /\ p.algo = "least_connections"
       /\ DOMAIN p.routes = 1 .. Len(p.routes)
       /\ \A r \in DOMAIN p.routes :
            p.routes[r].backends \in Seq(Addr) /\ Len(p.routes[r].backends) <= MaxObjects
  /\ Limit \subseteq Nat
  /\ Wanted \subseteq Seq(Addr)
  /\ MaxObjects \in Nat /\ Period \in Nat \ {0}

VARIABLES
  pool,       \* the configuration the pool was bound with
  service,    \* what is behind an address: "up", "sick" (fails checks) or "down"
  backends,   \* per route, the Backend objects ever made
  listed,     \* per route, the numbers of the objects on the current list, whose
              \* order they give: the list grows at its end, and what stays on it
              \* keeps its place
  algo, counter,
  limit,      \* max_conns
  drained,
  stopping,   \* StopFlag
  loop,       \* the accept loop
  queue,      \* clients in the listener's backlog
  active,     \* active_conns of the pool
  task,       \* per client, the connection and the task that serves it
  checker,    \* per route, the health checker's position and answer
  reload,     \* a configuration reload: the list it wants, which positions of that
              \* are yet to be added, and which objects yet to be removed
  ops         \* API calls so far

settings == <<algo, limit, drained, stopping>>
lists    == <<backends, listed>>
accepts  == <<loop, queue>>
vars == <<pool, service, lists, counter, settings, accepts, active, task,
          checker, reload, ops>>

-----------------------------------------------------------------------------
\* Where a connection is.  Everything from "handshake" to "leaving" counts
\* against the pool's limit.
Inside == {"handshake", "accepted", "pick", "dial", "open", "upload",
           "response", "refused", "leaving"}
Pc == {"idle", "queued", "closed"} \cup Inside

IdleTask == [pc |-> "idle", route |-> 0, snap |-> {}, tries |-> 0, target |-> 0]
ClosedTask == [IdleTask EXCEPT !.pc = "closed"]

NoReload == [want |-> <<>>, add |-> {}, drop |-> {}]

ObjectsOf(addrs) == [k \in DOMAIN addrs |-> NewBackend(addrs[k])]

Init ==
  /\ pool \in Pool
  /\ service = [a \in Addr |-> "up"]
  /\ backends = [r \in DOMAIN pool.routes |-> ObjectsOf(pool.routes[r].backends)]
  /\ listed = [r \in DOMAIN pool.routes |-> DOMAIN pool.routes[r].backends]
  /\ algo = pool.algo /\ counter = 0
  /\ limit = 0 /\ drained = FALSE /\ stopping = FALSE
  /\ loop = "accept" /\ queue = <<>> /\ active = 0
  /\ task = [c \in Client |-> IdleTask]
  /\ checker = [r \in DOMAIN pool.routes |-> [at |-> 1, answer |-> "none"]]
  /\ reload = NoReload /\ ops = 0

At(c, pc) == task[c].pc = pc
Goto(c, pc) == task' = [task EXCEPT ![c].pc = pc]
Goes(c, pc) == ~At(c, pc) /\ task'[c].pc = pc

-----------------------------------------------------------------------------
(* serve: one loop accepts; an HTTP pool with a certificate finishes the   *)
(* TLS handshake in the loop, before it accepts the next connection.       *)

Arrive(c) ==
  /\ At(c, "idle")
  /\ Goto(c, "queued")
  /\ queue' = Append(queue, c)
  /\ UNCHANGED <<pool, service, lists, counter, settings, loop, active, checker, reload, ops>>

\* Back at the top of the loop, which reads the stop flag and then accepts.
Resume == loop' = IF stopping THEN "stopped" ELSE "accept"

\* accept returned an error; the loop pauses and goes on.
AcceptFails ==
  /\ loop = "accept"
  /\ Resume
  /\ UNCHANGED <<pool, service, lists, counter, settings, queue, active, task,
                 checker, reload, ops>>

\* Mutant: the limit is passed by one.
OverLimitByOne == limit > 0 /\ active > limit

OverLimit == limit > 0 /\ active >= limit

\* Mutant: a rejected connection ends the accept loop.
RejectBreaks ==
  /\ loop = "accept" /\ queue # <<>>
  /\ OverLimit \/ drained
  /\ task' = [task EXCEPT ![Head(queue)] = ClosedTask]
  /\ queue' = Tail(queue)
  /\ loop' = "stopped"
  /\ UNCHANGED <<pool, service, lists, counter, settings, active, checker, reload, ops>>

Reject ==
  /\ loop = "accept" /\ queue # <<>>
  /\ OverLimit \/ drained
  /\ task' = [task EXCEPT ![Head(queue)] = ClosedTask]
  /\ queue' = Tail(queue)
  /\ Resume
  /\ UNCHANGED <<pool, service, lists, counter, settings, active, checker, reload, ops>>

Admit ==
  /\ loop = "accept" /\ queue # <<>>
  /\ ~OverLimit /\ ~drained
  /\ active' = active + 1
  /\ queue' = Tail(queue)
  /\ IF pool.tls
     THEN Goto(Head(queue), "handshake") /\ loop' = "handshake"
     ELSE Goto(Head(queue), "accepted") /\ Resume
  /\ UNCHANGED <<pool, service, lists, counter, settings, checker, reload, ops>>

Handshake(c) ==
  /\ At(c, "handshake")
  /\ Goto(c, "accepted")
  /\ Resume
  /\ UNCHANGED <<pool, service, lists, counter, settings, queue, active,
                 checker, reload, ops>>

\* Mutant: a failed handshake leaves its connection on the counter.
HandshakeFailsUncounted(c) ==
  /\ At(c, "handshake")
  /\ task' = [task EXCEPT ![c] = ClosedTask]
  /\ Resume
  /\ UNCHANGED <<pool, service, lists, counter, settings, queue, active, checker, reload, ops>>

HandshakeFails(c) ==
  /\ At(c, "handshake")
  /\ task' = [task EXCEPT ![c] = ClosedTask]
  /\ active' = active - 1
  /\ Resume
  /\ UNCHANGED <<pool, service, lists, counter, settings, queue, checker, reload, ops>>

-----------------------------------------------------------------------------
(* handle: the task of one connection.                                     *)

\* Start choosing among the current backends of route r.
Begin(c, r) ==
  task' = [task EXCEPT ![c] =
    [IdleTask EXCEPT !.pc = "pick", !.route = r, !.snap = listed[r],
                     !.tries = IF listed[r] = {} THEN 1 ELSE Cardinality(listed[r])]]

Snapshot(c) ==
  /\ pool.kind = "tcp" /\ At(c, "accepted")
  /\ Begin(c, 1)
  /\ UNCHANGED <<pool, service, lists, counter, settings, accepts, active,
                 checker, reload, ops>>

Matching(q) ==
  {r \in DOMAIN pool.routes :
     /\ pool.routes[r].host \in {AnyHost, q.host}
     /\ IsPrefix(pool.routes[r].prefix, q.path)}

\* select_route: the longest prefix, of equally long ones the last.
Routed(q) ==
  {r \in Matching(q) : \A s \in Matching(q) :
     LET mine == Len(pool.routes[r].prefix)
         other == Len(pool.routes[s].prefix)
     IN  other < mine \/ (other = mine /\ s <= r)}

ReadHead(c) ==
  /\ pool.kind # "tcp" /\ At(c, "accepted")
  /\ \E q \in Request : \E r \in Routed(q) : Begin(c, r)
  /\ UNCHANGED <<pool, service, lists, counter, settings, accepts, active,
                 checker, reload, ops>>

\* The client left, sent too much, too slowly or no HTTP, or no route matches.
BadHead(c) ==
  /\ pool.kind # "tcp" /\ At(c, "accepted")
  /\ Goto(c, "leaving")
  /\ UNCHANGED <<pool, service, lists, counter, settings, accepts, active,
                 checker, reload, ops>>

Target(c) == backends[task[c].route][task[c].target]

\* Objects of c's snapshot that it may dial next.
Candidates(c) == Selectable(backends[task[c].route], task[c].snap, algo, counter)

Pick(c) ==
  /\ At(c, "pick") /\ task[c].tries > 0
  /\ \E k \in Candidates(c) : task' = [task EXCEPT ![c].pc = "dial", ![c].target = k]
  /\ counter' = IF algo = "round_robin" THEN (counter + 1) % Period ELSE counter
  /\ UNCHANGED <<pool, service, lists, settings, accepts, active, checker, reload, ops>>

\* "no healthy backends": a TCP client is disconnected, an HTTP one gets a 502.
GiveUp(c) ==
  /\ At(c, "pick")
  /\ task[c].tries = 0 \/ Healthy(backends[task[c].route], task[c].snap) = {}
  /\ Goto(c, "refused")
  /\ UNCHANGED <<pool, service, lists, counter, settings, accepts, active,
                 checker, reload, ops>>

Update(c, b) ==
  /\ backends' = [backends EXCEPT ![task[c].route][task[c].target] = b]
  /\ UNCHANGED listed

\* Mutant: tries are not counted.
RetryForever(c) == Goto(c, "pick")

Retry(c) == task' = [task EXCEPT ![c].pc = "pick", ![c].tries = @ - 1]

Dial(c) ==
  /\ pool.kind # "h2" /\ At(c, "dial")
  /\ service[Target(c).addr] # "down"
  /\ Update(c, Connected(Target(c)))
  /\ Goto(c, "open")
  /\ UNCHANGED <<pool, service, counter, settings, accepts, active, checker, reload, ops>>

\* Mutant: a backend that did not answer stays healthy.
DialFailsUnmarked(c) ==
  /\ At(c, "dial")
  /\ pool.kind # "h2" => service[Target(c).addr] = "down"
  /\ Retry(c)
  /\ UNCHANGED <<pool, service, lists, counter, settings, accepts, active,
                 checker, reload, ops>>

\* Nothing answers or, on HTTP/2, no session or stream can be opened.
DialFails(c) ==
  /\ At(c, "dial")
  /\ pool.kind # "h2" => service[Target(c).addr] = "down"
  /\ Update(c, SetHealthy(Target(c), FALSE))
  /\ Retry(c)
  /\ UNCHANGED <<pool, service, counter, settings, accepts, active, checker, reload, ops>>

\* Mutant: a connection that broke keeps its place on the backend.
FinishUnlessBroken(c) ==
  /\ At(c, "open")
  /\ \E broken \in BOOLEAN : Update(c, IF broken THEN Target(c) ELSE Released(Target(c)))
  /\ Goto(c, "leaving")
  /\ UNCHANGED <<pool, service, counter, settings, accepts, active, checker, reload, ops>>

\* Copied until either side is done or fails.
Finish(c) ==
  /\ At(c, "open")
  /\ Update(c, Released(Target(c)))
  /\ Goto(c, "leaving")
  /\ UNCHANGED <<pool, service, counter, settings, accepts, active, checker, reload, ops>>

\* The task ends and the wrapper in serve takes it off the pool's counter.
Leave(c) ==
  /\ task[c].pc \in {"refused", "leaving"}
  /\ task' = [task EXCEPT ![c] = ClosedTask]
  /\ active' = active - 1
  /\ UNCHANGED <<pool, service, lists, counter, settings, accepts, checker, reload, ops>>

-----------------------------------------------------------------------------
(* h2_bridge: no Backend::connect, so nothing is added to the backend's    *)
(* active connections, yet both ends of the upload release.                *)

OpenSession(c) ==
  /\ pool.kind = "h2" /\ At(c, "dial")
  /\ service[Target(c).addr] # "down"
  /\ Goto(c, "upload")
  /\ UNCHANGED <<pool, service, lists, counter, settings, accepts, active,
                 checker, reload, ops>>

Upload(c) ==
  /\ At(c, "upload")
  /\ Update(c, Released(Target(c)))
  /\ Goto(c, "response")
  /\ UNCHANGED <<pool, service, counter, settings, accepts, active, checker, reload, ops>>

\* The buffered part of the body could not be sent.
UploadFails(c) ==
  /\ At(c, "upload")
  /\ Update(c, SetHealthy(Released(Target(c)), FALSE))
  /\ Retry(c)
  /\ UNCHANGED <<pool, service, counter, settings, accepts, active, checker, reload, ops>>

\* The rest of it could not be read or sent: the handler returns at once.
UploadBreaks(c) ==
  /\ At(c, "upload")
  /\ Goto(c, "leaving")
  /\ UNCHANGED <<pool, service, lists, counter, settings, accepts, active,
                 checker, reload, ops>>

Respond(c) ==
  /\ At(c, "response")
  /\ Goto(c, "leaving")
  /\ UNCHANGED <<pool, service, lists, counter, settings, accepts, active,
                 checker, reload, ops>>

ResponseFails(c) ==
  /\ At(c, "response")
  /\ Update(c, SetHealthy(Target(c), FALSE))
  /\ Retry(c)
  /\ UNCHANGED <<pool, service, counter, settings, accepts, active, checker, reload, ops>>

-----------------------------------------------------------------------------
(* spawn_health_checker: a task per route that has a list and an interval, *)
(* over the list the pool was bound with.  The answer of a probe is        *)
(* applied in a later step than it was obtained in.                        *)

Checks(r) == pool.checked /\ r \in DOMAIN checker /\ pool.routes[r].backends # <<>>

\* Without a check path an open port is healthy; HTTP pools always have one.
Answers(a) == service[a] = "up" \/ (service[a] = "sick" /\ ~pool.path)

Watched(r) == checker[r].at

Probe(r) ==
  /\ Checks(r) /\ checker[r].answer = "none"
  /\ checker' = [checker EXCEPT ![r].answer =
       IF Answers(backends[r][Watched(r)].addr) THEN "ok" ELSE "failed"]
  /\ UNCHANGED <<pool, service, lists, counter, settings, accepts, active, task, reload, ops>>

\* Mutant: only failures are reported.
ReportFailures(r) ==
  /\ Checks(r) /\ checker[r].answer # "none"
  /\ backends' = [backends EXCEPT ![r][Watched(r)] =
       IF checker[r].answer = "ok" THEN @ ELSE SetHealthy(@, FALSE)]
  /\ checker' = [checker EXCEPT ![r].answer = "none",
                                ![r].at = (@ % Len(pool.routes[r].backends)) + 1]
  /\ UNCHANGED <<pool, service, listed, counter, settings, accepts, active, task, reload, ops>>

Report(r) ==
  /\ Checks(r) /\ checker[r].answer # "none"
  /\ backends' = [backends EXCEPT ![r][Watched(r)] = SetHealthy(@, checker[r].answer = "ok")]
  /\ checker' = [checker EXCEPT ![r].answer = "none",
                                ![r].at = (@ % Len(pool.routes[r].backends)) + 1]
  /\ UNCHANGED <<pool, service, listed, counter, settings, accepts, active, task, reload, ops>>

-----------------------------------------------------------------------------
(* The API on a running TCP pool, and shutdown.                            *)

Called == ops < pool.calls /\ ops' = ops + 1

Addresses == {backends[1][k].addr : k \in listed[1]}

\* Backend::new for a under the list's write lock, unless a is listed.
AddBackend(a) ==
  IF a \in Addresses THEN UNCHANGED lists
  ELSE /\ Len(backends[1]) < MaxObjects
       /\ backends' = [backends EXCEPT ![1] = Append(@, NewBackend(a))]
       /\ listed' = [listed EXCEPT ![1] = @ \cup {Len(backends[1]) + 1}]

RemoveBackend(a) ==
  /\ listed' = [listed EXCEPT ![1] = {k \in @ : backends[1][k].addr # a}]
  /\ UNCHANGED backends

ApiChange(a) ==
  /\ pool.kind = "tcp" /\ Called
  /\ AddBackend(a) \/ RemoveBackend(a)
  /\ UNCHANGED <<pool, service, counter, settings, accepts, active, task, checker, reload>>

\* Mutant: what the file no longer lists is kept.
PlanAddsOnly(want) ==
  [NoReload EXCEPT !.want = want, !.add = {i \in DOMAIN want : want[i] \notin Addresses}]

\* What turns the current list into the wanted one.
Plan(want) ==
  [want |-> want,
   add  |-> {i \in DOMAIN want : want[i] \notin Addresses},
   drop |-> {k \in listed[1] : backends[1][k].addr \notin Range(want)}]

Reloading == reload.add \cup reload.drop # {}

\* api_reload reads the file and the list, and then awaits each change: the
\* additions in the order of the file, then the removals in that of the list.
Reload(want) ==
  /\ pool.kind = "tcp" /\ Called /\ ~Reloading
  /\ reload' = Plan(want)
  /\ UNCHANGED <<pool, service, lists, counter, settings, accepts, active, task, checker>>

First(S) == {x \in S : \A y \in S : x <= y}

ReloadStep ==
  /\ \/ \E i \in First(reload.add) :
          AddBackend(reload.want[i]) /\ reload' = [reload EXCEPT !.add = @ \ {i}]
     \/ /\ reload.add = {}
        /\ \E k \in First(reload.drop) :
             /\ RemoveBackend(backends[1][k].addr)
             /\ reload' = [reload EXCEPT !.drop = @ \ {k}]
  /\ UNCHANGED <<pool, service, counter, settings, accepts, active, task, checker, ops>>

\* apply_override_live: each of the settings it is given, one after the other.
Override ==
  /\ pool.kind = "tcp" /\ Called
  /\ \/ (\E a \in Algorithm : algo' = a) /\ UNCHANGED <<limit, drained>>
     \/ (\E n \in Limit : limit' = n) /\ UNCHANGED <<algo, drained>>
     \/ (\E on \in BOOLEAN : drained' = on) /\ UNCHANGED <<algo, limit>>
  /\ UNCHANGED <<pool, service, lists, counter, stopping, accepts, active, task,
                 checker, reload>>

Stop ==
  /\ Called /\ stopping' = TRUE
  /\ UNCHANGED <<pool, service, lists, counter, algo, limit, drained, accepts,
                 active, task, checker, reload>>

\* The world behind address a.
Service(a) ==
  /\ a \in Frail
  /\ \E s \in {"up", "sick", "down"} \ {service[a]} : service' = [service EXCEPT ![a] = s]
  /\ UNCHANGED <<pool, lists, counter, settings, accepts, active, task, checker, reload, ops>>

-----------------------------------------------------------------------------
Handle(c) ==
  \/ Snapshot(c) \/ ReadHead(c) \/ BadHead(c) \/ Pick(c) \/ GiveUp(c)
  \/ Dial(c) \/ DialFails(c) \/ Finish(c) \/ Leave(c)
  \/ OpenSession(c) \/ Upload(c) \/ UploadFails(c) \/ UploadBreaks(c)
  \/ Respond(c) \/ ResponseFails(c)

Serve ==
  \/ AcceptFails \/ Reject \/ Admit
  \/ \E c \in Client : Arrive(c) \/ Handshake(c) \/ HandshakeFails(c)

Api ==
  \/ \E a \in Addr : ApiChange(a)
  \/ \E want \in Wanted : Reload(want)
  \/ ReloadStep \/ Override \/ Stop

RouteNumber == 1 .. Max({Len(p.routes) : p \in Pool})

Next ==
  \/ Serve
  \/ \E c \in Client : Handle(c)
  \/ \E r \in RouteNumber : Probe(r) \/ Report(r)
  \/ Api
  \/ \E a \in Addr : Service(a)

Spec == Init /\ [][Next]_vars

\* The runtime runs every task that is not waiting for a peer: the accept loop
\* takes what is in the backlog, the checkers keep probing, and a task that is
\* choosing a backend goes on.  Backend::connect and probe have timeouts;
\* opening an HTTP/2 session has none.
Runs(c) ==
  \/ Snapshot(c) \/ Pick(c) \/ GiveUp(c) \/ Leave(c)
  \/ pool.kind # "h2" /\ (Dial(c) \/ DialFails(c))

Fairness ==
  /\ WF_vars(Admit \/ Reject)
  /\ \A r \in RouteNumber : WF_vars(Probe(r) \/ Report(r))
  /\ \A c \in Client : WF_vars(Runs(c))

FairSpec == Spec /\ Fairness

-----------------------------------------------------------------------------
(* Properties.                                                             *)

\* The pool's counter is the number of connections being served, the one in
\* its TLS handshake included: every way out of serve and handle takes off
\* what the accept loop added, once (tcp.rs and http.rs, serve).
Served == {c \in Client : task[c].pc \in Inside}
ActiveCountsClients == active = Cardinality(Served)

\* A connection is only let in when fewer are being served than the limit
\* in force, and never while the pool drains (tcp.rs, set_max_conns: "the
\* maximum concurrent client connections"; set_drained: "refuse new
\* connections").
AdmittedUnderLimit ==
  [][\A c \in Client :
       At(c, "queued") /\ task'[c].pc \in Inside =>
         ~drained /\ (limit = 0 \/ Cardinality(Served) < limit)]_vars

\* While its address stays up, a backend the pool was bound with is healthy
\* again and again, whatever probes were in flight and whichever tasks marked
\* it unhealthy (lib.rs, spawn_health_checker).
WatchedRecovers ==
  \A r \in RouteNumber : \A a \in Addr :
    <>[](pool.checked /\ service[a] = "up") =>
      []<>(r \in DOMAIN checker =>
             \A k \in DOMAIN pool.routes[r].backends :
               backends[r][k].addr = a => backends[r][k].healthy)

\* A connection in the backlog is answered, taken or closed, unless the loop
\* has stopped or is held by the TLS handshake of another one (serve).
BacklogIsServed ==
  \A c \in Client :
    At(c, "queued") ~> (~At(c, "queued") \/ stopping \/ loop = "handshake")

\* A task that is choosing a backend gets a connection or gives up: retries
\* after failed connects end, also when the checkers bring the failed
\* backends back (handle, max_tries).
ChoiceEnds ==
  \A c \in Client :
    (pool.kind # "h2" /\ At(c, "pick")) ~> task[c].pc \in {"open", "refused"}
=============================================================================
