----------------------------- MODULE Controller -----------------------------
(***************************************************************************)
(* The SD-WAN controller: the REST handlers of controller.rs over the      *)
(* DeviceStore of store.rs (in-memory backend), and the WebSocket tasks    *)
(* that stream pushed configurations.                                      *)
(*                                                                         *)
(* Every handler is an async task on a multi-threaded runtime.  Each of    *)
(* the store's maps has its own mutex and no handler holds one across two  *)
(* of its accesses, so one action is the code between two lock             *)
(* acquisitions and the handlers interleave freely between actions.        *)
(*                                                                         *)
(* A Request is one HTTP request, a Stream one WebSocket connection; each  *)
(* happens at most once, with arguments chosen when it arrives.            *)
(***************************************************************************)
EXTENDS DeviceConfig, Sequences

CONSTANTS
  Request,         \* HTTP requests
  Stream,          \* WebSocket connections
  Ops,             \* the operations clients issue in this instance
  Overlap,         \* whether the requests for one device may overlap
  Registered,      \* the versions clients register devices with
  Body,            \* the configurations clients put into request bodies
  Frame,           \* flag lists of telemetry frames: sequences over Key
  Key,             \* health flag keys ("link_down:<label>", "degraded:<sub>")
  Capacity,        \* of a broadcast channel (64 in the code)
  AlertCap,        \* of the alert ring (100 in the code)
  None             \* absent record, configuration or device

ControllerOps == {"register", "apply", "put", "meta", "delete", "telemetry"}

ASSUME ControllerAssumption ==
  /\ Ops \subseteq ControllerOps /\ Overlap \in BOOLEAN
  /\ Registered \subseteq Version
  /\ Body \subseteq Config
  /\ Frame \subseteq Seq(Key)
  /\ Capacity \in Nat \ {0}
  /\ AlertCap \in Nat \ {0}

\* DeviceRecord: the owning org and the current configuration.  (Nothing reads
\* the record's own site and hostname.)
Record == [org: Org, cfg: Config]

ASSUME NoneAssumption ==
  /\ None \notin Record /\ None \notin Config /\ None \notin Device
  /\ None \notin Org /\ None \notin Name
  /\ \A ks \in SUBSET Key : None # ks

VARIABLES
  devices,      \* MemoryStore.inner: device -> record, None when absent
  chan,         \* DeviceStore.broadcasts: device -> channel id, 0 when absent
  logs,         \* per channel id, every configuration ever sent on it
  telemetry,    \* DeviceStore.telemetry: device -> latest frame's flags or None
  flags,        \* DeviceStore.alerted_flags: device -> set of keys or None
  alerts,       \* DeviceStore.alerts: the ring, oldest first
  job,          \* per request, the handler's program counter and locals
  stream,       \* per WebSocket, the stream_ws task
  sent          \* per WebSocket, the frames written to the socket

storeVars  == <<devices, chan, logs>>
alertVars  == <<telemetry, flags, alerts>>
streamVars == <<stream, sent>>
vars == <<devices, chan, logs, telemetry, flags, alerts, job, stream, sent>>

-----------------------------------------------------------------------------
(* Handler state.                                                          *)

Pc == {"idle", "replace", "send", "channel", "reinsert", "remove",
       "drop_channel", "drop_telemetry", "drop_flags",
       "frame", "flags", "alert", "done"}

Job == [pc: Pc, op: ControllerOps \cup {"none"}, dev: Device \cup {None},
        cfg: Config \cup {None}, seen: Record \cup {None},
        keys: Seq(Key), prev: SUBSET Key, status: Nat]

IdleJob == [pc |-> "idle", op |-> "none", dev |-> None, cfg |-> None,
            seen |-> None, keys |-> <<>>, prev |-> {}, status |-> 0]

StreamTask == [pc: {"idle", "upgrading", "open", "ended"}, dev: Device \cup {None},
               chan: Nat, from: Nat, pos: Nat, gone: BOOLEAN]

IdleStream == [pc |-> "idle", dev |-> None, chan |-> 0, from |-> 0, pos |-> 0,
               gone |-> FALSE]

Alert == [id: Nat, dev: Device, key: Key]

TypeOK ==
  /\ devices \in [Device -> Record \cup {None}]
  /\ logs \in Seq(Seq(Config))
  /\ chan \in [Device -> 0 .. Len(logs)]
  /\ telemetry \in [Device -> Seq(Key) \cup {None}]
  /\ flags \in [Device -> (SUBSET Key) \cup {None}]
  /\ alerts \in Seq(Alert)
  /\ job \in [Request -> Job]
  /\ stream \in [Stream -> StreamTask]
  /\ sent \in [Stream -> Seq(Config)]

Init ==
  /\ devices = [d \in Device |-> None]
  /\ chan = [d \in Device |-> 0]
  /\ logs = <<>>
  /\ telemetry = [d \in Device |-> None]
  /\ flags = [d \in Device |-> None]
  /\ alerts = <<>>
  /\ job = [r \in Request |-> IdleJob]
  /\ stream = [s \in Stream |-> IdleStream]
  /\ sent = [s \in Stream |-> <<>>]

Present(d) == devices[d] # None

InFlight(r) == job[r].pc \notin {"idle", "done"}
Quiet(d)    == \A r \in Request : InFlight(r) => job[r].dev # d

\* r arrives for device d and is answered at once, or runs on from pc with its
\* locals.  Without Overlap the clients wait for one answer before they send
\* the next request for the device.
Arrives(r, op, d) == job[r].pc = "idle" /\ op \in Ops /\ (Overlap \/ Quiet(d))
Answer(r, op, code) ==
  job' = [job EXCEPT ![r] = [IdleJob EXCEPT !.pc = "done", !.op = op, !.status = code]]
Proceed(r, pc) == job' = [job EXCEPT ![r].pc = pc]

\* Mutant: the new channel's number is taken but the channel is not made.
NewChannelUnmade(d) ==
  /\ chan' = [chan EXCEPT ![d] = Len(logs) + 1]
  /\ UNCHANGED logs

\* tokio::sync::broadcast::channel: a fresh channel, bound to device d.
NewChannel(d) ==
  /\ logs' = Append(logs, <<>>)
  /\ chan' = [chan EXCEPT ![d] = Len(logs) + 1]

-----------------------------------------------------------------------------
(* POST /devices/register: an unconditional insert of an empty             *)
(* configuration with the hostname and version of the request, then a      *)
(* fresh channel that replaces the device's old one.                       *)

Register(r, d, o, n, v) ==
  /\ Arrives(r, "register", d)
  /\ devices' = [devices EXCEPT ![d] = [org |-> o, cfg |-> EmptyConfig(d, o, n, v)]]
  /\ job' = [job EXCEPT ![r] = [IdleJob EXCEPT !.pc = "channel", !.op = "register",
                                               !.dev = d]]
  /\ UNCHANGED <<chan, logs, alertVars, streamVars>>

RegisterChannel(r) ==
  /\ job[r].pc = "channel"
  /\ NewChannel(job[r].dev)
  /\ Answer(r, "register", 201)
  /\ UNCHANGED <<devices, alertVars, streamVars>>

(* POST /devices/:id/apply and PUT /devices/:id/config: read the record,   *)
(* check org (and, for apply, the version) against what was read, replace  *)
(* the stored configuration, send it on the channel of the device that the *)
(* new configuration names.                                                *)

\* Mutant: apply does not look at the version.
VerdictAnyVersion(op, rec, c) ==
  CASE rec = None                          -> 404
    [] rec # None /\ c.org # rec.org       -> 403
    [] OTHER                               -> 200

\* Mutant: apply accepts the stored version again.
VerdictNotOlder(op, rec, c) ==
  CASE rec = None                                                       -> 404
    [] rec # None /\ c.org # rec.org                                    -> 403
    [] rec # None /\ c.org = rec.org /\ op = "apply"
         /\ IsStrictlyNewerThan(rec.cfg, c)                             -> 409
    [] OTHER                                                            -> 200

Verdict(op, rec, c) ==
  CASE rec = None                                          -> 404
    [] rec # None /\ c.org # rec.org                       -> 403
    [] rec # None /\ c.org = rec.org /\ op = "apply"
         /\ ~ IsStrictlyNewerThan(c, rec.cfg)              -> 409
    [] OTHER                                               -> 200

CheckConfig(r, op, d, c) ==
  /\ op \in {"apply", "put"} /\ Arrives(r, op, d)
  /\ LET verdict == Verdict(op, devices[d], c)
     IN  IF verdict = 200
         THEN job' = [job EXCEPT ![r] = [IdleJob EXCEPT !.pc = "replace", !.op = op,
                                   !.dev = d, !.cfg = c, !.seen = devices[d]]]
         ELSE Answer(r, op, verdict)
  /\ UNCHANGED <<storeVars, alertVars, streamVars>>

\* Mutant: replace_config inserts a device that is gone.
ReplaceConfigUpserts(r) ==
  /\ job[r].pc = "replace"
  /\ devices' = [devices EXCEPT ![job[r].dev] = [org |-> job[r].seen.org,
                                                 cfg |-> job[r].cfg]]
  /\ Proceed(r, "send")
  /\ UNCHANGED <<chan, logs, alertVars, streamVars>>

ReplaceConfig(r) ==
  /\ job[r].pc = "replace"
  /\ IF Present(job[r].dev)
     THEN /\ devices' = [devices EXCEPT ![job[r].dev].cfg = job[r].cfg]
          /\ Proceed(r, "send")
     ELSE /\ Answer(r, job[r].op, 404)
          /\ UNCHANGED devices
  /\ UNCHANGED <<chan, logs, alertVars, streamVars>>

\* Mutant: the configuration that was read is sent, not the one that was stored.
SendConfigRead(r) ==
  /\ job[r].pc = "send"
  /\ LET ch == chan[job[r].cfg.dev]
     IN  logs' = IF ch = 0 THEN logs
                 ELSE [logs EXCEPT ![ch] = Append(@, job[r].seen.cfg)]
  /\ Answer(r, job[r].op, 200)
  /\ UNCHANGED <<devices, chan, alertVars, streamVars>>

SendConfig(r) ==
  /\ job[r].pc = "send"
  /\ LET ch == chan[job[r].cfg.dev]
     IN  logs' = IF ch = 0 THEN logs
                 ELSE [logs EXCEPT ![ch] = Append(@, job[r].cfg)]
  /\ Answer(r, job[r].op, 200)
  /\ UNCHANGED <<devices, chan, alertVars, streamVars>>

(* PUT /devices/:id: update_meta reads the record and writes it back whole,*)
(* under the device id of the configuration it read.  o = None is a body   *)
(* without org_id, n = None one without hostname.  The org is changed in   *)
(* the record only, the hostname also in its configuration, under the same *)
(* version and without a push.                                             *)

Edited(rec, o, n) ==
  [org |-> IF o = None THEN rec.org ELSE o,
   cfg |-> IF n = None THEN rec.cfg ELSE [rec.cfg EXCEPT !.host = n]]

UpdateMeta(r, d, o, n) ==
  /\ Arrives(r, "meta", d)
  /\ IF Present(d)
     THEN job' = [job EXCEPT ![r] = [IdleJob EXCEPT !.pc = "reinsert", !.op = "meta",
                                     !.dev = d, !.seen = Edited(devices[d], o, n)]]
     ELSE Answer(r, "meta", 404)
  /\ UNCHANGED <<storeVars, alertVars, streamVars>>

Reinsert(r) ==
  /\ job[r].pc = "reinsert"
  /\ devices' = [devices EXCEPT ![job[r].seen.cfg.dev] = job[r].seen]
  /\ Answer(r, "meta", 200)
  /\ UNCHANGED <<chan, logs, alertVars, streamVars>>

(* DELETE /devices/:id: four maps, one after the other.                    *)

Delete(r, d) ==
  /\ Arrives(r, "delete", d)
  /\ IF Present(d)
     THEN job' = [job EXCEPT ![r] = [IdleJob EXCEPT !.pc = "remove", !.op = "delete",
                                                    !.dev = d]]
     ELSE Answer(r, "delete", 404)
  /\ UNCHANGED <<storeVars, alertVars, streamVars>>

RemoveDevice(r) ==
  /\ job[r].pc = "remove"
  /\ IF Present(job[r].dev)
     THEN /\ devices' = [devices EXCEPT ![job[r].dev] = None]
          /\ Proceed(r, "drop_channel")
     ELSE /\ Answer(r, "delete", 404)
          /\ UNCHANGED devices
  /\ UNCHANGED <<chan, logs, alertVars, streamVars>>

DropChannel(r) ==
  /\ job[r].pc = "drop_channel"
  /\ chan' = [chan EXCEPT ![job[r].dev] = 0]
  /\ Proceed(r, "drop_telemetry")
  /\ UNCHANGED <<devices, logs, alertVars, streamVars>>

DropTelemetry(r) ==
  /\ job[r].pc = "drop_telemetry"
  /\ telemetry' = [telemetry EXCEPT ![job[r].dev] = None]
  /\ Proceed(r, "drop_flags")
  /\ UNCHANGED <<storeVars, flags, alerts, streamVars>>

DropFlags(r) ==
  /\ job[r].pc = "drop_flags"
  /\ flags' = [flags EXCEPT ![job[r].dev] = None]
  /\ Answer(r, "delete", 204)
  /\ UNCHANGED <<storeVars, telemetry, alerts, streamVars>>

-----------------------------------------------------------------------------
(* POST /telemetry: check, keep the frame, compute the flags that are new  *)
(* since the previous frame, push one alert per new flag.                  *)

PostTelemetry(r, d, o, ks) ==
  /\ Arrives(r, "telemetry", d)
  /\ IF ~ Present(d) THEN Answer(r, "telemetry", 404)
     ELSE IF devices[d].org # o \/ devices[d].cfg.dev # d
     THEN Answer(r, "telemetry", 403)
     ELSE job' = [job EXCEPT ![r] = [IdleJob EXCEPT !.pc = "frame", !.op = "telemetry",
                                                    !.dev = d, !.keys = ks]]
  /\ UNCHANGED <<storeVars, alertVars, streamVars>>

InsertTelemetry(r) ==
  /\ job[r].pc = "frame"
  /\ telemetry' = [telemetry EXCEPT ![job[r].dev] = job[r].keys]
  /\ Proceed(r, "flags")
  /\ UNCHANGED <<storeVars, flags, alerts, streamVars>>

Keys(ks) == {ks[i] : i \in DOMAIN ks}
Alerted(d) == IF flags[d] = None THEN {} ELSE flags[d]

\* Mutant: the flags of earlier frames stay set.
NewAlertFlagsAccumulate(r) ==
  /\ job[r].pc = "flags"
  /\ flags' = [flags EXCEPT ![job[r].dev] = Keys(job[r].keys) \cup Alerted(job[r].dev)]
  /\ IF job[r].keys = <<>>
     THEN Answer(r, "telemetry", 200)
     ELSE job' = [job EXCEPT ![r].pc = "alert", ![r].prev = Alerted(job[r].dev)]
  /\ UNCHANGED <<storeVars, telemetry, alerts, streamVars>>

\* Mutant: a frame without flags returns before it replaces the old ones.
NewAlertFlagsKeep(r) ==
  /\ job[r].pc = "flags"
  /\ IF job[r].keys = <<>>
     THEN Answer(r, "telemetry", 200) /\ UNCHANGED flags
     ELSE /\ flags' = [flags EXCEPT ![job[r].dev] = Keys(job[r].keys)]
          /\ job' = [job EXCEPT ![r].pc = "alert", ![r].prev = Alerted(job[r].dev)]
  /\ UNCHANGED <<storeVars, telemetry, alerts, streamVars>>

\* The frame's flags replace those of the previous frame; prev keeps the old
\* ones, against which the handler filters.
NewAlertFlags(r) ==
  /\ job[r].pc = "flags"
  /\ flags' = [flags EXCEPT ![job[r].dev] = Keys(job[r].keys)]
  /\ IF job[r].keys = <<>>
     THEN Answer(r, "telemetry", 200)
     ELSE job' = [job EXCEPT ![r].pc = "alert", ![r].prev = Alerted(job[r].dev)]
  /\ UNCHANGED <<storeVars, telemetry, alerts, streamVars>>

\* Mutant: the id is the number of alerts in the ring.
PushedByLength(ring, d, k) ==
  LET all == Append(ring, [id |-> Len(ring) + 1, dev |-> d, key |-> k])
  IN  IF Len(all) > AlertCap THEN SubSeq(all, Len(all) - AlertCap + 1, Len(all)) ELSE all

\* DeviceStore::push_alert: id follows the newest alert's, the ring keeps the
\* newest AlertCap.
Pushed(ring, d, k) ==
  LET id  == IF ring = <<>> THEN 1 ELSE ring[Len(ring)].id + 1
      all == Append(ring, [id |-> id, dev |-> d, key |-> k])
  IN  IF Len(all) > AlertCap THEN SubSeq(all, Len(all) - AlertCap + 1, Len(all)) ELSE all

\* The next flag of the frame; only one that is new raises an alert.
PushAlert(r) ==
  /\ job[r].pc = "alert"
  /\ LET k == Head(job[r].keys)
     IN  alerts' = IF k \in job[r].prev THEN alerts ELSE Pushed(alerts, job[r].dev, k)
  /\ IF Tail(job[r].keys) = <<>>
     THEN Answer(r, "telemetry", 200)
     ELSE job' = [job EXCEPT ![r].keys = Tail(@)]
  /\ UNCHANGED <<storeVars, telemetry, flags, streamVars>>

-----------------------------------------------------------------------------
(* GET /stream/config: 404 for an unknown device (nothing changes); after   *)
(* the upgrade the task subscribes (creating the channel if the device has *)
(* none) and forwards what it receives until the channel lags, closes or   *)
(* the socket fails.  The task then drops only its half of the socket: the *)
(* reader task keeps the other half, so the connection stays open until    *)
(* the client leaves.                                                      *)

OpenStream(s, d) ==
  /\ stream[s].pc = "idle" /\ Present(d)
  /\ stream' = [stream EXCEPT ![s] = [IdleStream EXCEPT !.pc = "upgrading", !.dev = d]]
  /\ UNCHANGED <<storeVars, alertVars, job, sent>>

Subscribe(s) ==
  /\ stream[s].pc = "upgrading"
  /\ LET d  == stream[s].dev
         at(ch, n) == stream' = [stream EXCEPT ![s].pc = "open", ![s].chan = ch,
                                               ![s].from = n, ![s].pos = n]
     IN  IF chan[d] = 0
         THEN NewChannel(d) /\ at(Len(logs) + 1, 0)
         ELSE at(chan[d], Len(logs[chan[d]])) /\ UNCHANGED <<chan, logs>>
  /\ UNCHANGED <<devices, alertVars, job, sent>>

\* broadcast::Receiver: what it has not read, whether the oldest of that has
\* been overwritten, and whether the Sender is gone from the map.  (A handler
\* that has just read the record holds a clone of the Sender while it runs,
\* which only delays the closing.)
Backlog(s) == Len(logs[stream[s].chan]) - stream[s].pos
Lagged(s)  == Backlog(s) > Capacity
Closed(s)  == \A d \in Device : chan[d] # stream[s].chan

\* Mutant: after a lag the task goes on with the oldest message still there.
ForwardOverLag(s) ==
  /\ stream[s].pc = "open" /\ Backlog(s) > 0
  /\ LET log  == logs[stream[s].chan]
         next == IF Lagged(s) THEN Len(log) - Capacity + 1 ELSE stream[s].pos + 1
     IN  /\ sent' = [sent EXCEPT ![s] = Append(@, log[next])]
         /\ stream' = [stream EXCEPT ![s].pos = next]
  /\ UNCHANGED <<storeVars, alertVars, job>>

\* recv yields the next configuration; it is written to the socket.  Writing
\* to a socket the client has left may still succeed.
Forward(s) ==
  /\ stream[s].pc = "open" /\ Backlog(s) > 0 /\ ~ Lagged(s)
  /\ sent' = [sent EXCEPT ![s] = Append(@, logs[stream[s].chan][stream[s].pos + 1])]
  /\ stream' = [stream EXCEPT ![s].pos = @ + 1]
  /\ UNCHANGED <<storeVars, alertVars, job>>

\* Mutant: the task does not end when it lags.
EndStreamUnlessLagged(s) ==
  /\ stream[s].pc = "open"
  /\ (Closed(s) /\ Backlog(s) = 0) \/ (stream[s].gone /\ Backlog(s) > 0)
  /\ stream' = [stream EXCEPT ![s].pc = "ended"]
  /\ UNCHANGED <<storeVars, alertVars, job, sent>>

\* Mutant: the task does not end when its channel is closed.
EndStreamUnlessClosed(s) ==
  /\ stream[s].pc = "open"
  /\ Lagged(s) \/ (stream[s].gone /\ Backlog(s) > 0)
  /\ stream' = [stream EXCEPT ![s].pc = "ended"]
  /\ UNCHANGED <<storeVars, alertVars, job, sent>>

\* recv or the write to the socket returns an error: the task is over.
EndStream(s) ==
  /\ stream[s].pc = "open"
  /\ \/ Lagged(s)
     \/ Closed(s) /\ Backlog(s) = 0
     \/ stream[s].gone /\ Backlog(s) > 0
  /\ stream' = [stream EXCEPT ![s].pc = "ended"]
  /\ UNCHANGED <<storeVars, alertVars, job, sent>>

ClientLeaves(s) ==
  /\ stream[s].pc # "idle" /\ ~ stream[s].gone
  /\ stream' = [stream EXCEPT ![s].gone = TRUE]
  /\ UNCHANGED <<storeVars, alertVars, job, sent>>

-----------------------------------------------------------------------------

Arrive(r) ==
  \E d \in Device :
    \/ \E o \in Org, n \in Name, v \in Registered : Register(r, d, o, n, v)
    \/ \E op \in Ops, c \in Body : CheckConfig(r, op, d, c)
    \/ \E o \in Org \cup {None}, n \in Name \cup {None} : UpdateMeta(r, d, o, n)
    \/ Delete(r, d)
    \/ \E o \in Org, ks \in Frame : PostTelemetry(r, d, o, ks)

Continue(r) ==
  \/ RegisterChannel(r) \/ ReplaceConfig(r) \/ SendConfig(r) \/ Reinsert(r)
  \/ RemoveDevice(r) \/ DropChannel(r) \/ DropTelemetry(r) \/ DropFlags(r)
  \/ InsertTelemetry(r) \/ NewAlertFlags(r) \/ PushAlert(r)

StreamStep(s) == Subscribe(s) \/ Forward(s) \/ EndStream(s)

Next ==
  \/ \E r \in Request : Arrive(r) \/ Continue(r)
  \/ \E s \in Stream : StreamStep(s) \/ ClientLeaves(s) \/ \E d \in Device : OpenStream(s, d)

Spec == Init /\ [][Next]_vars

\* The runtime polls every runnable task; clients owe nothing.
Fairness ==
  /\ \A r \in Request : WF_vars(Continue(r))
  /\ \A s \in Stream : WF_vars(StreamStep(s))

FairSpec == Spec /\ Fairness

-----------------------------------------------------------------------------
(* Properties.                                                             *)

\* r's handler stores its configuration in this step.
Commits(r) == job[r].pc = "replace" /\ job'[r].pc = "send"

\* Whatever the interleaving, an apply commits a version that does not
\* increase the stored one only if the record changed after the handler's
\* check: the version check of apply_config is an optimistic lock, and losing
\* the race is the only way around it.
ApplyOvertaken ==
  [][\A r \in Request : Commits(r) /\ job[r].op = "apply" =>
       \/ IsStrictlyNewerThan(job[r].cfg, devices[job[r].dev].cfg)
       \/ devices[job[r].dev] # job[r].seen]_vars

\* The step is a registration of d.
Registers(d) == \E r \in Request : job[r].pc = "idle" /\ job'[r].pc = "channel"
                                     /\ job'[r].dev = d

\* While the requests for a device come one at a time, its stored configuration
\* is replaced by a strictly newer one only.  A registration starts the device
\* afresh; a metadata update may rename it, under the version it has
\* (apply_config, update_meta).
RevisionsIncrease ==
  [][\A d \in Device :
       Present(d) /\ Present(d)' /\ devices'[d].cfg # devices[d].cfg /\ ~ Registers(d)
         => \/ IsStrictlyNewerThan(devices'[d].cfg, devices[d].cfg)
            \/ SameButHost(devices'[d].cfg, devices[d].cfg)]_vars

\* A deleted device comes back only by registering again: no handler that was
\* on its way when the device was deleted puts the record back.
NoResurrection ==
  [][\A d \in Device : ~ Present(d) /\ Present(d)' => Registers(d)]_vars

\* When no handler works on d, the newest message of its channel is the stored
\* configuration, but for the hostname: a subscriber that has read everything
\* agrees with the store on all that a push carries (a rename is not pushed).
LastPushIsStored ==
  \A d \in Device :
    Present(d) /\ Quiet(d) /\ chan[d] # 0 /\ logs[chan[d]] # <<>>
      => LET log == logs[chan[d]] IN SameButHost(log[Len(log)], devices[d].cfg)

\* A stream forwards exactly what was sent on its channel since it subscribed,
\* in order and without a gap: falling behind ends it instead of skipping.
StreamGapless ==
  \A s \in Stream : stream[s].chan # 0 =>
    sent[s] = SubSeq(logs[stream[s].chan], stream[s].from + 1, stream[s].pos)

\* Every configuration sent on the channel of an open stream is forwarded, or
\* the stream task ends.
PushDelivered ==
  \A s \in Stream :
    (stream[s].pc = "open" /\ Backlog(s) > 0)
      ~> (stream[s].pc = "ended" \/ (stream[s].pc = "open" /\ Backlog(s) = 0))

\* A stream task does not wait forever on a channel that a registration
\* replaced or a deletion dropped: it ends.
NoStrandedStream ==
  \A s \in Stream :
    (stream[s].pc = "open" /\ chan[stream[s].dev] # stream[s].chan)
      ~> stream[s].pc = "ended"

\* Alert ids count up by one along the ring, so none is ever reused.
AlertIdsConsecutive ==
  /\ Len(alerts) <= AlertCap
  /\ \A i \in 1 .. Len(alerts) - 1 : alerts[i + 1].id = alerts[i].id + 1

\* For every known device whose requests are all served, the flags that gate
\* its alerts are those of the frame GET /telemetry shows.
FlagsMatchLatestFrame ==
  \A d \in Device : Present(d) /\ Quiet(d) /\ telemetry[d] # None
                      => flags[d] = Keys(telemetry[d])

=============================================================================
