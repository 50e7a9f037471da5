---------------------------- MODULE SqliteStore -----------------------------
(***************************************************************************)
(* The SQLite backend of the controller's device store                     *)
(* (crates/sdwan-agent/src/store.rs): one connection behind a standard     *)
(* mutex, statements that commit by themselves, and a file that survives   *)
(* the process.  A request of the controller makes one or two calls of the *)
(* backend and takes the mutex for each.                                   *)
(***************************************************************************)
EXTENDS Naturals, Sequences

CONSTANTS
  Device,      \* device identities
  Request,     \* requests in flight at once
  Field,       \* columns of a device: org, site, hostname
  Value,       \* what they hold
  Version,     \* configuration versions
  MaxCrashes,  \* bound on restarts
  None

ASSUME StoreAssumption ==
  /\ None \notin [Field -> Value] /\ None \notin Request
  /\ Version \subseteq Nat /\ MaxCrashes \in Nat

VARIABLES
  devices,  \* table devices: a row per device, or None
  configs,  \* table configs: rows [dev, version]
  holder,   \* the request that holds the connection mutex, or None
  job,      \* per request, what it does and where it is
  crashes,
  pushed    \* history: a configuration row was inserted since the start

tables == <<devices, configs>>
vars == <<tables, holder, job, crashes, pushed>>

Rows == [Field -> Value]

\* The backend calls of each controller handler, in order.  The last call of
\* put_config is the one replace_config makes while it holds the mutex.
Calls == [register   |-> <<"insert">>,
          read       |-> <<"get">>,
          list       |-> <<"list">>,
          remove     |-> <<"get", "delete">>,
          update     |-> <<"get", "insert">>,
          put_config |-> <<"get", "replace", "get">>,
          telemetry  |-> <<"get", "telemetry">>]

\* pc "wait": about to lock the mutex; "locked": in a call, holding it.
Idle == [pc |-> "idle", op |-> None, dev |-> None, step |-> 1, row |-> None,
         set |-> None, version |-> 0, ok |-> FALSE]

StoreTypeOK ==
  /\ devices \in [Device -> Rows \cup {None}]
  /\ configs \subseteq [dev: Device, version: Version]
  /\ holder \in Request \cup {None}
  /\ crashes \in Nat /\ pushed \in BOOLEAN

\* migrate() creates empty tables once.
Init ==
  /\ devices = [d \in Device |-> None] /\ configs = {}
  /\ holder = None
  /\ job = [r \in Request |-> Idle]
  /\ crashes = 0 /\ pushed = FALSE

Call(r) == Calls[job[r].op][job[r].step]
Locked(r, call) == job[r].pc = "locked" /\ Call(r) = call

\* A handler starts: register brings a whole row, update some fields, put a
\* configuration.
Begin(r, op, d, row, set, v) ==
  /\ job[r].pc = "idle"
  /\ job' = [job EXCEPT ![r] = [Idle EXCEPT !.pc = "wait", !.op = op, !.dev = d, !.row = row,
                                            !.set = set, !.version = v]]
  /\ UNCHANGED <<tables, holder, crashes, pushed>>

Register(r)  == \E d \in Device, row \in Rows : Begin(r, "register", d, row, None, 0)
Query(r)     == \E d \in Device, op \in {"read", "list", "remove", "telemetry"} :
                  Begin(r, op, d, None, None, 0)
Update(r)    == \E d \in Device, f \in Field, x \in Value :
                  Begin(r, "update", d, None, [field |-> f, value |-> x], 0)
PutConfig(r) == \E d \in Device, v \in Version : Begin(r, "put_config", d, None, None, v)

Lock(r) ==
  /\ job[r].pc = "wait" /\ holder = None
  /\ holder' = r
  /\ job' = [job EXCEPT ![r].pc = "locked"]
  /\ UNCHANGED <<tables, crashes, pushed>>

\* The last call of a handler returns: the guard is dropped, the answer is ready.
Return(r, ok) ==
  /\ holder' = None
  /\ job' = [job EXCEPT ![r] = [Idle EXCEPT !.pc = "done", !.ok = ok]]

\* get_device.  map_row does not read configs: whatever was pushed, the record
\* has the empty configuration of version 0.
Get(r) ==
  /\ Locked(r, "get")
  /\ LET row == devices[job[r].dev]
         set == job[r].set
         new == IF row = None \/ set = None THEN row
                ELSE [row EXCEPT ![set.field] = set.value]
     IN  /\ holder' = None
         /\ job' = [job EXCEPT ![r] =
              IF row # None /\ job[r].step < Len(Calls[job[r].op])
              THEN [job[r] EXCEPT !.pc = "wait", !.step = 2, !.row = new]
              ELSE [Idle EXCEPT !.pc = "done", !.ok = (row # None)]]
  /\ UNCHANGED <<tables, crashes, pushed>>

\* INSERT OR REPLACE: rows of configs that refer to the device stay valid.
Insert(r) ==
  /\ Locked(r, "insert")
  /\ devices' = [devices EXCEPT ![job[r].dev] = job[r].row]
  /\ Return(r, TRUE)
  /\ UNCHANGED <<configs, crashes, pushed>>

\* Mutant: foreign keys are not enforced on the connection.
DeleteUnchecked(r) ==
  /\ Locked(r, "delete")
  /\ devices' = [devices EXCEPT ![job[r].dev] = None]
  /\ Return(r, devices[job[r].dev] # None)
  /\ UNCHANGED <<configs, crashes, pushed>>

Referenced(d) == \E c \in configs : c.dev = d

\* DELETE: refused while a configuration of the device exists, an error when
\* there is no such row.
Delete(r) ==
  /\ Locked(r, "delete")
  /\ LET ok == devices[job[r].dev] # None /\ ~ Referenced(job[r].dev)
     IN  /\ devices' = IF ok THEN [devices EXCEPT ![job[r].dev] = None] ELSE devices
         /\ Return(r, ok)
  /\ UNCHANGED <<configs, crashes, pushed>>

List(r) ==
  /\ Locked(r, "list")
  /\ Return(r, TRUE)
  /\ UNCHANGED <<tables, crashes, pushed>>

\* Mutant: insert_telemetry waits for the connection it holds.
TelemetryWaits(r) ==
  /\ Locked(r, "telemetry")
  /\ job' = [job EXCEPT ![r].pc = "wait"]
  /\ UNCHANGED <<tables, holder, crashes, pushed>>

\* The migration creates no table `telemetry`.
Telemetry(r) ==
  /\ Locked(r, "telemetry")
  /\ Return(r, FALSE)
  /\ UNCHANGED <<tables, crashes, pushed>>

\* replace_config: the row is committed, then get_device asks for the mutex
\* that is held until replace_config returns.
Replace(r) ==
  /\ Locked(r, "replace")
  /\ IF devices[job[r].dev] = None
     THEN Return(r, FALSE) /\ UNCHANGED <<configs, pushed>>
     ELSE /\ configs' = configs \cup {[dev |-> job[r].dev, version |-> job[r].version]}
          /\ pushed' = TRUE
          /\ job' = [job EXCEPT ![r].pc = "wait", ![r].step = 3]
          /\ UNCHANGED holder
  /\ UNCHANGED <<devices, crashes>>

Answer(r) ==
  /\ job[r].pc = "done"
  /\ job' = [job EXCEPT ![r] = Idle]
  /\ UNCHANGED <<tables, holder, crashes, pushed>>

\* The controller is killed and opens the file again.
Restart ==
  /\ crashes < MaxCrashes
  /\ crashes' = crashes + 1
  /\ holder' = None /\ pushed' = FALSE
  /\ job' = [r \in Request |-> Idle]
  /\ UNCHANGED tables

Arrive(r) == Register(r) \/ Query(r) \/ Update(r) \/ PutConfig(r)

Step(r) ==
  \/ Lock(r) \/ Get(r) \/ Insert(r) \/ Delete(r) \/ List(r) \/ Telemetry(r)
  \/ Replace(r) \/ Answer(r)

Next == (\E r \in Request : Arrive(r) \/ Step(r)) \/ Restart

\* Threads run, and the mutex is handed to every thread that waits for it.
Fairness ==
  \A r \in Request : SF_vars(Lock(r)) /\ WF_vars(Step(r))

Spec == Init /\ [][Next]_vars /\ Fairness

-----------------------------------------------------------------------------
(* Properties.                                                             *)

\* A configuration in the history is one of a device that exists, whatever
\* requests and restarts come between: a device with history is not removed
\* (store.rs, delete_device; migrations/001_init.sql, configs).
HistoryHasDevice == \A c \in configs : devices[c.dev] # None

InCall(r) == job[r].pc \in {"wait", "locked"}

\* Before the first configuration is stored, every request is answered.
AnsweredUntilPushed == \A r \in Request : InCall(r) ~> ~ InCall(r) \/ pushed

(* What the documentation says (store.rs, module comment).                 *)

\* "Replaces the P0 in-memory store ... while preserving the existing
\* controller contract": every call returns.
EveryCallReturns == \A r \in Request : InCall(r) ~> ~ InCall(r)
=============================================================================
