-------------------------- MODULE SqliteStore_proofs -------------------------
(***************************************************************************)
(* Theorems about module SqliteStore, for any devices, requests and number *)
(* of restarts.                                                            *)
(***************************************************************************)
EXTENDS SqliteStore, TLAPS

-----------------------------------------------------------------------------
(* Typing, with what a handler knows before each call.                     *)

Pc == {"idle", "wait", "locked", "done"}
Change == [field: Field, value: Value]
IsJob(j) ==
  /\ "pc" \in DOMAIN j /\ "op" \in DOMAIN j /\ "dev" \in DOMAIN j /\ "step" \in DOMAIN j
  /\ "row" \in DOMAIN j /\ "set" \in DOMAIN j /\ "version" \in DOMAIN j

\* A request in a call names a device, brings what its operation stores and
\* holds the record it read.
InCallOK(j) ==
  /\ j.dev \in Device /\ j.step \in {1, 2, 3}
  /\ j.op \in {"register", "read", "list", "remove", "update", "put_config", "telemetry"}
  /\ j.op \in {"register", "read", "list"} => j.step = 1
  /\ j.step = 3 => j.op = "put_config"
  /\ j.op = "register" => j.row \in Rows /\ j.set = None
  /\ j.op = "update" => j.set \in Change /\ (j.step = 2 => j.row \in Rows)
  /\ j.op = "put_config" => j.version \in Version

JobOK(j) == j.pc \in Pc /\ (j.pc \in {"wait", "locked"} => IsJob(j) /\ InCallOK(j))

\* The mutex is held by whoever is in a call, and by a request that stored a
\* configuration until the process ends.
MutexHeld ==
  \A r \in Request :
    /\ job[r].pc = "locked" => holder = r
    /\ job[r].pc = "wait" /\ job[r].step = 3 => holder = r

StoreInv ==
  /\ StoreTypeOK
  /\ job = [r \in Request |-> job[r]]
  /\ \A r \in Request : JobOK(job[r])

LEMMA CallsAre ==
  /\ Calls["register"] = <<"insert">> /\ Calls["read"] = <<"get">> /\ Calls["list"] = <<"list">>
  /\ Calls["remove"] = <<"get", "delete">> /\ Calls["update"] = <<"get", "insert">>
  /\ Calls["put_config"] = <<"get", "replace", "get">>
  /\ Calls["telemetry"] = <<"get", "telemetry">>
BY DEF Calls

\* Which handlers reach which call.
LEMMA WhoCalls ==
  ASSUME NEW j, InCallOK(j)
  PROVE  /\ Calls[j.op][j.step] = "insert" =>
              j.op = "register" \/ (j.op = "update" /\ j.step = 2)
         /\ Calls[j.op][j.step] = "replace" => j.op = "put_config" /\ j.step = 2
         /\ Calls[j.op][j.step] = "get" => j.op # "register" /\ j.op # "list"
         /\ Calls[j.op][j.step] = "get" /\ j.step < Len(Calls[j.op]) => j.step = 1 /\ j.op # "read"
<1>1. CASE j.op = "register" BY <1>1, CallsAre DEF InCallOK
<1>2. CASE j.op = "read" BY <1>2, CallsAre DEF InCallOK
<1>3. CASE j.op = "list" BY <1>3, CallsAre DEF InCallOK
<1>4. CASE j.op = "remove" BY <1>4, CallsAre DEF InCallOK
<1>5. CASE j.op = "update" BY <1>5, CallsAre DEF InCallOK
<1>6. CASE j.op = "put_config" BY <1>6, CallsAre DEF InCallOK
<1>7. CASE j.op = "telemetry" BY <1>7, CallsAre DEF InCallOK
<1>8. QED BY <1>1, <1>2, <1>3, <1>4, <1>5, <1>6, <1>7 DEF InCallOK

LEMMA IdleOK == JobOK(Idle) /\ Idle.pc = "idle"
BY DEF JobOK, IsJob, Idle, Pc

\* How an answered request looks.
Done(b) == [Idle EXCEPT !.pc = "done", !.ok = b]

LEMMA DoneOK == ASSUME NEW b PROVE JobOK(Done(b)) /\ Done(b).pc = "done"
<1>1. Done(b).pc = "done" BY DEF Done, Idle
<1>2. QED BY <1>1 DEF JobOK, Pc

\* A step that sets the job of one request keeps the jobs in order.
LEMMA SetJob ==
  ASSUME job = [r \in Request |-> job[r]], \A r \in Request : JobOK(job[r]),
         NEW r \in Request, NEW j, JobOK(j), job' = [job EXCEPT ![r] = j]
  PROVE  /\ job' = [q \in Request |-> job'[q]]
         /\ \A q \in Request : JobOK(job'[q])
OBVIOUS

-----------------------------------------------------------------------------
(* Every action keeps the typing.                                          *)

LEMMA BeginKeeps ==
  ASSUME StoreInv, NEW r \in Request, NEW op, NEW d, NEW row, NEW set, NEW v,
         Begin(r, op, d, row, set, v),
         InCallOK([Idle EXCEPT !.pc = "wait", !.op = op, !.dev = d, !.row = row, !.set = set,
                               !.version = v])
  PROVE  StoreInv'
<1> DEFINE j == [Idle EXCEPT !.pc = "wait", !.op = op, !.dev = d, !.row = row, !.set = set,
                             !.version = v]
<1>1. j.pc = "wait" /\ IsJob(j) BY DEF Idle, IsJob
<1>2. JobOK(j) BY <1>1 DEF JobOK, Pc
<1>3. job' = [job EXCEPT ![r] = j] /\ UNCHANGED <<tables, holder, crashes, pushed>>
  BY DEF Begin
<1>4. /\ job' = [q \in Request |-> job'[q]]
      /\ \A q \in Request : JobOK(job'[q])
  <2> HIDE DEF j
  <2> QED BY <1>2, <1>3, SetJob DEF StoreInv
<1>5. QED BY <1>3, <1>4 DEF StoreInv, StoreTypeOK, tables

LEMMA ArriveKeeps == ASSUME StoreInv, NEW r \in Request, Arrive(r) PROVE StoreInv'
<1>1. ASSUME Register(r) PROVE StoreInv'
  <2>1. PICK d \in Device, row \in Rows : Begin(r, "register", d, row, None, 0)
    BY <1>1 DEF Register
  <2>2. InCallOK([Idle EXCEPT !.pc = "wait", !.op = "register", !.dev = d, !.row = row,
                              !.set = None, !.version = 0])
    BY DEF InCallOK, Idle
  <2>3. QED BY <2>1, <2>2, BeginKeeps
<1>2. ASSUME Query(r) PROVE StoreInv'
  <2>1. PICK d \in Device, op \in {"read", "list", "remove", "telemetry"} :
          Begin(r, op, d, None, None, 0)
    BY <1>2 DEF Query
  <2>2. InCallOK([Idle EXCEPT !.pc = "wait", !.op = op, !.dev = d, !.row = None, !.set = None,
                              !.version = 0])
    BY DEF InCallOK, Idle
  <2>3. QED BY <2>1, <2>2, BeginKeeps
<1>3. ASSUME Update(r) PROVE StoreInv'
  <2>1. PICK d \in Device, f \in Field, x \in Value :
          Begin(r, "update", d, None, [field |-> f, value |-> x], 0)
    BY <1>3 DEF Update
  <2>2. [field |-> f, value |-> x] \in Change BY DEF Change
  <2>3. InCallOK([Idle EXCEPT !.pc = "wait", !.op = "update", !.dev = d, !.row = None,
                              !.set = [field |-> f, value |-> x], !.version = 0])
    BY <2>2 DEF InCallOK, Idle
  <2>4. QED BY <2>1, <2>3, BeginKeeps
<1>4. ASSUME PutConfig(r) PROVE StoreInv'
  <2>1. PICK d \in Device, v \in Version : Begin(r, "put_config", d, None, None, v)
    BY <1>4 DEF PutConfig
  <2>2. InCallOK([Idle EXCEPT !.pc = "wait", !.op = "put_config", !.dev = d, !.row = None,
                              !.set = None, !.version = v])
    BY DEF InCallOK, Idle
  <2>3. QED BY <2>1, <2>2, BeginKeeps
<1>5. QED BY <1>1, <1>2, <1>3, <1>4 DEF Arrive

\* A call that returns keeps the jobs in order and leaves the mutex free.
LEMMA ReturnKeeps ==
  ASSUME StoreInv, NEW r \in Request, NEW b, Return(r, b)
  PROVE  /\ job' = [q \in Request |-> job'[q]] /\ \A q \in Request : JobOK(job'[q])
         /\ job' = [job EXCEPT ![r] = Done(b)] /\ holder' = None
<1>1. job' = [job EXCEPT ![r] = Done(b)] /\ holder' = None BY DEF Return, Done
<1>2. QED BY <1>1, DoneOK, SetJob DEF StoreInv

LEMMA LockKeeps == ASSUME StoreInv, NEW r \in Request, Lock(r) PROVE StoreInv'
<1>1. JobOK([job[r] EXCEPT !.pc = "locked"])
  BY DEF StoreInv, Lock, JobOK, IsJob, InCallOK, Pc
<1>2. job' = [job EXCEPT ![r] = [job[r] EXCEPT !.pc = "locked"]] BY DEF Lock, StoreInv
<1>3. /\ job' = [q \in Request |-> job'[q]] /\ \A q \in Request : JobOK(job'[q])
  BY <1>1, <1>2, SetJob DEF StoreInv
<1>4. QED BY <1>3 DEF Lock, StoreInv, StoreTypeOK, tables

LEMMA GetKeeps == ASSUME StoreInv, NEW r \in Request, Get(r) PROVE StoreInv'
<1> DEFINE row == devices[job[r].dev]
           set == job[r].set
           new == IF row = None \/ set = None THEN row ELSE [row EXCEPT ![set.field] = set.value]
           next == [job[r] EXCEPT !.pc = "wait", !.step = 2, !.row = new]
<1>1. JobOK(job[r]) /\ job[r].pc = "locked" /\ Calls[job[r].op][job[r].step] = "get"
  BY DEF Get, Locked, Call, StoreInv
<1>2. IsJob(job[r]) /\ InCallOK(job[r]) BY <1>1 DEF JobOK
<1>3. \/ job' = [job EXCEPT ![r] = Done(row # None)]
      \/ /\ row # None /\ job[r].step < Len(Calls[job[r].op])
         /\ job' = [job EXCEPT ![r] = next]
  BY DEF Get, Done
<1>4. CASE job' = [job EXCEPT ![r] = Done(row # None)]
  <2>1. /\ job' = [q \in Request |-> job'[q]] /\ \A q \in Request : JobOK(job'[q])
    BY <1>4, DoneOK, SetJob DEF StoreInv
  <2>2. QED BY <2>1 DEF Get, StoreInv, StoreTypeOK, tables
<1>5. CASE row # None /\ job[r].step < Len(Calls[job[r].op]) /\ job' = [job EXCEPT ![r] = next]
  <2>1. job[r].op \notin {"register", "list", "read"} BY <1>1, <1>2, <1>5, WhoCalls
  <2>2. row \in Rows BY <1>2, <1>5 DEF StoreInv, StoreTypeOK, InCallOK
  <2>3. ASSUME job[r].op = "update" PROVE new \in Rows
    BY <1>2, <2>2, <2>3 DEF InCallOK, Change, Rows
  <2> HIDE DEF new
  <2>4. /\ IsJob(next) /\ next.pc = "wait" /\ next.op = job[r].op /\ next.dev = job[r].dev
        /\ next.step = 2 /\ next.row = new /\ next.set = job[r].set
        /\ next.version = job[r].version
    BY <1>2 DEF IsJob
  <2>5. JobOK(next) BY <1>2, <2>1, <2>3, <2>4 DEF JobOK, IsJob, InCallOK, Pc
  <2> HIDE DEF next
  <2>6. /\ job' = [q \in Request |-> job'[q]] /\ \A q \in Request : JobOK(job'[q])
    BY <1>5, <2>5, SetJob DEF StoreInv
  <2>7. QED BY <2>6 DEF Get, StoreInv, StoreTypeOK, tables
<1>6. QED BY <1>3, <1>4, <1>5

LEMMA InsertKeeps == ASSUME StoreInv, NEW r \in Request, Insert(r) PROVE StoreInv' /\ job[r].row \in Rows
<1>1. JobOK(job[r]) /\ job[r].pc = "locked" /\ Calls[job[r].op][job[r].step] = "insert"
  BY DEF Insert, Locked, Call, StoreInv
<1>2. job[r].row \in Rows /\ job[r].dev \in Device BY <1>1, WhoCalls DEF JobOK, InCallOK
<1>3. devices' = [devices EXCEPT ![job[r].dev] = job[r].row] BY DEF Insert
<1>4. devices' \in [Device -> Rows \cup {None}] BY <1>2, <1>3 DEF StoreInv, StoreTypeOK
<1>5. QED BY <1>2, <1>4, ReturnKeeps DEF Insert, StoreInv, StoreTypeOK

LEMMA DeleteKeeps == ASSUME StoreInv, NEW r \in Request, Delete(r) PROVE StoreInv'
<1>1. devices' \in [Device -> Rows \cup {None}] BY DEF Delete, StoreInv, StoreTypeOK
<1>2. PICK b : Return(r, b) BY DEF Delete
<1>3. QED BY <1>1, <1>2, ReturnKeeps DEF Delete, StoreInv, StoreTypeOK

LEMMA ReplaceKeeps == ASSUME StoreInv, NEW r \in Request, Replace(r) PROVE StoreInv'
<1>1. JobOK(job[r]) /\ job[r].pc = "locked" /\ Calls[job[r].op][job[r].step] = "replace"
  BY DEF Replace, Locked, Call, StoreInv
<1>2. IsJob(job[r]) /\ InCallOK(job[r]) /\ job[r].op = "put_config"
  BY <1>1, WhoCalls DEF JobOK
<1>3. CASE devices[job[r].dev] = None
  BY <1>3, ReturnKeeps DEF Replace, StoreInv, StoreTypeOK
<1>4. CASE devices[job[r].dev] # None
  <2> DEFINE next == [job[r] EXCEPT !.pc = "wait", !.step = 3]
  <2>1. JobOK(next) BY <1>2 DEF JobOK, IsJob, InCallOK, Pc
  <2>2. job' = [job EXCEPT ![r] = next] BY <1>4 DEF Replace, StoreInv
  <2> HIDE DEF next
  <2>3. /\ job' = [q \in Request |-> job'[q]] /\ \A q \in Request : JobOK(job'[q])
    BY <2>1, <2>2, SetJob DEF StoreInv
  <2>4. configs' \subseteq [dev: Device, version: Version]
    BY <1>2, <1>4 DEF Replace, StoreInv, StoreTypeOK, InCallOK
  <2>5. QED BY <1>4, <2>3, <2>4 DEF Replace, StoreInv, StoreTypeOK
<1>5. QED BY <1>3, <1>4

LEMMA StepKeeps == ASSUME StoreInv, NEW r \in Request, Step(r) PROVE StoreInv'
<1>1. CASE Lock(r) BY <1>1, LockKeeps
<1>2. CASE Get(r) BY <1>2, GetKeeps
<1>3. CASE Insert(r) BY <1>3, InsertKeeps
<1>4. CASE Delete(r) BY <1>4, DeleteKeeps
<1>5. CASE List(r) BY <1>5, ReturnKeeps DEF List, StoreInv, StoreTypeOK, tables
<1>6. CASE Telemetry(r) BY <1>6, ReturnKeeps DEF Telemetry, StoreInv, StoreTypeOK, tables
<1>7. CASE Replace(r) BY <1>7, ReplaceKeeps
<1>8. CASE Answer(r) BY <1>8, IdleOK, SetJob DEF Answer, StoreInv, StoreTypeOK, tables
<1>9. QED BY <1>1, <1>2, <1>3, <1>4, <1>5, <1>6, <1>7, <1>8 DEF Step

LEMMA Typed == ASSUME StoreInv, [Next]_vars PROVE StoreInv'
<1>1. ASSUME NEW r \in Request, Arrive(r) PROVE StoreInv' BY <1>1, ArriveKeeps
<1>2. ASSUME NEW r \in Request, Step(r) PROVE StoreInv' BY <1>2, StepKeeps
<1>3. CASE Restart
  <2>1. /\ job' = [r \in Request |-> job'[r]] /\ \A r \in Request : JobOK(job'[r])
    BY <1>3, IdleOK DEF Restart
  <2>2. crashes' \in Nat BY <1>3 DEF Restart, StoreInv, StoreTypeOK
  <2>3. QED BY <1>3, <2>1, <2>2 DEF Restart, StoreInv, StoreTypeOK, tables
<1>4. CASE UNCHANGED vars BY <1>4 DEF vars, tables, StoreInv, StoreTypeOK
<1>5. QED BY <1>1, <1>2, <1>3, <1>4 DEF Next

LEMMA InitTyped == Init => StoreInv
<1> SUFFICES ASSUME Init PROVE StoreInv OBVIOUS
<1>1. job = [r \in Request |-> job[r]] /\ \A r \in Request : JobOK(job[r])
  BY IdleOK DEF Init
<1>2. devices \in [Device -> Rows \cup {None}] BY DEF Init
<1>3. pushed \in BOOLEAN BY DEF Init
<1>4. QED BY <1>1, <1>2, <1>3 DEF Init, StoreInv, StoreTypeOK

\* Devices and configurations have their types, and holder is a request or
\* nobody (store.rs, SqliteStore).
THEOREM TypeCorrect == Spec => []StoreTypeOK
<1>1. StoreInv => StoreTypeOK BY DEF StoreInv
<1>2. QED BY <1>1, InitTyped, Typed, PTL DEF Spec

-----------------------------------------------------------------------------
(* The tables.                                                             *)

LEMMA HistoryKept ==
  ASSUME StoreInv, HistoryHasDevice, [Next]_vars PROVE HistoryHasDevice'
<1>1. ASSUME NEW r \in Request, Insert(r) PROVE HistoryHasDevice'
  <2>1. job[r].row # None BY <1>1, InsertKeeps, StoreAssumption DEF Rows
  <2>2. devices' = [devices EXCEPT ![job[r].dev] = job[r].row] /\ configs' = configs
    BY <1>1 DEF Insert
  <2>3. QED BY <2>1, <2>2 DEF HistoryHasDevice, StoreInv, StoreTypeOK
<1>2. ASSUME NEW r \in Request, Delete(r) PROVE HistoryHasDevice'
  <2>1. devices' = devices \/ ( /\ ~ Referenced(job[r].dev)
                               /\ devices' = [devices EXCEPT ![job[r].dev] = None])
    BY <1>2 DEF Delete
  <2>2. QED BY <1>2, <2>1 DEF Delete, Referenced, HistoryHasDevice, StoreInv, StoreTypeOK
<1>3. ASSUME NEW r \in Request, Replace(r) PROVE HistoryHasDevice'
  <2>1. devices' = devices BY <1>3 DEF Replace
  <2>2. configs' = configs
        \/ ( /\ devices[job[r].dev] # None
             /\ configs' = configs \cup {[dev |-> job[r].dev, version |-> job[r].version]})
    BY <1>3 DEF Replace
  <2>3. QED BY <2>1, <2>2 DEF HistoryHasDevice
<1>4. ASSUME UNCHANGED tables PROVE HistoryHasDevice' BY <1>4 DEF tables, HistoryHasDevice
<1>5. ASSUME NEW r \in Request, Arrive(r) PROVE UNCHANGED tables
  BY <1>5 DEF Arrive, Register, Query, Update, PutConfig, Begin
<1>6. ASSUME NEW r \in Request, Step(r), ~ Insert(r), ~ Delete(r), ~ Replace(r)
      PROVE  UNCHANGED tables
  BY <1>6 DEF Step, Lock, Get, List, Telemetry, Answer
<1>7. (Restart \/ UNCHANGED vars) => UNCHANGED tables BY DEF Restart, vars
<1>8. QED BY <1>1, <1>2, <1>3, <1>4, <1>5, <1>6, <1>7 DEF Next

\* The configurations kept are of devices that exist, for any requests and
\* any number of restarts: a device with history is not removed (store.rs,
\* delete_device; migrations/001_init.sql, configs).
THEOREM HistoryIsOwned == Spec => []HistoryHasDevice
<1>1. Init => HistoryHasDevice BY DEF Init, HistoryHasDevice
<1>2. QED BY <1>1, InitTyped, Typed, HistoryKept, PTL DEF Spec

-----------------------------------------------------------------------------
(* The mutex.                                                              *)

\* A step in which the mutex of others is left alone.
LEMMA OthersKeepMutex ==
  ASSUME StoreInv, MutexHeld, NEW r \in Request, NEW j, job' = [job EXCEPT ![r] = j],
         holder' = holder \/ holder \in {None, r},
         j.pc = "locked" => holder' = r,
         j.pc = "wait" /\ j.step = 3 => holder' = r
  PROVE  MutexHeld'
<1> SUFFICES ASSUME NEW q \in Request
             PROVE  /\ job'[q].pc = "locked" => holder' = q
                    /\ job'[q].pc = "wait" /\ job'[q].step = 3 => holder' = q
  BY DEF MutexHeld
<1>1. CASE q = r BY <1>1 DEF StoreInv
<1>2. CASE q # r BY <1>2, StoreAssumption DEF StoreInv, MutexHeld
<1>3. QED BY <1>1, <1>2

LEMMA MutexKept == ASSUME StoreInv, MutexHeld, [Next]_vars PROVE MutexHeld'
<1>1. ASSUME NEW r \in Request, NEW op, NEW d, NEW row, NEW set, NEW v,
             Begin(r, op, d, row, set, v)
      PROVE  MutexHeld'
  <2> DEFINE j == [Idle EXCEPT !.pc = "wait", !.op = op, !.dev = d, !.row = row, !.set = set,
                               !.version = v]
  <2>1. j.pc = "wait" /\ j.step = 1 BY DEF Idle
  <2>2. job' = [job EXCEPT ![r] = j] /\ holder' = holder BY <1>1 DEF Begin
  <2> HIDE DEF j
  <2>3. j.pc # "locked" /\ j.step # 3 BY <2>1
  <2>4. QED BY <2>2, <2>3, OthersKeepMutex
<1>2. ASSUME NEW r \in Request, Arrive(r) PROVE MutexHeld'
  BY <1>1, <1>2 DEF Arrive, Register, Query, Update, PutConfig
<1>3. ASSUME NEW r \in Request, NEW b, Return(r, b), job[r].pc = "locked" PROVE MutexHeld'
  BY <1>3, ReturnKeeps, DoneOK, OthersKeepMutex DEF MutexHeld
<1>4. ASSUME NEW r \in Request, Lock(r) PROVE MutexHeld'
  <2> DEFINE j == [job[r] EXCEPT !.pc = "locked"]
  <2>1. j.pc = "locked" BY <1>4 DEF Lock, StoreInv, JobOK, IsJob
  <2>2. job' = [job EXCEPT ![r] = j] /\ holder = None /\ holder' = r BY <1>4 DEF Lock, StoreInv
  <2> HIDE DEF j
  <2>3. QED BY <2>1, <2>2, OthersKeepMutex
<1>5. ASSUME NEW r \in Request, Get(r) PROVE MutexHeld'
  <2>1. PICK b, n :
          \/ job' = [job EXCEPT ![r] = Done(b)]
          \/ job' = [job EXCEPT ![r] = [job[r] EXCEPT !.pc = "wait", !.step = 2, !.row = n]]
    BY <1>5 DEF Get, Done
  <2>2. holder = r /\ holder' = None BY <1>5 DEF Get, Locked, MutexHeld
  <2>3. CASE job' = [job EXCEPT ![r] = Done(b)] BY <2>2, <2>3, DoneOK, OthersKeepMutex
  <2>4. CASE job' = [job EXCEPT ![r] = [job[r] EXCEPT !.pc = "wait", !.step = 2, !.row = n]]
    <3> DEFINE j == [job[r] EXCEPT !.pc = "wait", !.step = 2, !.row = n]
    <3>1. j.pc = "wait" /\ j.step = 2 BY <1>5 DEF Get, Locked, StoreInv, JobOK, IsJob
    <3>2. job' = [job EXCEPT ![r] = j] BY <2>4
    <3> HIDE DEF j
    <3>3. j.pc # "locked" /\ j.step # 3 BY <3>1
    <3>4. QED BY <2>2, <3>2, <3>3, OthersKeepMutex
  <2>5. QED BY <2>1, <2>3, <2>4
<1>6. ASSUME NEW r \in Request, Replace(r) PROVE MutexHeld'
  <2>1. CASE devices[job[r].dev] = None BY <1>3, <1>6, <2>1 DEF Replace, Locked
  <2>2. CASE devices[job[r].dev] # None
    <3> DEFINE j == [job[r] EXCEPT !.pc = "wait", !.step = 3]
    <3>1. j.pc = "wait" BY <1>6 DEF Replace, Locked, StoreInv, JobOK, IsJob
    <3>2. job' = [job EXCEPT ![r] = j] BY <1>6, <2>2 DEF Replace, StoreInv
    <3>3. holder = r /\ holder' = holder BY <1>6, <2>2 DEF Replace, Locked, MutexHeld
    <3> HIDE DEF j
    <3>4. QED BY <3>1, <3>2, <3>3, OthersKeepMutex
  <2>3. QED BY <2>1, <2>2
<1>7. ASSUME NEW r \in Request, Answer(r) PROVE MutexHeld'
  BY <1>7, IdleOK, OthersKeepMutex DEF Answer
<1>8. ASSUME NEW r \in Request, Step(r) PROVE MutexHeld'
  BY <1>3, <1>4, <1>5, <1>6, <1>7, <1>8
     DEF Step, Insert, Delete, List, Telemetry, Locked
<1>9. CASE Restart BY <1>9, IdleOK DEF Restart, MutexHeld
<1>10. CASE UNCHANGED vars BY <1>10 DEF vars, MutexHeld
<1>11. QED BY <1>2, <1>8, <1>9, <1>10 DEF Next

\* A call holds the mutex from its lock to its return, and so does a request
\* that stored a configuration, although it is about to lock it again
\* (store.rs, replace_config).
THEOREM PutHoldsMutex == Spec => []MutexHeld
<1>1. Init => MutexHeld BY IdleOK DEF Init, MutexHeld
<1>2. QED BY <1>1, InitTyped, Typed, MutexKept, PTL DEF Spec

\* A configuration was stored since the start: its request waits for the
\* mutex it holds.
Blocked(r) == holder = r /\ job[r].pc = "wait" /\ job[r].step = 3
PushBlocks == pushed => \E r \in Request : Blocked(r)

LEMMA BlockedKept ==
  ASSUME StoreInv, MutexHeld, NEW r \in Request, Blocked(r), [Next]_vars, ~ Restart
  PROVE  Blocked(r)'
<1>1. \A q \in Request : job[q].pc # "locked" BY DEF MutexHeld, Blocked
<1>2. ASSUME NEW q \in Request, Arrive(q) PROVE Blocked(r)'
  <2>1. job[q].pc = "idle" /\ holder' = holder /\ \E j : job' = [job EXCEPT ![q] = j]
    BY <1>2 DEF Arrive, Register, Query, Update, PutConfig, Begin
  <2>2. QED BY <2>1 DEF Blocked, StoreInv
<1>3. ASSUME NEW q \in Request, Step(q) PROVE Blocked(r)'
  <2>1. ~ Lock(q) BY StoreAssumption DEF Lock, Blocked
  <2>2. Answer(q)
    BY <1>1, <1>3, <2>1 DEF Step, Get, Insert, Delete, List, Telemetry, Replace, Locked
  <2>3. job[q].pc = "done" /\ holder' = holder /\ job' = [job EXCEPT ![q] = Idle]
    BY <2>2 DEF Answer
  <2>4. QED BY <2>3 DEF Blocked, StoreInv
<1>4. CASE UNCHANGED vars BY <1>4 DEF vars, Blocked
<1>5. QED BY <1>2, <1>3, <1>4 DEF Next

LEMMA PushKept == ASSUME StoreInv, MutexHeld, PushBlocks, [Next]_vars PROVE PushBlocks'
<1>1. CASE Restart BY <1>1 DEF Restart, PushBlocks
<1>2. CASE pushed /\ ~ Restart BY <1>2, BlockedKept DEF PushBlocks
<1>3. CASE ~ pushed /\ ~ Restart
  <2>1. ASSUME NEW r \in Request, Replace(r), devices[job[r].dev] # None PROVE Blocked(r)'
    <3> DEFINE j == [job[r] EXCEPT !.pc = "wait", !.step = 3]
    <3>1. j.pc = "wait" /\ j.step = 3 BY <2>1 DEF Replace, Locked, StoreInv, JobOK, IsJob
    <3>2. job' = [job EXCEPT ![r] = j] BY <2>1 DEF Replace, StoreInv
    <3>3. holder' = r BY <2>1 DEF Replace, Locked, MutexHeld
    <3> HIDE DEF j
    <3>4. QED BY <3>1, <3>2, <3>3 DEF Blocked, StoreInv
  <2>2. ASSUME NEW r \in Request, Replace(r), devices[job[r].dev] = None PROVE pushed' = pushed
    BY <2>2 DEF Replace
  <2>3. ASSUME NEW r \in Request, Step(r), ~ Replace(r) PROVE pushed' = pushed
    BY <2>3 DEF Step, Lock, Get, Insert, Delete, List, Telemetry, Answer
  <2>4. ASSUME NEW r \in Request, Arrive(r) PROVE pushed' = pushed
    BY <2>4 DEF Arrive, Register, Query, Update, PutConfig, Begin
  <2>5. CASE UNCHANGED vars BY <1>3, <2>5 DEF vars, PushBlocks
  <2>6. QED BY <1>3, <2>1, <2>2, <2>3, <2>4, <2>5 DEF Next, PushBlocks
<1>4. QED BY <1>1, <1>2, <1>3

\* From the first configuration stored to the end of the process the mutex is
\* held by the request that stored it, which waits for it: no call of the
\* backend is served (store.rs, replace_config).
THEOREM PushIsTheLast == Spec => []PushBlocks
<1>1. Init => MutexHeld /\ PushBlocks BY IdleOK DEF Init, MutexHeld, PushBlocks
<1>2. QED BY <1>1, InitTyped, Typed, MutexKept, PushKept, PTL DEF Spec
=============================================================================
