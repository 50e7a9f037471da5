------------------------- MODULE Controller_proofs --------------------------
(***************************************************************************)
(* Theorems about modules Controller, Telemetry and ControlPlane, for all  *)
(* devices, requests, streams and bodies and every capacity.               *)
(***************************************************************************)
EXTENDS ControlPlane, Telemetry, FiniteSetTheorems, SequenceTheorems, TLAPS

USE VersionAssumption, ControllerAssumption, NoneAssumption

-----------------------------------------------------------------------------
(* Typing needs to know which locals a handler has set at which point, and *)
(* how far a stream has read.                                              *)

LocalsOK(j) ==
  /\ j.pc \notin {"idle", "done"} => j.dev \in Device
  /\ j.pc \in {"replace", "send"} => j.cfg \in Config /\ j.seen \in Record
  /\ j.pc = "reinsert" => j.seen \in Record
  /\ j.pc = "alert" => j.keys # <<>>

HandlerOK == \A r \in Request : LocalsOK(job[r])

StreamOK ==
  \A s \in Stream :
    /\ stream[s].pc \in {"upgrading", "open"} => stream[s].dev \in Device
    /\ stream[s].pc \in {"idle", "upgrading"} => stream[s].chan = 0 /\ sent[s] = <<>>
    /\ stream[s].pc \in {"open", "ended"} =>
         /\ stream[s].chan \in 1 .. Len(logs)
         /\ stream[s].from <= stream[s].pos
         /\ stream[s].pos <= Len(logs[stream[s].chan])

TypeInv == TypeOK /\ HandlerOK /\ StreamOK

-----------------------------------------------------------------------------
(* The values handlers and streams are built from.                         *)

LEMMA EmptyConfigType ==
  ASSUME NEW d \in Device, NEW o \in Org, NEW n \in Name, NEW v \in Version
  PROVE  EmptyConfig(d, o, n, v) \in Config
BY DEF EmptyConfig, Config

\* update_meta keeps all of a record's configuration but the hostname.
LEMMA EditedType ==
  ASSUME NEW rec \in Record, NEW o \in Org \cup {None}, NEW n \in Name \cup {None}
  PROVE  Edited(rec, o, n) \in Record /\ SameButHost(Edited(rec, o, n).cfg, rec.cfg)
<1>1. rec.org \in Org /\ rec.cfg \in Config
  BY DEF Record
<1>2. ASSUME NEW x \in Name
      PROVE  [rec.cfg EXCEPT !.host = x] \in Config /\ SameButHost([rec.cfg EXCEPT !.host = x], rec.cfg)
  BY <1>1 DEF Config, SameButHost
<1>3. SameButHost(rec.cfg, rec.cfg)
  BY DEF SameButHost
<1> QED BY <1>1, <1>2, <1>3 DEF Edited, Record

LEMMA IdleJobType == IdleJob \in Job /\ IdleJob.pc = "idle"
BY DEF IdleJob, Job, Pc

LEMMA IdleStreamType ==
  IdleStream \in StreamTask /\ IdleStream.pc = "idle" /\ IdleStream.chan = 0
BY DEF IdleStream, StreamTask

\* A step of one handler leaves the others alone.
LEMMA JobUpdate ==
  ASSUME TypeOK, HandlerOK, NEW r \in Request, NEW j \in Job, LocalsOK(j),
         job' = [job EXCEPT ![r] = j]
  PROVE  job' \in [Request -> Job] /\ HandlerOK'
<1>1. job \in [Request -> Job]
  BY DEF TypeOK
<1>2. \A q \in Request : job'[q] = IF q = r THEN j ELSE job[q]
  BY <1>1
<1>3. \A q \in Request : LocalsOK(job'[q])
  BY <1>2 DEF HandlerOK
<1>4. HandlerOK'
  BY <1>3 DEF HandlerOK
<1> QED BY <1>1, <1>4

LEMMA AnswerEffect ==
  ASSUME TypeOK, HandlerOK, NEW r \in Request, NEW op \in ControllerOps \cup {"none"},
         NEW code \in Nat, Answer(r, op, code)
  PROVE  job' \in [Request -> Job] /\ HandlerOK'
<1> DEFINE j == [IdleJob EXCEPT !.pc = "done", !.op = op, !.status = code]
<1>1. j \in Job /\ LocalsOK(j)
  BY IdleJobType DEF Job, Pc, LocalsOK
<1>2. job' = [job EXCEPT ![r] = j]
  BY DEF Answer
<1> HIDE DEF j
<1> QED BY <1>1, <1>2, JobUpdate

\* Moving a handler on to a program point that needs no further locals.
LEMMA ProceedEffect ==
  ASSUME TypeOK, HandlerOK, NEW r \in Request, job[r].pc \notin {"idle", "done"},
         NEW pc \in Pc \ {"replace", "send", "reinsert", "alert"}, Proceed(r, pc)
  PROVE  job' \in [Request -> Job] /\ HandlerOK'
<1> DEFINE j == [job[r] EXCEPT !.pc = pc]
<1>1. job[r] \in Job /\ LocalsOK(job[r])
  BY DEF TypeOK, HandlerOK
<1>2. j \in Job
  BY <1>1 DEF Job
<1>3. j.pc = pc /\ j.dev = job[r].dev
  BY <1>1 DEF Job
<1>4. job' = [job EXCEPT ![r] = j]
  BY DEF Proceed
<1> HIDE DEF j
<1>5. LocalsOK(j)
  BY <1>1, <1>3 DEF LocalsOK
<1> QED BY <1>2, <1>4, <1>5, JobUpdate

LEMMA NewChannelEffect ==
  ASSUME TypeOK, NEW d \in Device, NewChannel(d)
  PROVE  /\ logs' \in Seq(Seq(Config))
         /\ chan' \in [Device -> 0 .. Len(logs')]
         /\ Len(logs') = Len(logs) + 1
         /\ \A ch \in 1 .. Len(logs) : logs'[ch] = logs[ch]
         /\ logs'[Len(logs) + 1] = <<>>
<1>1. logs \in Seq(Seq(Config)) /\ <<>> \in Seq(Config)
  BY DEF TypeOK
<1>2. logs' = Append(logs, <<>>)
  BY DEF NewChannel
<1>3. /\ logs' \in Seq(Seq(Config)) /\ Len(logs') = Len(logs) + 1
      /\ \A ch \in 1 .. Len(logs) : logs'[ch] = logs[ch]
      /\ logs'[Len(logs) + 1] = <<>>
  BY <1>1, <1>2
<1>4. Len(logs) \in Nat
  BY <1>1
<1>5. chan \in [Device -> 0 .. Len(logs)] /\ chan' = [chan EXCEPT ![d] = Len(logs) + 1]
  BY DEF NewChannel, TypeOK
<1>6. chan' \in [Device -> 0 .. Len(logs) + 1]
  BY <1>4, <1>5
<1> QED BY <1>3, <1>6

\* What is sent on a channel is only ever appended, so streams stay in range.
LEMMA GrowingLogs ==
  ASSUME TypeOK, StreamOK, UNCHANGED streamVars, Len(logs') >= Len(logs),
         logs' \in Seq(Seq(Config)),
         \A ch \in 1 .. Len(logs) : Len(logs'[ch]) >= Len(logs[ch])
  PROVE  StreamOK'
<1> SUFFICES ASSUME NEW s \in Stream, stream[s].pc \in {"open", "ended"}
             PROVE  /\ stream[s].chan \in 1 .. Len(logs')
                    /\ stream[s].pos <= Len(logs'[stream[s].chan])
  BY DEF StreamOK, streamVars
<1>1. stream[s].chan \in 1 .. Len(logs) /\ stream[s].pos <= Len(logs[stream[s].chan])
  BY DEF StreamOK
<1>2. stream[s].pos \in Nat /\ Len(logs) \in Nat /\ Len(logs') \in Nat
  BY DEF TypeOK, StreamTask
<1>3. stream[s].chan \in 1 .. Len(logs')
  BY <1>1, <1>2
<1>4. logs[stream[s].chan] \in Seq(Config) /\ logs'[stream[s].chan] \in Seq(Config)
  BY <1>1, <1>3 DEF TypeOK
<1>5. Len(logs[stream[s].chan]) \in Nat /\ Len(logs'[stream[s].chan]) \in Nat
  BY <1>4
<1>6. Len(logs'[stream[s].chan]) >= Len(logs[stream[s].chan])
  BY <1>1
<1> QED BY <1>1, <1>2, <1>3, <1>5, <1>6

LEMMA NewChannelStreams ==
  ASSUME TypeOK, StreamOK, UNCHANGED streamVars,
         logs' \in Seq(Seq(Config)), Len(logs') = Len(logs) + 1,
         \A ch \in 1 .. Len(logs) : logs'[ch] = logs[ch]
  PROVE  StreamOK'
<1>1. Len(logs) \in Nat /\ \A ch \in 1 .. Len(logs) : Len(logs[ch]) \in Nat
  BY DEF TypeOK
<1>2. Len(logs') >= Len(logs)
  BY <1>1
<1>3. \A ch \in 1 .. Len(logs) : Len(logs'[ch]) >= Len(logs[ch])
  BY <1>1
<1> QED BY <1>2, <1>3, GrowingLogs

\* Most steps touch neither channels nor streams.
LEMMA SameStreams ==
  ASSUME StreamOK, UNCHANGED <<logs, streamVars>>
  PROVE  StreamOK'
BY DEF StreamOK, streamVars

-----------------------------------------------------------------------------
(* Each action preserves TypeInv.                                          *)

LEMMA RegisterType ==
  ASSUME TypeInv, NEW r \in Request, NEW d \in Device, NEW o \in Org, NEW n \in Name,
         NEW v \in Registered, Register(r, d, o, n, v)
  PROVE  TypeInv'
<1> USE DEF TypeInv
<1>1. devices' \in [Device -> Record \cup {None}]
  <2>1. [org |-> o, cfg |-> EmptyConfig(d, o, n, v)] \in Record
    BY EmptyConfigType DEF Record
  <2> QED BY <2>1 DEF Register, TypeOK
<1> DEFINE j == [IdleJob EXCEPT !.pc = "channel", !.op = "register", !.dev = d]
<1>2. j \in Job /\ LocalsOK(j)
  BY IdleJobType DEF Job, Pc, LocalsOK, ControllerOps
<1>3. job' = [job EXCEPT ![r] = j]
  BY DEF Register
<1> HIDE DEF j
<1>4. job' \in [Request -> Job] /\ HandlerOK'
  BY <1>2, <1>3, JobUpdate
<1>5. StreamOK'
  BY SameStreams DEF Register
<1> QED BY <1>1, <1>4, <1>5 DEF Register, TypeOK, alertVars, streamVars

LEMMA RegisterChannelType ==
  ASSUME TypeInv, NEW r \in Request, RegisterChannel(r)
  PROVE  TypeInv'
<1> USE DEF TypeInv
<1>1. job[r].dev \in Device
  BY DEF HandlerOK, LocalsOK, RegisterChannel
<1>2. /\ logs' \in Seq(Seq(Config)) /\ chan' \in [Device -> 0 .. Len(logs')]
      /\ Len(logs') = Len(logs) + 1
      /\ \A ch \in 1 .. Len(logs) : logs'[ch] = logs[ch]
  BY <1>1, NewChannelEffect DEF RegisterChannel
<1>3. job' \in [Request -> Job] /\ HandlerOK'
  BY AnswerEffect DEF RegisterChannel, ControllerOps
<1>4. StreamOK'
  BY <1>2, NewChannelStreams DEF RegisterChannel
<1> QED BY <1>2, <1>3, <1>4 DEF RegisterChannel, TypeOK, alertVars, streamVars

LEMMA CheckConfigType ==
  ASSUME TypeInv, NEW r \in Request, NEW op \in Ops, NEW d \in Device, NEW c \in Body,
         CheckConfig(r, op, d, c)
  PROVE  TypeInv'
<1> USE DEF TypeInv
<1>1. StreamOK'
  BY SameStreams DEF CheckConfig, storeVars
<1>2. job' \in [Request -> Job] /\ HandlerOK'
  <2>1. CASE Verdict(op, devices[d], c) = 200
    <3> DEFINE j == [IdleJob EXCEPT !.pc = "replace", !.op = op, !.dev = d,
                                    !.cfg = c, !.seen = devices[d]]
    <3>1. devices[d] \in Record
      BY <2>1 DEF TypeOK, Verdict
    <3>2. j \in Job /\ LocalsOK(j)
      BY <3>1, IdleJobType DEF Job, Pc, LocalsOK
    <3>3. job' = [job EXCEPT ![r] = j]
      BY <2>1 DEF CheckConfig
    <3> HIDE DEF j
    <3> QED BY <3>2, <3>3, JobUpdate
  <2>2. CASE Verdict(op, devices[d], c) # 200
    <3>1. Verdict(op, devices[d], c) \in Nat
      BY DEF Verdict
    <3> HIDE DEF Verdict
    <3> QED BY <2>2, <3>1, AnswerEffect DEF CheckConfig
  <2> QED BY <2>1, <2>2
<1> QED BY <1>1, <1>2 DEF CheckConfig, TypeOK, storeVars, alertVars, streamVars

LEMMA ReplaceConfigType ==
  ASSUME TypeInv, NEW r \in Request, ReplaceConfig(r)
  PROVE  TypeInv'
<1> USE DEF TypeInv
<1>1. job[r] \in Job /\ LocalsOK(job[r]) /\ job[r].pc = "replace"
  BY DEF ReplaceConfig, TypeOK, HandlerOK
<1>2. job[r].dev \in Device /\ job[r].cfg \in Config /\ job[r].seen \in Record
  BY <1>1 DEF LocalsOK
<1>3. StreamOK'
  BY SameStreams DEF ReplaceConfig
<1>4. CASE Present(job[r].dev)
  <2>1. devices' \in [Device -> Record \cup {None}]
    <3>1. [devices[job[r].dev] EXCEPT !.cfg = job[r].cfg] \in Record
      BY <1>2, <1>4 DEF Present, TypeOK, Record
    <3>2. devices' = [devices EXCEPT ![job[r].dev] = [devices[job[r].dev] EXCEPT !.cfg = job[r].cfg]]
      BY <1>4 DEF ReplaceConfig
    <3> QED BY <1>2, <3>1, <3>2 DEF TypeOK
  <2> DEFINE j == [job[r] EXCEPT !.pc = "send"]
  <2>2. j \in Job /\ LocalsOK(j)
    BY <1>1, <1>2 DEF Job, Pc, LocalsOK
  <2>3. job' = [job EXCEPT ![r] = j]
    BY <1>4 DEF ReplaceConfig, Proceed
  <2> HIDE DEF j
  <2>4. job' \in [Request -> Job] /\ HandlerOK'
    BY <2>2, <2>3, JobUpdate
  <2> QED BY <1>3, <2>1, <2>4 DEF ReplaceConfig, TypeOK, alertVars, streamVars
<1>5. CASE ~ Present(job[r].dev)
  <2>1. job[r].op \in ControllerOps \cup {"none"} /\ Answer(r, job[r].op, 404)
    BY <1>1, <1>5 DEF ReplaceConfig, Job
  <2>2. job' \in [Request -> Job] /\ HandlerOK'
    BY <2>1, AnswerEffect
  <2> QED BY <1>3, <1>5, <2>2 DEF ReplaceConfig, TypeOK, alertVars, streamVars
<1> QED BY <1>4, <1>5

LEMMA SendConfigType ==
  ASSUME TypeInv, NEW r \in Request, SendConfig(r)
  PROVE  TypeInv'
<1> USE DEF TypeInv
<1>1. job[r] \in Job /\ job[r].cfg \in Config
  BY DEF SendConfig, TypeOK, HandlerOK, LocalsOK
<1>2. job' \in [Request -> Job] /\ HandlerOK'
  BY <1>1, AnswerEffect DEF SendConfig, Job
<1> DEFINE ch == chan[job[r].cfg.dev]
<1>3. ch \in 0 .. Len(logs) /\ Len(logs) \in Nat
  BY <1>1 DEF TypeOK, Config
<1>4. /\ logs' \in Seq(Seq(Config)) /\ Len(logs') = Len(logs)
      /\ \A n \in 1 .. Len(logs) : Len(logs'[n]) >= Len(logs[n])
  <2>1. CASE ch = 0
    <3>1. UNCHANGED logs
      BY <2>1 DEF SendConfig
    <3>2. \A n \in 1 .. Len(logs) : Len(logs[n]) \in Nat
      BY DEF TypeOK
    <3> QED BY <3>1, <3>2 DEF TypeOK
  <2>2. CASE ch # 0
    <3> DEFINE log == Append(logs[ch], job[r].cfg)
    <3>1. ch \in 1 .. Len(logs)
      BY <1>3, <2>2
    <3>2. logs[ch] \in Seq(Config)
      BY <3>1 DEF TypeOK
    <3>3. log \in Seq(Config) /\ Len(log) = Len(logs[ch]) + 1 /\ Len(logs[ch]) \in Nat
      BY <1>1, <3>2
    <3>4. logs' = [logs EXCEPT ![ch] = log]
      BY <2>2 DEF SendConfig
    <3> HIDE DEF log, ch
    <3>5. logs' \in Seq(Seq(Config)) /\ Len(logs') = Len(logs)
      BY <3>1, <3>3, <3>4 DEF TypeOK
    <3>6. \A n \in 1 .. Len(logs) : logs'[n] = IF n = ch THEN log ELSE logs[n]
      BY <3>1, <3>4 DEF TypeOK
    <3>7. \A n \in 1 .. Len(logs) : Len(logs[n]) \in Nat
      BY DEF TypeOK
    <3>8. ASSUME NEW n \in 1 .. Len(logs)
          PROVE  Len(logs'[n]) >= Len(logs[n])
      <4>1. CASE n = ch
        <5>1. logs'[n] = log /\ logs[n] = logs[ch]
          BY <3>6, <4>1
        <5>2. Len(log) >= Len(logs[ch])
          BY <3>3
        <5> QED BY ONLY <5>1, <5>2
      <4>2. CASE n # ch
        <5>1. logs'[n] = logs[n] /\ Len(logs[n]) \in Nat
          BY <3>6, <3>7, <4>2
        <5> QED BY ONLY <5>1
      <4> QED BY <4>1, <4>2
    <3> QED BY <3>5, <3>8
  <2> QED BY <2>1, <2>2
<1>5. StreamOK'
  BY <1>3, <1>4, GrowingLogs DEF SendConfig
<1> QED BY <1>2, <1>4, <1>5 DEF SendConfig, TypeOK, alertVars, streamVars

LEMMA UpdateMetaType ==
  ASSUME TypeInv, NEW r \in Request, NEW d \in Device, NEW o \in Org \cup {None},
         NEW n \in Name \cup {None}, UpdateMeta(r, d, o, n)
  PROVE  TypeInv'
<1> USE DEF TypeInv
<1>1. StreamOK'
  BY SameStreams DEF UpdateMeta, storeVars
<1>2. job' \in [Request -> Job] /\ HandlerOK'
  <2>1. CASE Present(d)
    <3> DEFINE rec == Edited(devices[d], o, n)
               j == [IdleJob EXCEPT !.pc = "reinsert", !.op = "meta", !.dev = d, !.seen = rec]
    <3>1. devices[d] \in Record
      BY <2>1 DEF Present, TypeOK
    <3>2. rec \in Record
      BY <3>1, EditedType
    <3>3. job' = [job EXCEPT ![r] = j]
      BY <2>1 DEF UpdateMeta
    <3> HIDE DEF rec
    <3>4. j \in Job /\ LocalsOK(j)
      BY <3>2, IdleJobType DEF Job, Pc, LocalsOK, ControllerOps
    <3> HIDE DEF j
    <3> QED BY <3>3, <3>4, JobUpdate
  <2>2. CASE ~ Present(d)
    BY <2>2, AnswerEffect DEF UpdateMeta, ControllerOps
  <2> QED BY <2>1, <2>2
<1> QED BY <1>1, <1>2 DEF UpdateMeta, TypeOK, storeVars, alertVars, streamVars

LEMMA ReinsertType ==
  ASSUME TypeInv, NEW r \in Request, Reinsert(r)
  PROVE  TypeInv'
<1> USE DEF TypeInv
<1>1. job[r].seen \in Record
  BY DEF Reinsert, HandlerOK, LocalsOK
<1>2. devices' \in [Device -> Record \cup {None}]
  BY <1>1 DEF Reinsert, TypeOK
<1>3. job' \in [Request -> Job] /\ HandlerOK'
  BY AnswerEffect DEF Reinsert, ControllerOps
<1>4. StreamOK'
  BY SameStreams DEF Reinsert
<1> QED BY <1>2, <1>3, <1>4 DEF Reinsert, TypeOK, alertVars, streamVars

LEMMA DeleteType ==
  ASSUME TypeInv, NEW r \in Request, NEW d \in Device, Delete(r, d)
  PROVE  TypeInv'
<1> USE DEF TypeInv
<1>1. StreamOK'
  BY SameStreams DEF Delete, storeVars
<1>2. job' \in [Request -> Job] /\ HandlerOK'
  <2>1. CASE Present(d)
    <3> DEFINE j == [IdleJob EXCEPT !.pc = "remove", !.op = "delete", !.dev = d]
    <3>1. j \in Job /\ LocalsOK(j)
      BY IdleJobType DEF Job, Pc, LocalsOK, ControllerOps
    <3>2. job' = [job EXCEPT ![r] = j]
      BY <2>1 DEF Delete
    <3> HIDE DEF j
    <3> QED BY <3>1, <3>2, JobUpdate
  <2>2. CASE ~ Present(d)
    BY <2>2, AnswerEffect DEF Delete, ControllerOps
  <2> QED BY <2>1, <2>2
<1> QED BY <1>1, <1>2 DEF Delete, TypeOK, storeVars, alertVars, streamVars

LEMMA RemoveDeviceType ==
  ASSUME TypeInv, NEW r \in Request, RemoveDevice(r)
  PROVE  TypeInv'
<1> USE DEF TypeInv
<1>1. StreamOK'
  BY SameStreams DEF RemoveDevice
<1>2. job' \in [Request -> Job] /\ HandlerOK'
  <2>1. CASE Present(job[r].dev)
    BY <2>1, ProceedEffect DEF RemoveDevice, Pc
  <2>2. CASE ~ Present(job[r].dev)
    BY <2>2, AnswerEffect DEF RemoveDevice, ControllerOps
  <2> QED BY <2>1, <2>2
<1>3. devices' \in [Device -> Record \cup {None}]
  BY DEF RemoveDevice, TypeOK
<1> QED BY <1>1, <1>2, <1>3 DEF RemoveDevice, TypeOK, alertVars, streamVars

LEMMA DropType ==
  ASSUME TypeInv, NEW r \in Request, DropChannel(r) \/ DropTelemetry(r) \/ DropFlags(r)
  PROVE  TypeInv'
<1> USE DEF TypeInv
<1>1. StreamOK'
  BY SameStreams DEF DropChannel, DropTelemetry, DropFlags, storeVars
<1>2. job' \in [Request -> Job] /\ HandlerOK'
  <2>1. CASE DropChannel(r)
    BY <2>1, ProceedEffect DEF DropChannel, Pc
  <2>2. CASE DropTelemetry(r)
    BY <2>2, ProceedEffect DEF DropTelemetry, Pc
  <2>3. CASE DropFlags(r)
    BY <2>3, AnswerEffect DEF DropFlags, ControllerOps
  <2> QED BY <2>1, <2>2, <2>3
<1>3. CASE DropChannel(r)
  <2>1. Len(logs) \in Nat
    BY DEF TypeOK
  <2>2. chan \in [Device -> 0 .. Len(logs)] /\ 0 \in 0 .. Len(logs)
    BY <2>1 DEF TypeOK
  <2>3. chan' \in [Device -> 0 .. Len(logs)]
    BY <1>3, <2>2 DEF DropChannel
  <2> QED BY <1>1, <1>2, <1>3, <2>3 DEF DropChannel, TypeOK, alertVars, streamVars
<1>4. CASE DropTelemetry(r)
  BY <1>1, <1>2, <1>4 DEF DropTelemetry, TypeOK, storeVars, streamVars
<1>5. CASE DropFlags(r)
  BY <1>1, <1>2, <1>5 DEF DropFlags, TypeOK, storeVars, streamVars
<1> QED BY <1>3, <1>4, <1>5

LEMMA PostTelemetryType ==
  ASSUME TypeInv, NEW r \in Request, NEW d \in Device, NEW o \in Org, NEW ks \in Frame,
         PostTelemetry(r, d, o, ks)
  PROVE  TypeInv'
<1> USE DEF TypeInv
<1>1. StreamOK'
  BY SameStreams DEF PostTelemetry, storeVars
<1> DEFINE j == [IdleJob EXCEPT !.pc = "frame", !.op = "telemetry", !.dev = d, !.keys = ks]
<1>2. j \in Job /\ LocalsOK(j)
  BY IdleJobType DEF Job, Pc, LocalsOK, ControllerOps
<1>3. \/ job' = [job EXCEPT ![r] = j]
      \/ Answer(r, "telemetry", 404) \/ Answer(r, "telemetry", 403)
  BY DEF PostTelemetry
<1> HIDE DEF j
<1>4. job' \in [Request -> Job] /\ HandlerOK'
  <2>1. CASE job' = [job EXCEPT ![r] = j]
    BY <1>2, <2>1, JobUpdate
  <2>2. CASE Answer(r, "telemetry", 404) \/ Answer(r, "telemetry", 403)
    BY <2>2, AnswerEffect DEF ControllerOps
  <2> QED BY <1>3, <2>1, <2>2
<1> QED BY <1>1, <1>4 DEF PostTelemetry, TypeOK, storeVars, alertVars, streamVars

LEMMA InsertTelemetryType ==
  ASSUME TypeInv, NEW r \in Request, InsertTelemetry(r)
  PROVE  TypeInv'
<1> USE DEF TypeInv
<1>1. StreamOK'
  BY SameStreams DEF InsertTelemetry, storeVars
<1>2. job' \in [Request -> Job] /\ HandlerOK'
  BY ProceedEffect DEF InsertTelemetry, Pc
<1>3. job[r].keys \in Seq(Key)
  BY DEF TypeOK, Job
<1>4. telemetry' \in [Device -> Seq(Key) \cup {None}]
  BY <1>3 DEF InsertTelemetry, TypeOK
<1> QED BY <1>1, <1>2, <1>4 DEF InsertTelemetry, TypeOK, storeVars, streamVars

LEMMA NewAlertFlagsType ==
  ASSUME TypeInv, NEW r \in Request, NewAlertFlags(r)
  PROVE  TypeInv'
<1> USE DEF TypeInv
<1>1. StreamOK'
  BY SameStreams DEF NewAlertFlags, storeVars
<1>2. job[r] \in Job /\ LocalsOK(job[r]) /\ job[r].pc = "flags"
  BY DEF NewAlertFlags, TypeOK, HandlerOK
<1>3. job[r].dev \in Device /\ job[r].keys \in Seq(Key)
  BY <1>2 DEF LocalsOK, Job
<1>4. Keys(job[r].keys) \in SUBSET Key
  BY <1>3 DEF Keys
<1>5. flags' \in [Device -> (SUBSET Key) \cup {None}]
  BY <1>4 DEF NewAlertFlags, TypeOK
<1>6. job' \in [Request -> Job] /\ HandlerOK'
  <2>1. CASE job[r].keys = <<>>
    BY <2>1, AnswerEffect DEF NewAlertFlags, ControllerOps
  <2>2. CASE job[r].keys # <<>>
    <3> DEFINE j == [job[r] EXCEPT !.pc = "alert", !.prev = Alerted(job[r].dev)]
    <3>1. Alerted(job[r].dev) \in SUBSET Key
      BY <1>3 DEF Alerted, TypeOK
    <3>2. j \in Job /\ j.pc = "alert" /\ j.dev = job[r].dev /\ j.keys = job[r].keys
      BY <1>2, <3>1 DEF Job, Pc
    <3>3. job' = [job EXCEPT ![r] = j]
      BY <2>2 DEF NewAlertFlags
    <3> HIDE DEF j
    <3>4. LocalsOK(j)
      BY <1>3, <2>2, <3>2 DEF LocalsOK
    <3> QED BY <3>2, <3>3, <3>4, JobUpdate
  <2> QED BY <2>1, <2>2
<1> QED BY <1>1, <1>5, <1>6 DEF NewAlertFlags, TypeOK, storeVars, streamVars

\* What push_alert does to a ring of consecutive ids.
LEMMA PushedRing ==
  ASSUME NEW ring \in Seq(Alert), NEW d \in Device, NEW k \in Key
  PROVE  /\ Pushed(ring, d, k) \in Seq(Alert)
         /\ (/\ Len(ring) <= AlertCap
             /\ \A i \in 1 .. Len(ring) - 1 : ring[i + 1].id = ring[i].id + 1)
            => /\ Len(Pushed(ring, d, k)) <= AlertCap
               /\ \A i \in 1 .. Len(Pushed(ring, d, k)) - 1 :
                    Pushed(ring, d, k)[i + 1].id = Pushed(ring, d, k)[i].id + 1
<1> DEFINE id  == IF ring = <<>> THEN 1 ELSE ring[Len(ring)].id + 1
           new == [id |-> id, dev |-> d, key |-> k]
           all == Append(ring, new)
           n   == Len(all)
           cut == SubSeq(all, n - AlertCap + 1, n)
<1>1. id \in Nat
  <2>1. CASE ring = <<>>
    BY <2>1
  <2>2. CASE ring # <<>>
    <3>1. ring[Len(ring)] \in Alert
      BY <2>2
    <3> QED BY <2>2, <3>1 DEF Alert
  <2> QED BY <2>1, <2>2
<1>2. new \in Alert /\ new.id = id
  BY <1>1 DEF Alert
<1> HIDE DEF id, new
<1>3. all \in Seq(Alert) /\ n = Len(ring) + 1 /\ Len(ring) \in Nat
  BY <1>2
<1>4. all[n] = new /\ \A i \in 1 .. Len(ring) : all[i] = ring[i]
  BY <1>2
<1>5. Pushed(ring, d, k) = IF n > AlertCap THEN cut ELSE all
  BY DEF Pushed, id, new
<1> HIDE DEF all, n
<1>6. AlertCap \in Nat /\ n \in Nat
  BY <1>3
<1>7. ASSUME n > AlertCap
      PROVE  /\ cut \in Seq(Alert) /\ Len(cut) = AlertCap
             /\ \A i \in 1 .. AlertCap : cut[i] = all[i + (n - AlertCap)]
  <2>1. \A i \in n - AlertCap + 1 .. n : all[i] \in Alert
    BY <1>3, <1>6, <1>7 DEF n
  <2>2. n - AlertCap + 1 \in Int /\ n \in Int
    BY <1>6
  <2>3. /\ cut \in Seq(Alert)
        /\ Len(cut) = IF n - AlertCap + 1 <= n THEN n - (n - AlertCap + 1) + 1 ELSE 0
        /\ \A i \in 1 .. n - (n - AlertCap + 1) + 1 : cut[i] = all[(n - AlertCap + 1) + i - 1]
    BY <2>1, <2>2, SubSeqProperties
  <2> QED BY <1>6, <1>7, <2>3
<1> HIDE DEF cut
<1>8. Pushed(ring, d, k) \in Seq(Alert)
  BY <1>3, <1>5, <1>7
<1>9. ASSUME Len(ring) <= AlertCap,
             \A i \in 1 .. Len(ring) - 1 : ring[i + 1].id = ring[i].id + 1
      PROVE  /\ Len(Pushed(ring, d, k)) <= AlertCap
             /\ \A i \in 1 .. Len(Pushed(ring, d, k)) - 1 :
                  Pushed(ring, d, k)[i + 1].id = Pushed(ring, d, k)[i].id + 1
  <2>1. \A i \in 1 .. n - 1 : all[i + 1].id = all[i].id + 1
    <3> TAKE i \in 1 .. n - 1
    <3>1. CASE i = Len(ring)
      <4>1. ring # <<>> /\ i + 1 = n /\ all[i] = ring[Len(ring)]
        BY <1>3, <1>4, <3>1
      <4>2. id = ring[Len(ring)].id + 1
        BY <4>1 DEF id
      <4> QED BY <1>2, <1>4, <4>1, <4>2
    <3>2. CASE i # Len(ring)
      <4>1. i \in 1 .. Len(ring) - 1 /\ i + 1 \in 1 .. Len(ring) /\ i \in 1 .. Len(ring)
        BY <1>3, <3>2
      <4> QED BY <1>4, <1>9, <4>1
    <3> QED BY <3>1, <3>2
  <2>2. CASE n > AlertCap
    <3>1. Pushed(ring, d, k) = cut
      BY <1>5, <2>2
    <3>2. ASSUME NEW i \in 1 .. AlertCap - 1
          PROVE  cut[i + 1].id = cut[i].id + 1
      <4>1. i \in 1 .. AlertCap /\ i + 1 \in 1 .. AlertCap
        BY <1>6
      <4>2. i + (n - AlertCap) \in 1 .. n - 1
            /\ (i + 1) + (n - AlertCap) = (i + (n - AlertCap)) + 1
        BY <1>6, <2>2
      <4>3. cut[i] = all[i + (n - AlertCap)] /\ cut[i + 1] = all[(i + (n - AlertCap)) + 1]
        BY <1>7, <2>2, <4>1, <4>2
      <4> QED BY <2>1, <4>2, <4>3
    <3> QED BY <1>6, <1>7, <2>2, <3>1, <3>2
  <2>3. CASE ~ (n > AlertCap)
    <3>1. Pushed(ring, d, k) = all /\ Len(all) = n /\ n <= AlertCap
      BY <1>5, <1>6, <2>3 DEF n
    <3> QED BY <2>1, <3>1
  <2> QED BY <2>2, <2>3
<1> QED BY <1>8, <1>9

LEMMA PushAlertType ==
  ASSUME TypeInv, NEW r \in Request, PushAlert(r)
  PROVE  TypeInv'
<1> USE DEF TypeInv
<1>1. StreamOK'
  BY SameStreams DEF PushAlert, storeVars
<1>2. job[r] \in Job /\ LocalsOK(job[r]) /\ job[r].pc = "alert"
  BY DEF PushAlert, TypeOK, HandlerOK
<1>3. job[r].dev \in Device /\ job[r].keys \in Seq(Key) /\ job[r].keys # <<>>
  BY <1>2 DEF LocalsOK, Job
<1>4. Head(job[r].keys) \in Key /\ Tail(job[r].keys) \in Seq(Key)
  BY <1>3
<1>5. alerts' \in Seq(Alert)
  BY <1>3, <1>4, PushedRing DEF PushAlert, TypeOK
<1>6. job' \in [Request -> Job] /\ HandlerOK'
  <2>1. CASE Tail(job[r].keys) = <<>>
    BY <2>1, AnswerEffect DEF PushAlert, ControllerOps
  <2>2. CASE Tail(job[r].keys) # <<>>
    <3> DEFINE j == [job[r] EXCEPT !.keys = Tail(job[r].keys)]
    <3>1. j \in Job /\ j.pc = "alert" /\ j.dev = job[r].dev /\ j.keys = Tail(job[r].keys)
      BY <1>2, <1>4 DEF Job
    <3>2. job' = [job EXCEPT ![r] = j]
      BY <2>2 DEF PushAlert
    <3> HIDE DEF j
    <3>3. LocalsOK(j)
      BY <1>3, <2>2, <3>1 DEF LocalsOK
    <3> QED BY <3>1, <3>2, <3>3, JobUpdate
  <2> QED BY <2>1, <2>2
<1> QED BY <1>1, <1>5, <1>6 DEF PushAlert, TypeOK, storeVars, streamVars

\* A stream's own step, the others unchanged.
LEMMA StreamUpdate ==
  ASSUME TypeOK, StreamOK, NEW s \in Stream, NEW t \in StreamTask, NEW out \in Seq(Config),
         stream' = [stream EXCEPT ![s] = t], sent' = [sent EXCEPT ![s] = out],
         Len(logs') \in Nat, Len(logs') >= Len(logs),
         \A ch \in 1 .. Len(logs) : logs'[ch] = logs[ch],
         t.pc \in {"upgrading", "open"} => t.dev \in Device,
         t.pc \in {"idle", "upgrading"} => t.chan = 0 /\ out = <<>>,
         t.pc \in {"open", "ended"} =>
           t.chan \in 1 .. Len(logs') /\ t.from <= t.pos /\ t.pos <= Len(logs'[t.chan])
  PROVE  stream' \in [Stream -> StreamTask] /\ sent' \in [Stream -> Seq(Config)] /\ StreamOK'
<1>1. stream \in [Stream -> StreamTask] /\ sent \in [Stream -> Seq(Config)] /\ Len(logs) \in Nat
  BY DEF TypeOK
<1>2. \A q \in Stream : /\ stream'[q] = IF q = s THEN t ELSE stream[q]
                        /\ sent'[q] = IF q = s THEN out ELSE sent[q]
  BY <1>1
<1>3. ASSUME NEW q \in Stream
      PROVE  /\ stream'[q].pc \in {"upgrading", "open"} => stream'[q].dev \in Device
             /\ stream'[q].pc \in {"idle", "upgrading"} => stream'[q].chan = 0 /\ sent'[q] = <<>>
             /\ stream'[q].pc \in {"open", "ended"} =>
                  /\ stream'[q].chan \in 1 .. Len(logs')
                  /\ stream'[q].from <= stream'[q].pos
                  /\ stream'[q].pos <= Len(logs'[stream'[q].chan])
  <2>1. CASE q = s
    BY <1>2, <2>1
  <2>2. CASE q # s
    BY <1>1, <1>2, <2>2 DEF StreamOK
  <2> QED BY <2>1, <2>2
<1>4. StreamOK'
  BY <1>3 DEF StreamOK
<1> QED BY <1>1, <1>4

LEMMA OpenStreamType ==
  ASSUME TypeInv, NEW s \in Stream, NEW d \in Device, OpenStream(s, d)
  PROVE  TypeInv'
<1> USE DEF TypeInv
<1> DEFINE t == [IdleStream EXCEPT !.pc = "upgrading", !.dev = d]
<1>1. t \in StreamTask /\ t.pc = "upgrading" /\ t.dev = d /\ t.chan = 0
  BY IdleStreamType DEF StreamTask
<1>2. stream' = [stream EXCEPT ![s] = t] /\ UNCHANGED <<logs, sent>>
  BY DEF OpenStream, storeVars
<1>3. sent[s] = <<>> /\ sent' = [sent EXCEPT ![s] = <<>>] /\ <<>> \in Seq(Config)
  BY <1>2 DEF OpenStream, StreamOK, TypeOK
<1>4. /\ Len(logs') \in Nat /\ Len(logs') >= Len(logs)
      /\ \A ch \in 1 .. Len(logs) : logs'[ch] = logs[ch]
  BY <1>2 DEF TypeOK
<1> HIDE DEF t
<1>5. stream' \in [Stream -> StreamTask] /\ sent' \in [Stream -> Seq(Config)] /\ StreamOK'
  BY <1>1, <1>2, <1>3, <1>4, StreamUpdate
<1>6. HandlerOK'
  BY DEF OpenStream, HandlerOK
<1> QED BY <1>5, <1>6 DEF OpenStream, TypeOK, storeVars, alertVars

LEMMA SubscribeType ==
  ASSUME TypeInv, NEW s \in Stream, Subscribe(s)
  PROVE  TypeInv'
<1> USE DEF TypeInv
<1> DEFINE d == stream[s].dev
           t(ch, n) == [stream[s] EXCEPT !.pc = "open", !.chan = ch, !.from = n, !.pos = n]
<1>1. d \in Device /\ stream[s] \in StreamTask /\ stream[s].pc = "upgrading" /\ sent[s] = <<>>
  BY DEF Subscribe, StreamOK, TypeOK
<1>2. ASSUME NEW ch \in Nat, NEW n \in Nat
      PROVE  /\ t(ch, n) \in StreamTask /\ t(ch, n).pc = "open" /\ t(ch, n).dev \in Device
             /\ t(ch, n).chan = ch /\ t(ch, n).from = n /\ t(ch, n).pos = n
  BY <1>1 DEF StreamTask
<1>3. sent' = [sent EXCEPT ![s] = sent[s]] /\ sent[s] \in Seq(Config)
  BY DEF Subscribe, TypeOK
<1>4. HandlerOK' /\ Len(logs) \in Nat /\ logs \in Seq(Seq(Config))
  BY DEF Subscribe, HandlerOK, TypeOK
<1>5. CASE chan[d] = 0
  <2>1. NewChannel(d) /\ stream' = [stream EXCEPT ![s] = t(Len(logs) + 1, 0)]
    BY <1>5 DEF Subscribe
  <2>2. /\ logs' \in Seq(Seq(Config)) /\ chan' \in [Device -> 0 .. Len(logs')]
        /\ Len(logs') = Len(logs) + 1
        /\ \A ch \in 1 .. Len(logs) : logs'[ch] = logs[ch]
        /\ logs'[Len(logs) + 1] = <<>>
    BY <1>1, <2>1, NewChannelEffect
  <2>3. /\ Len(logs) + 1 \in Nat /\ Len(logs') \in Nat /\ Len(logs') >= Len(logs)
        /\ Len(logs) + 1 \in 1 .. Len(logs') /\ 0 <= Len(logs'[Len(logs) + 1])
    BY <1>4, <2>2
  <2>4. /\ t(Len(logs) + 1, 0) \in StreamTask /\ t(Len(logs) + 1, 0).pc = "open"
        /\ t(Len(logs) + 1, 0).dev \in Device /\ t(Len(logs) + 1, 0).chan = Len(logs) + 1
        /\ t(Len(logs) + 1, 0).from = 0 /\ t(Len(logs) + 1, 0).pos = 0
    BY <1>2, <2>3
  <2> HIDE DEF t
  <2>5. stream' \in [Stream -> StreamTask] /\ sent' \in [Stream -> Seq(Config)] /\ StreamOK'
    BY <1>3, <2>1, <2>2, <2>3, <2>4, StreamUpdate
  <2> QED BY <1>4, <2>2, <2>5 DEF Subscribe, TypeOK, alertVars
<1>6. CASE chan[d] # 0
  <2> DEFINE n == Len(logs[chan[d]])
  <2>1. stream' = [stream EXCEPT ![s] = t(chan[d], n)] /\ UNCHANGED <<chan, logs>>
    BY <1>6 DEF Subscribe
  <2>2. chan[d] \in 1 .. Len(logs) /\ chan[d] \in Nat
    BY <1>1, <1>4, <1>6 DEF TypeOK
  <2>3. logs[chan[d]] \in Seq(Config)
    BY <1>4, <2>2
  <2>4. n \in Nat
    BY <2>3
  <2> DEFINE u == t(chan[d], n)
  <2> HIDE DEF n, t
  <2>5. /\ u \in StreamTask /\ u.pc = "open" /\ u.dev \in Device
        /\ u.chan = chan[d] /\ u.from = n /\ u.pos = n
        /\ stream' = [stream EXCEPT ![s] = u]
    BY <1>2, <2>1, <2>2, <2>4
  <2> HIDE DEF u
  <2>6. /\ Len(logs') \in Nat /\ Len(logs') >= Len(logs) /\ n <= Len(logs'[chan[d]])
        /\ \A ch \in 1 .. Len(logs) : logs'[ch] = logs[ch]
        /\ chan[d] \in 1 .. Len(logs') /\ n <= n
    BY <1>4, <2>1, <2>2, <2>4 DEF n
  <2>7. stream' \in [Stream -> StreamTask] /\ sent' \in [Stream -> Seq(Config)] /\ StreamOK'
    BY <1>3, <2>5, <2>6, StreamUpdate
  <2> QED BY <1>4, <2>1, <2>7 DEF Subscribe, TypeOK, alertVars
<1> QED BY <1>5, <1>6

LEMMA ForwardType ==
  ASSUME TypeInv, NEW s \in Stream, Forward(s)
  PROVE  TypeInv'
<1> USE DEF TypeInv
<1> DEFINE log == logs[stream[s].chan]
           t   == [stream[s] EXCEPT !.pos = stream[s].pos + 1]
           out == Append(sent[s], log[stream[s].pos + 1])
<1>1. /\ stream[s] \in StreamTask /\ stream[s].pc = "open" /\ stream[s].dev \in Device
      /\ stream[s].pos \in Nat /\ stream[s].from \in Nat /\ stream[s].from <= stream[s].pos
      /\ stream[s].chan \in 1 .. Len(logs) /\ stream[s].pos <= Len(log)
  BY DEF Forward, StreamOK, TypeOK, StreamTask
<1>2. log \in Seq(Config) /\ Len(log) \in Nat /\ sent[s] \in Seq(Config)
  BY <1>1 DEF TypeOK
<1>3. stream[s].pos + 1 \in 1 .. Len(log)
  <2>1. Len(log) - stream[s].pos > 0
    BY DEF Forward, Backlog
  <2> QED BY <1>1, <1>2, <2>1
<1>4. out \in Seq(Config)
  BY <1>2, <1>3
<1>5. /\ t \in StreamTask /\ t.pc = "open" /\ t.dev = stream[s].dev /\ t.chan = stream[s].chan
      /\ t.from = stream[s].from /\ t.pos = stream[s].pos + 1
  <2>1. \A x \in StreamTask, n \in Nat :
          LET y == [x EXCEPT !.pos = n]
          IN  /\ y \in StreamTask /\ y.pc = x.pc /\ y.dev = x.dev
              /\ y.chan = x.chan /\ y.from = x.from /\ y.pos = n
    BY DEF StreamTask
  <2>2. stream[s] \in StreamTask /\ stream[s].pc = "open" /\ stream[s].pos + 1 \in Nat
    BY <1>1
  <2> QED BY ONLY <2>1, <2>2
<1>6. stream' = [stream EXCEPT ![s] = t] /\ sent' = [sent EXCEPT ![s] = out]
  BY DEF Forward
<1>7. UNCHANGED logs /\ HandlerOK'
  BY DEF Forward, storeVars, HandlerOK
<1>8. /\ Len(logs') \in Nat /\ Len(logs') >= Len(logs)
      /\ \A ch \in 1 .. Len(logs) : logs'[ch] = logs[ch]
  BY <1>7 DEF TypeOK
<1>9. t.from <= t.pos /\ t.pos <= Len(logs'[t.chan]) /\ t.chan \in 1 .. Len(logs')
  BY <1>1, <1>2, <1>3, <1>5, <1>7
<1> HIDE DEF t, out
<1>10. stream' \in [Stream -> StreamTask] /\ sent' \in [Stream -> Seq(Config)] /\ StreamOK'
  BY <1>1, <1>4, <1>5, <1>6, <1>8, <1>9, StreamUpdate
<1> QED BY <1>7, <1>10 DEF Forward, TypeOK, storeVars, alertVars

LEMMA StreamExitType ==
  ASSUME TypeInv, NEW s \in Stream, EndStream(s) \/ ClientLeaves(s)
  PROVE  TypeInv'
<1> USE DEF TypeInv
<1>1. stream[s] \in StreamTask /\ sent[s] \in Seq(Config)
  BY DEF TypeOK
<1>2. PICK t \in StreamTask :
        /\ stream' = [stream EXCEPT ![s] = t]
        /\ t.dev = stream[s].dev /\ t.chan = stream[s].chan
        /\ t.from = stream[s].from /\ t.pos = stream[s].pos
        /\ t.pc = stream[s].pc \/ (stream[s].pc = "open" /\ t.pc = "ended")
  <2>1. CASE EndStream(s)
    <3> DEFINE t == [stream[s] EXCEPT !.pc = "ended"]
    <3>1. t \in StreamTask
      BY <1>1 DEF StreamTask
    <3>2. /\ t.dev = stream[s].dev /\ t.chan = stream[s].chan
          /\ t.from = stream[s].from /\ t.pos = stream[s].pos /\ t.pc = "ended"
      BY <1>1 DEF StreamTask
    <3>3. stream' = [stream EXCEPT ![s] = t] /\ stream[s].pc = "open"
      BY <2>1 DEF EndStream
    <3> QED BY <3>1, <3>2, <3>3
  <2>2. CASE ClientLeaves(s)
    <3> DEFINE t == [stream[s] EXCEPT !.gone = TRUE]
    <3>1. t \in StreamTask
      BY <1>1 DEF StreamTask
    <3>2. /\ t.dev = stream[s].dev /\ t.chan = stream[s].chan
          /\ t.from = stream[s].from /\ t.pos = stream[s].pos /\ t.pc = stream[s].pc
      BY <1>1 DEF StreamTask
    <3>3. stream' = [stream EXCEPT ![s] = t]
      BY <2>2 DEF ClientLeaves
    <3> QED BY <3>1, <3>2, <3>3
  <2> QED BY <2>1, <2>2
<1>3. UNCHANGED <<storeVars, alertVars, job, sent>>
  BY DEF EndStream, ClientLeaves
<1>4. sent' = [sent EXCEPT ![s] = sent[s]]
  BY <1>3 DEF TypeOK
<1>5. /\ Len(logs') \in Nat /\ Len(logs') >= Len(logs) /\ logs' = logs
      /\ \A ch \in 1 .. Len(logs) : logs'[ch] = logs[ch]
  BY <1>3 DEF TypeOK, storeVars
<1>6. /\ t.pc \in {"upgrading", "open"} => t.dev \in Device
      /\ t.pc \in {"idle", "upgrading"} => t.chan = 0 /\ sent[s] = <<>>
      /\ t.pc \in {"open", "ended"} =>
           t.chan \in 1 .. Len(logs') /\ t.from <= t.pos /\ t.pos <= Len(logs'[t.chan])
  BY <1>2, <1>5 DEF StreamOK
<1>7. stream' \in [Stream -> StreamTask] /\ sent' \in [Stream -> Seq(Config)] /\ StreamOK'
  BY <1>1, <1>2, <1>4, <1>5, <1>6, StreamUpdate
<1>8. HandlerOK'
  BY <1>3 DEF HandlerOK
<1> QED BY <1>3, <1>7, <1>8 DEF TypeOK, storeVars, alertVars

-----------------------------------------------------------------------------
(* The theorems.                                                           *)

LEMMA TypeInit == Init => TypeInv
<1> SUFFICES ASSUME Init PROVE TypeInv
  OBVIOUS
<1>1. <<>> \in Seq(Seq(Config)) /\ Len(<<>>) = 0 /\ <<>> \in Seq(Alert) /\ <<>> \in Seq(Config)
  OBVIOUS
<1>2. TypeOK
  BY <1>1, IdleJobType, IdleStreamType DEF Init, TypeOK
<1>3. HandlerOK
  BY IdleJobType DEF Init, HandlerOK, LocalsOK
<1>4. StreamOK
  BY IdleStreamType DEF Init, StreamOK
<1> QED BY <1>2, <1>3, <1>4 DEF TypeInv

\* Every step of a request's handler keeps the state well typed ...
LEMMA HandlerTypeStep ==
  ASSUME TypeInv, NEW r \in Request, Arrive(r) \/ Continue(r)
  PROVE  TypeInv'
<1>1. CASE Arrive(r)
  BY <1>1, RegisterType, CheckConfigType, UpdateMetaType, DeleteType, PostTelemetryType
     DEF Arrive
<1>2. CASE Continue(r)
  BY <1>2, RegisterChannelType, ReplaceConfigType, SendConfigType, ReinsertType,
     RemoveDeviceType, DropType, InsertTelemetryType, NewAlertFlagsType, PushAlertType
     DEF Continue
<1> QED BY <1>1, <1>2

\* ... and so does every step of a stream and every stuttering step.
LEMMA TypeStep == TypeInv /\ [Next]_vars => TypeInv'
<1> SUFFICES ASSUME TypeInv, [Next]_vars PROVE TypeInv'
  OBVIOUS
<1>1. CASE \E r \in Request : Arrive(r) \/ Continue(r)
  BY <1>1, HandlerTypeStep
<1>2. CASE \E s \in Stream : StreamStep(s) \/ ClientLeaves(s) \/ \E d \in Device : OpenStream(s, d)
  BY <1>2, SubscribeType, ForwardType, StreamExitType, OpenStreamType DEF StreamStep
<1>3. CASE UNCHANGED vars
  BY <1>3 DEF vars, TypeInv, TypeOK, HandlerOK, StreamOK
<1> QED BY <1>1, <1>2, <1>3 DEF Next

\* The state is always well typed: in particular channel ids stay within the
\* channels ever created and every handler and stream has set the locals that
\* its next step reads.
THEOREM TypeCorrect == Spec => []TypeOK
<1>1. Spec => []TypeInv
  BY TypeInit, TypeStep, PTL DEF Spec
<1>2. TypeInv => TypeOK
  BY DEF TypeInv
<1> QED BY <1>1, <1>2, PTL

-----------------------------------------------------------------------------
(* The optimistic lock of apply_config.                                    *)

\* An apply that has passed its checks is strictly newer than what it read.
CheckedVersion ==
  \A r \in Request : job[r].pc = "replace" /\ job[r].op = "apply" =>
    IsStrictlyNewerThan(job[r].cfg, job[r].seen.cfg)

\* A handler's step changes its own state only, and only CheckConfig brings it
\* to the point where it replaces the configuration.
LEMMA OwnStep ==
  ASSUME TypeInv, NEW r \in Request, Arrive(r) \/ Continue(r)
  PROVE  /\ \A q \in Request \ {r} : job'[q] = job[q]
         /\ job'[r].pc = "replace" =>
              \E op \in Ops, d \in Device, c \in Body : CheckConfig(r, op, d, c)
         /\ job'[r].pc = "reinsert" => "meta" \in Ops
<1> USE DEF TypeInv
<1>1. job \in [Request -> Job] /\ job[r] \in Job
  BY DEF TypeOK
<1>2. ASSUME NEW j \in Job, job' = [job EXCEPT ![r] = j]
      PROVE  job'[r] = j /\ \A q \in Request \ {r} : job'[q] = job[q]
  BY <1>1, <1>2
<1>3. ASSUME NEW op \in ControllerOps \cup {"none"}, NEW code \in Nat, Answer(r, op, code)
      PROVE  job'[r].pc = "done" /\ \A q \in Request \ {r} : job'[q] = job[q]
  <2> DEFINE j == [IdleJob EXCEPT !.pc = "done", !.op = op, !.status = code]
  <2>1. j \in Job /\ j.pc = "done"
    BY IdleJobType DEF Job, Pc
  <2>2. job' = [job EXCEPT ![r] = j]
    BY <1>3 DEF Answer
  <2> HIDE DEF j
  <2> QED BY <1>2, <2>1, <2>2
<1>4. ASSUME NEW pc \in Pc, Proceed(r, pc)
      PROVE  job'[r].pc = pc /\ \A q \in Request \ {r} : job'[q] = job[q]
  <2> DEFINE j == [job[r] EXCEPT !.pc = pc]
  <2>1. j \in Job /\ j.pc = pc
    BY <1>1 DEF Job
  <2>2. job' = [job EXCEPT ![r] = j]
    BY <1>4 DEF Proceed
  <2> HIDE DEF j
  <2> QED BY <1>2, <2>1, <2>2
<1>5. ASSUME NEW d \in Device, NEW o \in Org, NEW n \in Name, NEW v \in Registered,
             Register(r, d, o, n, v)
      PROVE  job'[r].pc = "channel" /\ \A q \in Request \ {r} : job'[q] = job[q]
  <2> DEFINE j == [IdleJob EXCEPT !.pc = "channel", !.op = "register", !.dev = d]
  <2>1. j \in Job /\ j.pc = "channel"
    BY IdleJobType DEF Job, Pc, ControllerOps
  <2>2. job' = [job EXCEPT ![r] = j]
    BY <1>5 DEF Register
  <2> HIDE DEF j
  <2> QED BY <1>2, <2>1, <2>2
<1>6. ASSUME NEW d \in Device, NEW op \in Ops, NEW c \in Body, CheckConfig(r, op, d, c)
      PROVE  job'[r].pc # "reinsert" /\ \A q \in Request \ {r} : job'[q] = job[q]
  <2> DEFINE j == [IdleJob EXCEPT !.pc = "replace", !.op = op, !.dev = d,
                                  !.cfg = c, !.seen = devices[d]]
  <2>1. j \in Job /\ j.pc = "replace"
    BY IdleJobType DEF Job, Pc, TypeOK
  <2>2. CASE Verdict(op, devices[d], c) = 200
    <3>1. job' = [job EXCEPT ![r] = j]
      BY <1>6, <2>2 DEF CheckConfig
    <3> HIDE DEF j
    <3> QED BY <1>2, <2>1, <3>1
  <2>3. CASE Verdict(op, devices[d], c) # 200
    <3>1. Verdict(op, devices[d], c) \in Nat
      BY DEF Verdict
    <3>2. Answer(r, op, Verdict(op, devices[d], c))
      BY <1>6, <2>3 DEF CheckConfig
    <3> HIDE DEF Verdict
    <3> QED BY <1>3, <3>1, <3>2
  <2> QED BY <2>2, <2>3
<1>7. ASSUME NEW d \in Device, NEW o \in Org \cup {None}, NEW n \in Name \cup {None},
             UpdateMeta(r, d, o, n)
      PROVE  /\ job'[r].pc # "replace" /\ "meta" \in Ops
             /\ \A q \in Request \ {r} : job'[q] = job[q]
  <2> DEFINE rec == Edited(devices[d], o, n)
             j == [IdleJob EXCEPT !.pc = "reinsert", !.op = "meta", !.dev = d, !.seen = rec]
  <2>1. CASE Present(d)
    <3>1. devices[d] \in Record
      BY <2>1 DEF Present, TypeOK
    <3>2. rec \in Record
      BY <3>1, EditedType
    <3>3. job' = [job EXCEPT ![r] = j]
      BY <1>7, <2>1 DEF UpdateMeta
    <3> HIDE DEF rec
    <3>4. j \in Job /\ j.pc = "reinsert"
      BY <3>2, IdleJobType DEF Job, Pc, ControllerOps
    <3> HIDE DEF j
    <3>5. "meta" \in Ops
      BY <1>7 DEF UpdateMeta, Arrives
    <3> QED BY <1>2, <3>3, <3>4, <3>5
  <2>2. CASE ~ Present(d)
    BY <1>3, <1>7, <2>2 DEF UpdateMeta, Arrives, ControllerOps
  <2> QED BY <2>1, <2>2
<1>8. ASSUME NEW d \in Device, Delete(r, d)
      PROVE  job'[r].pc \in {"remove", "done"} /\ \A q \in Request \ {r} : job'[q] = job[q]
  <2> DEFINE j == [IdleJob EXCEPT !.pc = "remove", !.op = "delete", !.dev = d]
  <2>1. j \in Job /\ j.pc = "remove"
    BY IdleJobType DEF Job, Pc, ControllerOps
  <2>2. job' = [job EXCEPT ![r] = j] \/ Answer(r, "delete", 404)
    BY <1>8 DEF Delete
  <2> HIDE DEF j
  <2> QED BY <1>2, <1>3, <2>1, <2>2 DEF ControllerOps
<1>9. ASSUME NEW d \in Device, NEW o \in Org, NEW ks \in Frame, PostTelemetry(r, d, o, ks)
      PROVE  job'[r].pc \in {"frame", "done"} /\ \A q \in Request \ {r} : job'[q] = job[q]
  <2> DEFINE j == [IdleJob EXCEPT !.pc = "frame", !.op = "telemetry", !.dev = d, !.keys = ks]
  <2>1. j \in Job /\ j.pc = "frame"
    BY IdleJobType DEF Job, Pc, ControllerOps
  <2>2. job' = [job EXCEPT ![r] = j] \/ \E code \in Nat : Answer(r, "telemetry", code)
    BY <1>9 DEF PostTelemetry
  <2> HIDE DEF j
  <2> QED BY <1>2, <1>3, <2>1, <2>2 DEF ControllerOps
<1>10. ASSUME NewAlertFlags(r) \/ PushAlert(r)
       PROVE  job'[r].pc \in {"alert", "done"} /\ \A q \in Request \ {r} : job'[q] = job[q]
  <2>1. job[r].keys \in Seq(Key) /\ job[r].dev \in Device
    BY <1>1, <1>10 DEF Job, HandlerOK, LocalsOK, NewAlertFlags, PushAlert
  <2>2. CASE Answer(r, "telemetry", 200)
    BY <1>3, <2>2 DEF ControllerOps
  <2>3. CASE NewAlertFlags(r) /\ job[r].keys # <<>>
    <3> DEFINE j == [job[r] EXCEPT !.pc = "alert", !.prev = Alerted(job[r].dev)]
    <3>1. Alerted(job[r].dev) \in SUBSET Key
      BY <2>1 DEF Alerted, TypeOK
    <3>2. j \in Job /\ j.pc = "alert"
      BY <1>1, <3>1 DEF Job, Pc
    <3>3. job' = [job EXCEPT ![r] = j]
      BY <2>3 DEF NewAlertFlags
    <3> HIDE DEF j
    <3> QED BY <1>2, <3>2, <3>3
  <2>4. CASE PushAlert(r) /\ Tail(job[r].keys) # <<>>
    <3> DEFINE j == [job[r] EXCEPT !.keys = Tail(job[r].keys)]
    <3>1. job[r].keys # <<>> /\ job[r].pc = "alert"
      BY <2>4 DEF PushAlert, HandlerOK, LocalsOK
    <3>2. Tail(job[r].keys) \in Seq(Key)
      BY <2>1, <3>1
    <3>3. j \in Job /\ j.pc = "alert"
      BY <1>1, <3>1, <3>2 DEF Job
    <3>4. job' = [job EXCEPT ![r] = j]
      BY <2>4 DEF PushAlert
    <3> HIDE DEF j
    <3> QED BY <1>2, <3>3, <3>4
  <2> QED BY <1>10, <2>2, <2>3, <2>4 DEF NewAlertFlags, PushAlert
<1>11. CASE Arrive(r)
  BY <1>5, <1>6, <1>7, <1>8, <1>9, <1>11 DEF Arrive
<1>12. CASE Continue(r)
  <2>1. job[r].op \in ControllerOps \cup {"none"}
    BY <1>1 DEF Job
  <2>2. CASE RegisterChannel(r) \/ SendConfig(r) \/ Reinsert(r)
    <3>1. \E op \in ControllerOps \cup {"none"}, code \in Nat : Answer(r, op, code)
      BY <2>1, <2>2 DEF RegisterChannel, SendConfig, Reinsert, ControllerOps
    <3> QED BY <1>3, <3>1
  <2>5. CASE ReplaceConfig(r)
    <3>1. Answer(r, job[r].op, 404) \/ Proceed(r, "send")
      BY <2>5 DEF ReplaceConfig
    <3>2. CASE Answer(r, job[r].op, 404)
      <4>1. job'[r].pc = "done" /\ \A q \in Request \ {r} : job'[q] = job[q]
        BY <1>3, <2>1, <3>2
      <4> QED BY <4>1
    <3>3. CASE Proceed(r, "send")
      <4>1. job'[r].pc = "send" /\ \A q \in Request \ {r} : job'[q] = job[q]
        BY <1>4, <3>3 DEF Pc
      <4> QED BY <4>1
    <3> QED BY <3>1, <3>2, <3>3
  <2>3. CASE RemoveDevice(r) \/ DropChannel(r) \/ DropTelemetry(r) \/ DropFlags(r)
    BY <1>3, <1>4, <2>3 DEF RemoveDevice, DropChannel, DropTelemetry, DropFlags, ControllerOps, Pc
  <2>4. CASE InsertTelemetry(r)
    BY <1>4, <2>4 DEF InsertTelemetry, Pc
  <2> QED BY <1>10, <1>12, <2>2, <2>3, <2>4, <2>5 DEF Continue
<1> QED BY <1>11, <1>12

LEMMA CheckedVersionInit == Init => CheckedVersion
BY IdleJobType DEF Init, CheckedVersion

LEMMA CheckedVersionStep == TypeInv /\ CheckedVersion /\ [Next]_vars => CheckedVersion'
<1> SUFFICES ASSUME TypeInv, CheckedVersion, [Next]_vars PROVE CheckedVersion'
  OBVIOUS
<1>1. ASSUME NEW r \in Request, Arrive(r) \/ Continue(r)
      PROVE  CheckedVersion'
  <2> SUFFICES ASSUME NEW q \in Request, job'[q].pc = "replace", job'[q].op = "apply"
               PROVE  IsStrictlyNewerThan(job'[q].cfg, job'[q].seen.cfg)
    BY DEF CheckedVersion
  <2>1. CASE q # r
    BY <1>1, <2>1, OwnStep DEF CheckedVersion
  <2>2. CASE q = r
    <3>1. PICK op \in Ops, d \in Device, c \in Body : CheckConfig(r, op, d, c)
      BY <1>1, <2>2, OwnStep
    <3> DEFINE j == [IdleJob EXCEPT !.pc = "replace", !.op = op, !.dev = d,
                                    !.cfg = c, !.seen = devices[d]]
    <3>2. CASE Verdict(op, devices[d], c) = 200
      <4>1. j.op = op /\ j.cfg = c /\ j.seen = devices[d]
        BY IdleJobType DEF Job
      <4>2. job' = [job EXCEPT ![r] = j]
        BY <3>1, <3>2 DEF CheckConfig
      <4> HIDE DEF j
      <4>3. job'[r] = j
        BY <4>2 DEF TypeInv, TypeOK
      <4>4. op = "apply" => IsStrictlyNewerThan(c, devices[d].cfg)
        BY <3>2 DEF Verdict
      <4> QED BY <2>2, <4>1, <4>3, <4>4
    <3>3. CASE Verdict(op, devices[d], c) # 200
      <4> DEFINE a == [IdleJob EXCEPT !.pc = "done", !.op = op,
                                      !.status = Verdict(op, devices[d], c)]
      <4>1. a.pc = "done"
        BY IdleJobType DEF Job
      <4>2. job' = [job EXCEPT ![r] = a]
        BY <3>1, <3>3 DEF CheckConfig, Answer
      <4> HIDE DEF a
      <4> QED BY <2>2, <4>1, <4>2 DEF TypeInv, TypeOK
    <3> QED BY <3>2, <3>3
  <2> QED BY <2>1, <2>2
<1>2. CASE \E s \in Stream : StreamStep(s) \/ ClientLeaves(s) \/ \E d \in Device : OpenStream(s, d)
  <2>1. UNCHANGED job
    BY <1>2 DEF StreamStep, Subscribe, Forward, EndStream, ClientLeaves, OpenStream
  <2> QED BY <2>1 DEF CheckedVersion
<1>3. CASE UNCHANGED vars
  BY <1>3 DEF vars, CheckedVersion
<1> QED BY <1>1, <1>2, <1>3 DEF Next

\* Under every interleaving, an apply that does not increase the stored version
\* was overtaken: the record is no longer the one it checked.
THEOREM ApplyOnlyOvertaken == Spec => ApplyOvertaken
<1> DEFINE Lost(r) == Commits(r) /\ job[r].op = "apply" =>
                        \/ IsStrictlyNewerThan(job[r].cfg, devices[job[r].dev].cfg)
                        \/ devices[job[r].dev] # job[r].seen
<1>1. TypeInv /\ CheckedVersion => \A r \in Request : Lost(r)
  BY DEF CheckedVersion, Commits
<1>2. Spec => [](TypeInv /\ CheckedVersion)
  <2>1. Init => TypeInv /\ CheckedVersion
    BY TypeInit, CheckedVersionInit
  <2>2. TypeInv /\ CheckedVersion /\ [Next]_vars => (TypeInv /\ CheckedVersion)'
    BY TypeStep, CheckedVersionStep
  <2> QED BY <2>1, <2>2, PTL DEF Spec
<1> QED BY <1>1, <1>2, PTL DEF ApplyOvertaken

-----------------------------------------------------------------------------
(* Streams.                                                                *)

\* StreamGapless frame by frame: the i-th frame written to the socket is the
\* i-th configuration sent since the stream subscribed.
FramesMatch ==
  \A s \in Stream : stream[s].pc \in {"open", "ended"} =>
    /\ Len(sent[s]) = stream[s].pos - stream[s].from
    /\ \A i \in 1 .. Len(sent[s]) : sent[s][i] = logs[stream[s].chan][stream[s].from + i]

LEMMA FramesMatchGapless == TypeInv /\ FramesMatch => StreamGapless
<1> SUFFICES ASSUME TypeInv, FramesMatch, NEW s \in Stream, stream[s].chan # 0
             PROVE  sent[s] = SubSeq(logs[stream[s].chan], stream[s].from + 1, stream[s].pos)
  BY DEF StreamGapless
<1> DEFINE log == logs[stream[s].chan]
           m   == stream[s].from
           n   == stream[s].pos
<1>1. stream[s] \in StreamTask /\ stream[s].pc \in {"open", "ended"}
  BY DEF TypeInv, TypeOK, StreamOK, StreamTask
<1>2. /\ stream[s].chan \in 1 .. Len(logs) /\ m \in Nat /\ n \in Nat /\ m <= n /\ n <= Len(log)
  BY <1>1 DEF TypeInv, StreamOK, StreamTask
<1>3. log \in Seq(Config) /\ Len(log) \in Nat /\ sent[s] \in Seq(Config)
  BY <1>2 DEF TypeInv, TypeOK
<1>4. /\ Len(sent[s]) = n - m
      /\ \A i \in 1 .. Len(sent[s]) : sent[s][i] = log[m + i]
  BY <1>1 DEF FramesMatch
<1> HIDE DEF log, m, n
<1>5. \A i \in m + 1 .. n : log[i] \in Config
  BY <1>2, <1>3
<1>6. m + 1 \in Int /\ n \in Int
  BY <1>2
<1>7. /\ SubSeq(log, m + 1, n) \in Seq(Config)
      /\ Len(SubSeq(log, m + 1, n)) = IF m + 1 <= n THEN n - (m + 1) + 1 ELSE 0
      /\ \A i \in 1 .. n - (m + 1) + 1 : SubSeq(log, m + 1, n)[i] = log[(m + 1) + i - 1]
  BY <1>5, <1>6, SubSeqProperties
<1> DEFINE sub == SubSeq(log, m + 1, n)
<1> HIDE DEF sub
<1>8. Len(sub) = Len(sent[s])
  BY <1>2, <1>4, <1>7 DEF sub
<1>9. \A i \in 1 .. Len(sent[s]) : sent[s][i] = sub[i]
  <2> TAKE i \in 1 .. Len(sent[s])
  <2>1. sent[s][i] = log[m + i]
    BY <1>4
  <2>2. i \in 1 .. n - (m + 1) + 1 /\ (m + 1) + i - 1 = m + i
    BY <1>2, <1>4
  <2>3. sub[i] = log[(m + 1) + i - 1]
    BY <1>7, <2>2 DEF sub
  <2> QED BY <2>1, <2>2, <2>3
<1>10. sub \in Seq(Config)
  BY <1>7 DEF sub
<1>11. sent[s] = sub
  BY <1>3, <1>8, <1>9, <1>10, SeqEqual
<1> QED BY <1>11 DEF sub, log, m, n

\* Appending to a channel's log keeps what was read from it.
LEMMA FramesMatchGrowing ==
  ASSUME TypeInv, FramesMatch, UNCHANGED streamVars,
         \A ch \in 1 .. Len(logs) : \A i \in 1 .. Len(logs[ch]) : logs'[ch][i] = logs[ch][i]
  PROVE  FramesMatch'
<1> SUFFICES ASSUME NEW s \in Stream, stream[s].pc \in {"open", "ended"},
                    NEW i \in 1 .. Len(sent[s])
             PROVE  logs'[stream[s].chan][stream[s].from + i] = logs[stream[s].chan][stream[s].from + i]
  BY DEF FramesMatch, streamVars
<1>1. /\ stream[s].chan \in 1 .. Len(logs) /\ stream[s].from \in Nat /\ stream[s].pos \in Nat
      /\ stream[s].pos <= Len(logs[stream[s].chan]) /\ Len(logs[stream[s].chan]) \in Nat
  BY DEF TypeInv, TypeOK, StreamOK, StreamTask
<1>2. Len(sent[s]) = stream[s].pos - stream[s].from
  BY DEF FramesMatch
<1> DEFINE top == Len(logs[stream[s].chan])
           from == stream[s].from
           pos == stream[s].pos
<1>3. top \in Nat /\ from \in Nat /\ pos \in Nat /\ pos <= top /\ i \in 1 .. pos - from
  BY <1>1, <1>2
<1> HIDE DEF top, from, pos
<1>4. from + i \in 1 .. top
  BY <1>3
<1> QED BY <1>1, <1>4 DEF top, from

\* The handlers only append to logs and leave streams alone.
LEMMA HandlerLogs ==
  ASSUME TypeInv, NEW r \in Request, Arrive(r) \/ Continue(r)
  PROVE  /\ UNCHANGED streamVars
         /\ \A ch \in 1 .. Len(logs) : \A i \in 1 .. Len(logs[ch]) : logs'[ch][i] = logs[ch][i]
<1> USE DEF TypeInv
<1>1. UNCHANGED streamVars
  BY DEF Arrive, Register, CheckConfig, UpdateMeta, Delete, PostTelemetry, Continue,
         RegisterChannel, ReplaceConfig, SendConfig, Reinsert, RemoveDevice, DropChannel,
         DropTelemetry, DropFlags, InsertTelemetry, NewAlertFlags, PushAlert
<1>2. CASE RegisterChannel(r)
  <2>1. job[r].dev \in Device
    BY <1>2 DEF RegisterChannel, HandlerOK, LocalsOK
  <2> QED BY <1>1, <1>2, <2>1, NewChannelEffect DEF RegisterChannel
<1>3. CASE SendConfig(r)
  <2> DEFINE ch == chan[job[r].cfg.dev]
  <2>1. job[r].cfg \in Config
    BY <1>3 DEF SendConfig, HandlerOK, LocalsOK
  <2>2. ch \in 0 .. Len(logs) /\ Len(logs) \in Nat
    BY <2>1 DEF TypeOK, Config
  <2>3. CASE ch = 0
    BY <1>1, <1>3, <2>3 DEF SendConfig
  <2>4. CASE ch # 0
    <3>1. ch \in 1 .. Len(logs)
      BY <2>2, <2>4
    <3>2. logs[ch] \in Seq(Config)
      BY <3>1 DEF TypeOK
    <3> DEFINE log == Append(logs[ch], job[r].cfg)
    <3>3. \A i \in 1 .. Len(logs[ch]) : log[i] = logs[ch][i]
      BY <2>1, <3>2, AppendProperties
    <3>4. logs' = [logs EXCEPT ![ch] = log]
      BY <1>3, <2>4 DEF SendConfig
    <3> HIDE DEF log, ch
    <3>5. \A n \in 1 .. Len(logs) : logs'[n] = IF n = ch THEN log ELSE logs[n]
      BY <3>4 DEF TypeOK
    <3> QED BY <1>1, <3>3, <3>5
  <2> QED BY <2>3, <2>4
<1>4. CASE ~ RegisterChannel(r) /\ ~ SendConfig(r)
  <2>1. UNCHANGED logs
    BY <1>4 DEF Arrive, Register, CheckConfig, UpdateMeta, Delete, PostTelemetry, Continue,
         ReplaceConfig, Reinsert, RemoveDevice, DropChannel,
         DropTelemetry, DropFlags, InsertTelemetry, NewAlertFlags, PushAlert, storeVars
  <2> QED BY <1>1, <2>1
<1> QED BY <1>2, <1>3, <1>4

\* The frames of the other streams match after a step of s that keeps the logs.
LEMMA OtherStreams ==
  ASSUME TypeInv, FramesMatch, NEW s \in Stream, NEW q \in Stream \ {s},
         stream'[q] = stream[q], sent'[q] = sent[q], stream[q].pc \in {"open", "ended"},
         \A ch \in 1 .. Len(logs) : logs'[ch] = logs[ch]
  PROVE  /\ Len(sent'[q]) = stream'[q].pos - stream'[q].from
         /\ \A i \in 1 .. Len(sent'[q]) :
              sent'[q][i] = logs'[stream'[q].chan][stream'[q].from + i]
<1>1. stream[q].chan \in 1 .. Len(logs)
  BY DEF TypeInv, StreamOK
<1> QED BY <1>1 DEF FramesMatch

LEMMA FramesMatchSubscribe ==
  ASSUME TypeInv, FramesMatch, NEW s \in Stream, Subscribe(s)
  PROVE  FramesMatch'
<1>1. stream \in [Stream -> StreamTask] /\ stream[s] \in StreamTask /\ sent[s] = <<>> /\ UNCHANGED sent
  BY DEF TypeInv, TypeOK, StreamOK, Subscribe
<1>2. \A ch \in 1 .. Len(logs) : logs'[ch] = logs[ch]
  <2>1. CASE chan[stream[s].dev] = 0
    BY <2>1, NewChannelEffect DEF Subscribe, TypeInv, StreamOK
  <2>2. CASE chan[stream[s].dev] # 0
    BY <2>2 DEF Subscribe
  <2> QED BY <2>1, <2>2
<1>3. PICK ch, n : stream' = [stream EXCEPT ![s].pc = "open", ![s].chan = ch,
                                           ![s].from = n, ![s].pos = n]
                   /\ n \in Nat
  <2>1. CASE chan[stream[s].dev] = 0
    BY <2>1 DEF Subscribe
  <2>2. CASE chan[stream[s].dev] # 0
    <3>1. chan[stream[s].dev] \in 1 .. Len(logs)
      BY <2>2 DEF TypeInv, TypeOK, StreamOK, Subscribe
    <3>2. Len(logs[chan[stream[s].dev]]) \in Nat
      BY <3>1 DEF TypeInv, TypeOK
    <3> QED BY <2>2, <3>2 DEF Subscribe
  <2> QED BY <2>1, <2>2
<1>4. /\ \A q \in Stream \ {s} : stream'[q] = stream[q]
      /\ stream'[s].from = n /\ stream'[s].pos = n
  BY <1>1, <1>3 DEF StreamTask
<1> SUFFICES ASSUME NEW q \in Stream, stream'[q].pc \in {"open", "ended"}
             PROVE  /\ Len(sent'[q]) = stream'[q].pos - stream'[q].from
                    /\ \A i \in 1 .. Len(sent'[q]) :
                         sent'[q][i] = logs'[stream'[q].chan][stream'[q].from + i]
  BY DEF FramesMatch
<1>5. CASE q = s
  <2>1. Len(sent'[q]) = 0
    BY <1>1, <1>5
  <2> QED BY <1>3, <1>4, <1>5, <2>1
<1>6. CASE q # s
  BY <1>1, <1>2, <1>4, <1>6, OtherStreams
<1> QED BY <1>5, <1>6

LEMMA FramesMatchForward ==
  ASSUME TypeInv, FramesMatch, NEW s \in Stream, Forward(s)
  PROVE  FramesMatch'
<1> DEFINE log == logs[stream[s].chan]
           new == log[stream[s].pos + 1]
<1>1. /\ stream \in [Stream -> StreamTask] /\ sent \in [Stream -> Seq(Config)]
      /\ stream[s] \in StreamTask /\ sent[s] \in Seq(Config) /\ stream[s].pc = "open"
      /\ stream[s].pos \in Nat /\ stream[s].from \in Nat /\ UNCHANGED logs
      /\ stream[s].chan \in 1 .. Len(logs) /\ stream[s].pos <= Len(log)
      /\ stream[s].from <= stream[s].pos
  BY DEF TypeInv, TypeOK, StreamOK, StreamTask, Forward, storeVars
<1>2. log \in Seq(Config) /\ Len(log) \in Nat
  BY <1>1 DEF TypeInv, TypeOK
<1>3. new \in Config
  <2>1. Len(log) - stream[s].pos > 0
    BY DEF Forward, Backlog
  <2>2. stream[s].pos + 1 \in 1 .. Len(log)
    BY <1>1, <1>2, <2>1
  <2> QED BY <1>2, <2>2
<1>4. sent' = [sent EXCEPT ![s] = Append(sent[s], new)]
      /\ stream' = [stream EXCEPT ![s].pos = stream[s].pos + 1]
  BY DEF Forward
<1>5. /\ \A q \in Stream \ {s} : stream'[q] = stream[q] /\ sent'[q] = sent[q]
      /\ stream'[s].from = stream[s].from /\ stream'[s].pos = stream[s].pos + 1
      /\ stream'[s].chan = stream[s].chan /\ sent'[s] = Append(sent[s], new)
  BY <1>1, <1>4 DEF StreamTask
<1> SUFFICES ASSUME NEW q \in Stream, stream'[q].pc \in {"open", "ended"}
             PROVE  /\ Len(sent'[q]) = stream'[q].pos - stream'[q].from
                    /\ \A i \in 1 .. Len(sent'[q]) :
                         sent'[q][i] = logs'[stream'[q].chan][stream'[q].from + i]
  BY DEF FramesMatch
<1>6. CASE q = s
  <2>1. /\ Len(sent[s]) = stream[s].pos - stream[s].from
        /\ \A i \in 1 .. Len(sent[s]) : sent[s][i] = log[stream[s].from + i]
    BY <1>1 DEF FramesMatch
  <2> HIDE DEF log, new
  <2>2. /\ Len(sent'[s]) = Len(sent[s]) + 1 /\ Len(sent[s]) \in Nat
        /\ \A i \in 1 .. Len(sent[s]) : sent'[s][i] = sent[s][i]
        /\ sent'[s][Len(sent[s]) + 1] = new
    BY <1>1, <1>3, <1>5, AppendProperties
  <2>3. logs'[stream'[q].chan] = log /\ stream'[q].from = stream[s].from
    BY <1>1, <1>5, <1>6 DEF log
  <2>4. Len(sent'[q]) = stream'[q].pos - stream'[q].from
    <3>1. /\ Len(sent'[q]) = Len(sent[s]) + 1
          /\ stream'[q].pos = stream[s].pos + 1 /\ stream'[q].from = stream[s].from
      BY <1>5, <1>6, <2>2
    <3>2. /\ Len(sent[s]) = stream[s].pos - stream[s].from
          /\ stream[s].pos \in Nat /\ stream[s].from \in Nat
      BY <1>1, <2>1
    <3> QED BY ONLY <3>1, <3>2
  <2>5. ASSUME NEW i \in 1 .. Len(sent'[q])
        PROVE  sent'[q][i] = log[stream[s].from + i]
    <3>1. CASE i \in 1 .. Len(sent[s])
      BY <1>6, <2>1, <2>2, <3>1
    <3>2. CASE i = Len(sent[s]) + 1
      <4>1. stream[s].from + i = stream[s].pos + 1
        BY <1>1, <2>1, <3>2
      <4> QED BY <1>6, <2>2, <3>2, <4>1 DEF new
    <3>3. i \in 1 .. Len(sent[s]) \/ i = Len(sent[s]) + 1
      BY <1>6, <2>2
    <3> QED BY <3>1, <3>2, <3>3
  <2> QED BY <2>3, <2>4, <2>5
<1>7. CASE q # s
  BY <1>1, <1>5, <1>7, OtherStreams
<1> QED BY <1>6, <1>7

LEMMA FramesMatchOther ==
  ASSUME TypeInv, FramesMatch, NEW s \in Stream,
         EndStream(s) \/ ClientLeaves(s) \/ \E d \in Device : OpenStream(s, d)
  PROVE  FramesMatch'
<1>1. /\ stream \in [Stream -> StreamTask] /\ stream[s] \in StreamTask /\ UNCHANGED <<logs, sent>>
  BY DEF TypeInv, TypeOK, EndStream, ClientLeaves, OpenStream, storeVars
<1>2. /\ \A q \in Stream \ {s} : stream'[q] = stream[q]
      /\ \/ stream'[s].pc = "upgrading"
         \/ /\ stream'[s].pc \in {stream[s].pc, "ended"}
            /\ stream'[s].pc = "ended" => stream[s].pc \in {"open", "ended"}
            /\ stream'[s].chan = stream[s].chan
            /\ stream'[s].from = stream[s].from /\ stream'[s].pos = stream[s].pos
  <2>1. CASE EndStream(s)
    BY <1>1, <2>1 DEF EndStream, StreamTask
  <2>2. CASE ClientLeaves(s)
    BY <1>1, <2>2 DEF ClientLeaves, StreamTask
  <2>3. ASSUME NEW d \in Device, OpenStream(s, d)
        PROVE  stream'[s].pc = "upgrading" /\ \A q \in Stream \ {s} : stream'[q] = stream[q]
    <3> DEFINE t == [IdleStream EXCEPT !.pc = "upgrading", !.dev = d]
    <3>1. t.pc = "upgrading"
      BY IdleStreamType DEF StreamTask
    <3>2. stream' = [stream EXCEPT ![s] = t]
      BY <2>3 DEF OpenStream
    <3> HIDE DEF t
    <3> QED BY <1>1, <3>1, <3>2
  <2> QED BY <2>1, <2>2, <2>3
<1> SUFFICES ASSUME NEW q \in Stream, stream'[q].pc \in {"open", "ended"}
             PROVE  /\ Len(sent'[q]) = stream'[q].pos - stream'[q].from
                    /\ \A i \in 1 .. Len(sent'[q]) :
                         sent'[q][i] = logs'[stream'[q].chan][stream'[q].from + i]
  BY DEF FramesMatch
<1>3. CASE q = s
  BY <1>1, <1>2, <1>3 DEF FramesMatch
<1>4. CASE q # s
  BY <1>1, <1>2, <1>4, OtherStreams
<1> QED BY <1>3, <1>4

LEMMA FramesMatchStep == TypeInv /\ FramesMatch /\ [Next]_vars => FramesMatch'
<1> SUFFICES ASSUME TypeInv, FramesMatch, [Next]_vars PROVE FramesMatch'
  OBVIOUS
<1>1. ASSUME NEW r \in Request, Arrive(r) \/ Continue(r)
      PROVE  FramesMatch'
  BY <1>1, HandlerLogs, FramesMatchGrowing
<1>2. ASSUME NEW s \in Stream,
             StreamStep(s) \/ ClientLeaves(s) \/ \E d \in Device : OpenStream(s, d)
      PROVE  FramesMatch'
  BY <1>2, FramesMatchSubscribe, FramesMatchForward, FramesMatchOther DEF StreamStep
<1>3. CASE UNCHANGED vars
  BY <1>3 DEF vars, FramesMatch
<1> QED BY <1>1, <1>2, <1>3 DEF Next

\* Whatever registers, deletes, lags or overlaps, a stream writes to its socket
\* exactly what was sent since it subscribed: nothing skipped, repeated or
\* reordered.
THEOREM StreamsAreGapless == Spec => []StreamGapless
<1>1. Init => TypeInv /\ FramesMatch
  <2>1. Init => FramesMatch
    BY IdleStreamType DEF Init, FramesMatch
  <2> QED BY <2>1, TypeInit
<1>2. TypeInv /\ FramesMatch /\ [Next]_vars => (TypeInv /\ FramesMatch)'
  BY TypeStep, FramesMatchStep
<1>3. TypeInv /\ FramesMatch => StreamGapless
  BY FramesMatchGapless
<1> QED BY <1>1, <1>2, <1>3, PTL DEF Spec

-----------------------------------------------------------------------------
(* Alerts.                                                                 *)

\* Only PushAlert changes the ring.
LEMMA AlertsStep == TypeInv /\ AlertIdsConsecutive /\ [Next]_vars => AlertIdsConsecutive'
<1> SUFFICES ASSUME TypeInv, AlertIdsConsecutive, [Next]_vars PROVE AlertIdsConsecutive'
  OBVIOUS
<1>1. ASSUME NEW r \in Request, PushAlert(r)
      PROVE  AlertIdsConsecutive'
  <2> DEFINE k == Head(job[r].keys)
  <2>1. job[r] \in Job /\ LocalsOK(job[r]) /\ job[r].pc = "alert" /\ alerts \in Seq(Alert)
    BY <1>1 DEF PushAlert, TypeInv, TypeOK, HandlerOK
  <2>2. job[r].dev \in Device /\ job[r].keys \in Seq(Key) /\ job[r].keys # <<>>
    BY <2>1 DEF LocalsOK, Job
  <2>3. k \in Key
    BY <2>2
  <2>4. alerts' = IF k \in job[r].prev THEN alerts ELSE Pushed(alerts, job[r].dev, k)
    BY <1>1 DEF PushAlert
  <2> HIDE DEF k
  <2>5. CASE k \in job[r].prev
    BY <2>4, <2>5 DEF AlertIdsConsecutive
  <2>6. CASE k \notin job[r].prev
    <3>1. alerts' = Pushed(alerts, job[r].dev, k)
      BY <2>4, <2>6
    <3>2. /\ Len(Pushed(alerts, job[r].dev, k)) <= AlertCap
          /\ \A i \in 1 .. Len(Pushed(alerts, job[r].dev, k)) - 1 :
               Pushed(alerts, job[r].dev, k)[i + 1].id = Pushed(alerts, job[r].dev, k)[i].id + 1
      BY <2>1, <2>2, <2>3, PushedRing DEF AlertIdsConsecutive
    <3> QED BY <3>1, <3>2 DEF AlertIdsConsecutive
  <2> QED BY <2>5, <2>6
<1>2. ASSUME UNCHANGED alerts
      PROVE  AlertIdsConsecutive'
  BY <1>2 DEF AlertIdsConsecutive
<1>3. ASSUME NEW r \in Request, Arrive(r) \/ Continue(r), ~ PushAlert(r)
      PROVE  UNCHANGED alerts
  BY <1>3 DEF Arrive, Register, CheckConfig, UpdateMeta, Delete, PostTelemetry, Continue,
         RegisterChannel, ReplaceConfig, SendConfig, Reinsert, RemoveDevice, DropChannel,
         DropTelemetry, DropFlags, InsertTelemetry, NewAlertFlags, alertVars
<1>4. ASSUME NEW s \in Stream,
             StreamStep(s) \/ ClientLeaves(s) \/ \E d \in Device : OpenStream(s, d)
      PROVE  UNCHANGED alerts
  BY <1>4 DEF StreamStep, Subscribe, Forward, EndStream, ClientLeaves, OpenStream, alertVars
<1>5. UNCHANGED vars => UNCHANGED alerts
  BY DEF vars
<1> QED BY <1>1, <1>2, <1>3, <1>4, <1>5 DEF Next

\* For any number of frames and of requests that race to push alerts, the ring
\* never exceeds its bound and its ids count up by one, so a client that
\* remembers the last id it saw can tell what is new.
THEOREM AlertIdsNeverReused == Spec => []AlertIdsConsecutive
<1>1. Init => TypeInv /\ AlertIdsConsecutive
  <2>1. Init => AlertIdsConsecutive
    BY DEF Init, AlertIdsConsecutive
  <2> QED BY <2>1, TypeInit
<1>2. TypeInv /\ AlertIdsConsecutive /\ [Next]_vars => (TypeInv /\ AlertIdsConsecutive)'
  BY TypeStep, AlertsStep
<1> QED BY <1>1, <1>2, PTL DEF Spec

-----------------------------------------------------------------------------
(* Deleted devices.                                                        *)

NoMeta == \A r \in Request : job[r].pc # "reinsert"

LEMMA NoMetaStep ==
  ASSUME "meta" \notin Ops
  PROVE  TypeInv /\ NoMeta /\ [Next]_vars => NoMeta'
<1> SUFFICES ASSUME TypeInv, NoMeta, [Next]_vars PROVE NoMeta'
  OBVIOUS
<1>1. ASSUME NEW r \in Request, Arrive(r) \/ Continue(r)
      PROVE  NoMeta'
  BY <1>1, OwnStep DEF NoMeta
<1>2. ASSUME NEW s \in Stream,
             StreamStep(s) \/ ClientLeaves(s) \/ \E d \in Device : OpenStream(s, d)
      PROVE  NoMeta'
  BY <1>2 DEF StreamStep, Subscribe, Forward, EndStream, ClientLeaves, OpenStream, NoMeta
<1>3. CASE UNCHANGED vars
  BY <1>3 DEF vars, NoMeta
<1> QED BY <1>1, <1>2, <1>3 DEF Next

\* Without the handler of PUT /devices/:id, a step that makes an absent device
\* present is a registration of that device.
LEMMA OnlyRegistrationCreates ==
  ASSUME TypeInv, NoMeta, [Next]_vars, NEW d \in Device, ~ Present(d), Present(d)'
  PROVE  Registers(d)
<1> USE DEF TypeInv
<1>1. PICK r \in Request : Arrive(r) \/ Continue(r)
  <2>1. ASSUME NEW s \in Stream,
               StreamStep(s) \/ ClientLeaves(s) \/ \E e \in Device : OpenStream(s, e)
        PROVE  UNCHANGED devices
    BY <2>1 DEF StreamStep, Subscribe, Forward, EndStream, ClientLeaves, OpenStream, storeVars
  <2>2. UNCHANGED vars => UNCHANGED devices
    BY DEF vars
  <2> QED BY <2>1, <2>2 DEF Next, Present
<1>2. CASE \E e \in Device, o \in Org, n \in Name, v \in Registered : Register(r, e, o, n, v)
  <2>1. PICK e \in Device, o \in Org, n \in Name, v \in Registered : Register(r, e, o, n, v)
    BY <1>2
  <2>2. e = d
    BY <2>1 DEF Register, Present, TypeOK
  <2> DEFINE j == [IdleJob EXCEPT !.pc = "channel", !.op = "register", !.dev = e]
  <2>3. j.pc = "channel" /\ j.dev = e
    BY IdleJobType DEF Job
  <2>4. job' = [job EXCEPT ![r] = j] /\ job[r].pc = "idle"
    BY <2>1 DEF Register, Arrives
  <2> HIDE DEF j
  <2> QED BY <2>2, <2>3, <2>4 DEF Registers, TypeOK
<1>3. CASE ReplaceConfig(r)
  BY <1>3 DEF ReplaceConfig, Present, TypeOK
<1>4. CASE RemoveDevice(r)
  BY <1>4 DEF RemoveDevice, Present, TypeOK
<1>5. CASE /\ ~ (\E e \in Device, o \in Org, n \in Name, v \in Registered : Register(r, e, o, n, v))
           /\ ~ ReplaceConfig(r) /\ ~ RemoveDevice(r)
  <2>1. UNCHANGED devices
    BY <1>1, <1>5 DEF Arrive, CheckConfig, UpdateMeta, Delete, PostTelemetry, Continue,
         RegisterChannel, SendConfig, Reinsert, DropChannel, NoMeta,
         DropTelemetry, DropFlags, InsertTelemetry, NewAlertFlags, PushAlert, storeVars
  <2> QED BY <2>1 DEF Present
<1> QED BY <1>2, <1>3, <1>4, <1>5

\* Of all the handlers, only a metadata update can bring a deleted device back:
\* an instance without that operation never does, however requests interleave.
THEOREM DeletedStaysDeleted ==
  ASSUME "meta" \notin Ops
  PROVE  Spec => NoResurrection
<1>1. Init => TypeInv /\ NoMeta
  <2>1. Init => NoMeta
    BY IdleJobType DEF Init, NoMeta
  <2> QED BY <2>1, TypeInit
<1>2. TypeInv /\ NoMeta /\ [Next]_vars => (TypeInv /\ NoMeta)'
  BY TypeStep, NoMetaStep
<1>3. TypeInv /\ NoMeta /\ [Next]_vars
        => [\A d \in Device : ~ Present(d) /\ Present(d)' => Registers(d)]_vars
  BY OnlyRegistrationCreates
<1> QED BY <1>1, <1>2, <1>3, PTL DEF Spec, NoResurrection
-----------------------------------------------------------------------------
(* What one step does to the handlers and to the records.                  *)

LEMMA AnswerEnds ==
  ASSUME TypeInv, NEW r \in Request, NEW op, NEW code, Answer(r, op, code)
  PROVE  job'[r].pc = "done"
<1> DEFINE j == [IdleJob EXCEPT !.pc = "done", !.op = op, !.status = code]
<1>1. j.pc = "done"
  BY DEF IdleJob
<1>2. job' = [job EXCEPT ![r] = j] /\ job \in [Request -> Job]
  BY DEF Answer, TypeInv, TypeOK
<1> HIDE DEF j
<1> QED BY <1>1, <1>2

\* What a request knows when it has arrived and was not answered at once.
ArrivalKnows(r) ==
  LET j == job'[r] IN
  /\ j.dev \in Device /\ j.op \in Ops /\ (Overlap \/ Quiet(j.dev))
  /\ j.pc \in {"channel", "replace", "reinsert", "remove", "frame"}
  /\ j.pc = "channel" =>
       /\ j.op = "register"
       /\ \E o \in Org, n \in Name, v \in Registered : Register(r, j.dev, o, n, v)
  /\ j.pc # "channel" => UNCHANGED devices
  /\ j.pc = "replace" =>
       /\ Present(j.dev) /\ j.seen = devices[j.dev] /\ j.op \in {"apply", "put"}
       /\ j.op = "apply" => IsStrictlyNewerThan(j.cfg, j.seen.cfg)
  /\ j.pc = "reinsert" => Present(j.dev) /\ SameButHost(j.seen.cfg, devices[j.dev].cfg)

LEMMA CheckConfigEffect ==
  ASSUME TypeInv, NEW r \in Request, NEW op \in Ops, NEW d \in Device, NEW c \in Body,
         CheckConfig(r, op, d, c)
  PROVE  UNCHANGED devices /\ (job'[r].pc = "done" \/ ArrivalKnows(r))
<1>1. UNCHANGED devices
  BY DEF CheckConfig, storeVars
<1> DEFINE j == [IdleJob EXCEPT !.pc = "replace", !.op = op, !.dev = d,
                                !.cfg = c, !.seen = devices[d]]
<1>2. j.pc = "replace" /\ j.op = op /\ j.dev = d /\ j.cfg = c /\ j.seen = devices[d]
  BY DEF IdleJob
<1>3. CASE Verdict(op, devices[d], c) = 200
  <2>1. job' = [job EXCEPT ![r] = j]
    BY <1>3 DEF CheckConfig
  <2> HIDE DEF j
  <2>2. job'[r] = j
    BY <2>1 DEF TypeInv, TypeOK
  <2>3. /\ devices[d] # None /\ op \in {"apply", "put"}
        /\ op = "apply" => IsStrictlyNewerThan(c, devices[d].cfg)
    BY <1>3 DEF Verdict, CheckConfig
  <2>4. Overlap \/ Quiet(d)
    BY DEF CheckConfig, Arrives
  <2> QED BY <1>1, <1>2, <2>2, <2>3, <2>4 DEF ArrivalKnows, Present
<1>4. CASE Verdict(op, devices[d], c) # 200
  BY <1>1, <1>4, AnswerEnds DEF CheckConfig
<1> QED BY <1>3, <1>4

LEMMA ArriveEffect ==
  ASSUME TypeInv, NEW r \in Request, Arrive(r)
  PROVE  /\ job[r].pc = "idle"
         /\ \/ job'[r].pc = "done" /\ UNCHANGED devices
            \/ ArrivalKnows(r)
<1>1. job[r].pc = "idle"
  <2>1. \A d \in Device, o \in Org, n \in Name, v \in Registered :
          Register(r, d, o, n, v) => job[r].pc = "idle"
    BY DEF Register, Arrives
  <2>2. \A d \in Device, op \in Ops, c \in Body : CheckConfig(r, op, d, c) => job[r].pc = "idle"
    BY DEF CheckConfig, Arrives
  <2>3. \A d \in Device, o \in Org \cup {None}, n \in Name \cup {None} :
          UpdateMeta(r, d, o, n) => job[r].pc = "idle"
    BY DEF UpdateMeta, Arrives
  <2>4. \A d \in Device : Delete(r, d) => job[r].pc = "idle"
    BY DEF Delete, Arrives
  <2>5. \A d \in Device, o \in Org, ks \in Frame : PostTelemetry(r, d, o, ks) => job[r].pc = "idle"
    BY DEF PostTelemetry, Arrives
  <2> QED BY <2>1, <2>2, <2>3, <2>4, <2>5 DEF Arrive
<1>2. job \in [Request -> Job]
  BY DEF TypeInv, TypeOK
<1>3. ASSUME NEW d \in Device, NEW o \in Org, NEW n \in Name, NEW v \in Registered,
             Register(r, d, o, n, v)
      PROVE  ArrivalKnows(r)
  <2> DEFINE j == [IdleJob EXCEPT !.pc = "channel", !.op = "register", !.dev = d]
  <2>1. j.pc = "channel" /\ j.op = "register" /\ j.dev = d
    BY DEF IdleJob
  <2>2. job' = [job EXCEPT ![r] = j] /\ "register" \in Ops /\ (Overlap \/ Quiet(d))
    BY <1>3 DEF Register, Arrives
  <2> HIDE DEF j
  <2>3. job'[r] = j
    BY <1>2, <2>2
  <2> QED BY <1>3, <2>1, <2>2, <2>3 DEF ArrivalKnows
<1>4. ASSUME NEW d \in Device, NEW op \in Ops, NEW c \in Body, CheckConfig(r, op, d, c)
      PROVE  UNCHANGED devices /\ (job'[r].pc = "done" \/ ArrivalKnows(r))
  BY <1>4, CheckConfigEffect
<1>5. ASSUME NEW d \in Device, NEW o \in Org \cup {None}, NEW n \in Name \cup {None},
             UpdateMeta(r, d, o, n)
      PROVE  UNCHANGED devices /\ (job'[r].pc = "done" \/ ArrivalKnows(r))
  <2> DEFINE rec == Edited(devices[d], o, n)
             j == [IdleJob EXCEPT !.pc = "reinsert", !.op = "meta", !.dev = d, !.seen = rec]
  <2>1. UNCHANGED devices /\ "meta" \in Ops /\ (Overlap \/ Quiet(d))
    BY <1>5 DEF UpdateMeta, Arrives, storeVars
  <2>2. CASE Present(d)
    <3>1. devices[d] \in Record
      BY <2>2 DEF Present, TypeInv, TypeOK
    <3>2. SameButHost(rec.cfg, devices[d].cfg)
      BY <3>1, EditedType
    <3>3. job' = [job EXCEPT ![r] = j]
      BY <1>5, <2>2 DEF UpdateMeta
    <3> HIDE DEF rec
    <3>4. j.pc = "reinsert" /\ j.op = "meta" /\ j.dev = d /\ j.seen = rec
      BY DEF IdleJob
    <3> HIDE DEF j
    <3>5. job'[r] = j
      BY <1>2, <3>3
    <3> QED BY <2>1, <2>2, <3>2, <3>4, <3>5 DEF ArrivalKnows
  <2>3. CASE ~ Present(d)
    BY <1>5, <2>1, <2>3, AnswerEnds DEF UpdateMeta
  <2> QED BY <2>2, <2>3
<1>6. ASSUME NEW d \in Device, Delete(r, d)
      PROVE  UNCHANGED devices /\ (job'[r].pc = "done" \/ ArrivalKnows(r))
  <2> DEFINE j == [IdleJob EXCEPT !.pc = "remove", !.op = "delete", !.dev = d]
  <2>1. j.pc = "remove" /\ j.op = "delete" /\ j.dev = d
    BY DEF IdleJob
  <2>2. /\ job' = [job EXCEPT ![r] = j] \/ Answer(r, "delete", 404)
        /\ UNCHANGED devices /\ "delete" \in Ops /\ (Overlap \/ Quiet(d))
    BY <1>6 DEF Delete, Arrives, storeVars
  <2> HIDE DEF j
  <2>3. CASE job' = [job EXCEPT ![r] = j]
    <3>1. job'[r] = j
      BY <1>2, <2>3
    <3> QED BY <2>1, <2>2, <3>1 DEF ArrivalKnows
  <2> QED BY <2>2, <2>3, AnswerEnds
<1>7. ASSUME NEW d \in Device, NEW o \in Org, NEW ks \in Frame, PostTelemetry(r, d, o, ks)
      PROVE  UNCHANGED devices /\ (job'[r].pc = "done" \/ ArrivalKnows(r))
  <2> DEFINE j == [IdleJob EXCEPT !.pc = "frame", !.op = "telemetry", !.dev = d, !.keys = ks]
  <2>1. j.pc = "frame" /\ j.op = "telemetry" /\ j.dev = d
    BY DEF IdleJob
  <2>2. /\ \/ job' = [job EXCEPT ![r] = j]
           \/ Answer(r, "telemetry", 404) \/ Answer(r, "telemetry", 403)
        /\ UNCHANGED devices /\ "telemetry" \in Ops /\ (Overlap \/ Quiet(d))
    BY <1>7 DEF PostTelemetry, Arrives, storeVars
  <2> HIDE DEF j
  <2>3. CASE job' = [job EXCEPT ![r] = j]
    <3>1. job'[r] = j
      BY <1>2, <2>3
    <3> QED BY <2>1, <2>2, <3>1 DEF ArrivalKnows
  <2> QED BY <2>2, <2>3, AnswerEnds
<1> QED BY <1>1, <1>3, <1>4, <1>5, <1>6, <1>7 DEF Arrive

LEMMA ProceedMoves ==
  ASSUME TypeInv, NEW r \in Request, NEW pc, Proceed(r, pc)
  PROVE  /\ job'[r].pc = pc /\ job'[r].dev = job[r].dev /\ job'[r].op = job[r].op
         /\ job'[r].cfg = job[r].cfg /\ job'[r].seen = job[r].seen
         /\ job'[r].keys = job[r].keys
<1>1. job \in [Request -> Job] /\ job[r] \in Job
  BY DEF TypeInv, TypeOK
<1> DEFINE j == [job[r] EXCEPT !.pc = pc]
<1>2. /\ j.pc = pc /\ j.dev = job[r].dev /\ j.op = job[r].op /\ j.cfg = job[r].cfg
      /\ j.seen = job[r].seen /\ j.keys = job[r].keys
  BY <1>1 DEF Job
<1>3. job' = [job EXCEPT ![r] = j]
  BY DEF Proceed
<1> HIDE DEF j
<1> QED BY <1>1, <1>2, <1>3

\* Where a handler that runs on gets to.
ContinuesTo(r) ==
  LET j == job'[r] IN
  /\ j.dev = job[r].dev /\ j.op = job[r].op /\ j.cfg = job[r].cfg /\ j.seen = job[r].seen
  /\ j.pc \in {"send", "drop_channel", "drop_telemetry", "drop_flags", "flags", "alert"}
  /\ j.pc = "send" => ReplaceConfig(r) /\ Present(job[r].dev)
  /\ j.pc = "drop_channel" => RemoveDevice(r) /\ Present(job[r].dev)
  /\ j.pc = "drop_telemetry" => DropChannel(r)
  /\ j.pc = "drop_flags" => DropTelemetry(r)
  /\ j.pc = "flags" => InsertTelemetry(r) /\ j.keys = job[r].keys
  /\ j.pc = "alert" => NewAlertFlags(r) \/ PushAlert(r)

LEMMA ContinueEffect ==
  ASSUME TypeInv, NEW r \in Request, Continue(r)
  PROVE  /\ InFlight(r) /\ job[r].dev \in Device
         /\ job'[r].pc = "done" \/ ContinuesTo(r)
<1>1. job \in [Request -> Job] /\ job[r] \in Job
  BY DEF TypeInv, TypeOK
<1>2. job[r].pc \notin {"idle", "done"}
  BY DEF Continue, RegisterChannel, ReplaceConfig, SendConfig, Reinsert, RemoveDevice,
         DropChannel, DropTelemetry, DropFlags, InsertTelemetry, NewAlertFlags, PushAlert
<1>3. InFlight(r) /\ job[r].dev \in Device
  BY <1>2 DEF InFlight, TypeInv, HandlerOK, LocalsOK
<1>4. CASE RegisterChannel(r) \/ SendConfig(r) \/ Reinsert(r) \/ DropFlags(r)
  BY <1>3, <1>4, AnswerEnds DEF RegisterChannel, SendConfig, Reinsert, DropFlags
<1>5. CASE ReplaceConfig(r)
  <2>1. CASE Present(job[r].dev)
    <3>1. Proceed(r, "send")
      BY <1>5, <2>1 DEF ReplaceConfig
    <3> QED BY <1>3, <1>5, <2>1, <3>1, ProceedMoves DEF ContinuesTo
  <2>2. CASE ~ Present(job[r].dev)
    BY <1>3, <1>5, <2>2, AnswerEnds DEF ReplaceConfig
  <2> QED BY <2>1, <2>2
<1>6. CASE RemoveDevice(r)
  <2>1. CASE Present(job[r].dev)
    <3>1. Proceed(r, "drop_channel")
      BY <1>6, <2>1 DEF RemoveDevice
    <3> QED BY <1>3, <1>6, <2>1, <3>1, ProceedMoves DEF ContinuesTo
  <2>2. CASE ~ Present(job[r].dev)
    BY <1>3, <1>6, <2>2, AnswerEnds DEF RemoveDevice
  <2> QED BY <2>1, <2>2
<1>7. CASE DropChannel(r)
  <2>1. Proceed(r, "drop_telemetry")
    BY <1>7 DEF DropChannel
  <2> QED BY <1>3, <1>7, <2>1, ProceedMoves DEF ContinuesTo
<1>8. CASE DropTelemetry(r)
  <2>1. Proceed(r, "drop_flags")
    BY <1>8 DEF DropTelemetry
  <2> QED BY <1>3, <1>8, <2>1, ProceedMoves DEF ContinuesTo
<1>9. CASE InsertTelemetry(r)
  <2>1. Proceed(r, "flags")
    BY <1>9 DEF InsertTelemetry
  <2> QED BY <1>3, <1>9, <2>1, ProceedMoves DEF ContinuesTo
<1>10. CASE NewAlertFlags(r) \/ PushAlert(r)
  <2>1. CASE Answer(r, "telemetry", 200)
    BY <1>3, <2>1, AnswerEnds
  <2>2. CASE ~ Answer(r, "telemetry", 200)
    <3>1. PICK ks, prev : job' = [job EXCEPT ![r] = [job[r] EXCEPT !.pc = "alert",
                                                          !.keys = ks, !.prev = prev]]
      <4>1. CASE NewAlertFlags(r)
        <5>1. job' = [job EXCEPT ![r].pc = "alert", ![r].prev = Alerted(job[r].dev)]
          BY <2>2, <4>1 DEF NewAlertFlags
        <5>2. job' = [job EXCEPT ![r] = [job[r] EXCEPT !.pc = "alert", !.keys = job[r].keys,
                                                       !.prev = Alerted(job[r].dev)]]
          BY <1>1, <5>1 DEF Job
        <5> QED BY <5>2
      <4>2. CASE PushAlert(r)
        <5>1. job' = [job EXCEPT ![r].keys = Tail(@)] /\ job[r].pc = "alert"
          BY <2>2, <4>2 DEF PushAlert
        <5>2. job' = [job EXCEPT ![r] = [job[r] EXCEPT !.pc = "alert",
                                           !.keys = Tail(job[r].keys), !.prev = job[r].prev]]
          BY <1>1, <5>1 DEF Job
        <5> QED BY <5>2
      <4> QED BY <1>10, <4>1, <4>2
    <3> DEFINE j == [job[r] EXCEPT !.pc = "alert", !.keys = ks, !.prev = prev]
    <3>2. /\ j.pc = "alert" /\ j.dev = job[r].dev /\ j.op = job[r].op /\ j.cfg = job[r].cfg
          /\ j.seen = job[r].seen
      BY <1>1 DEF Job
    <3>3. job' = [job EXCEPT ![r] = j]
      BY <3>1
    <3> HIDE DEF j
    <3>4. job'[r] = j
      BY <1>1, <3>3
    <3> QED BY <1>3, <1>10, <3>2, <3>4 DEF ContinuesTo
  <2> QED BY <2>1, <2>2
<1> QED BY <1>4, <1>5, <1>6, <1>7, <1>8, <1>9, <1>10 DEF Continue

\* A step is one of a handler, or leaves handlers, records and telemetry alone.
LEMMA StepOwner ==
  ASSUME TypeInv, [Next]_vars
  PROVE  \/ UNCHANGED <<job, devices, alertVars>>
         \/ \E r \in Request : /\ Arrive(r) \/ Continue(r)
                               /\ \A q \in Request \ {r} : job'[q] = job[q]
<1>1. ASSUME NEW r \in Request, Arrive(r) \/ Continue(r)
      PROVE  \A q \in Request \ {r} : job'[q] = job[q]
  BY <1>1, OwnStep
<1>2. ASSUME NEW s \in Stream,
             StreamStep(s) \/ ClientLeaves(s) \/ \E d \in Device : OpenStream(s, d)
      PROVE  UNCHANGED <<job, devices, alertVars>>
  BY <1>2 DEF StreamStep, Subscribe, Forward, EndStream, ClientLeaves, OpenStream,
              storeVars, alertVars
<1>3. UNCHANGED vars => UNCHANGED <<job, devices, alertVars>>
  BY DEF vars, alertVars
<1> QED BY <1>1, <1>2, <1>3 DEF Next

\* The steps that touch a device's record.
LEMMA RecordEffect ==
  ASSUME TypeInv, NEW r \in Request, Arrive(r) \/ Continue(r), NEW d \in Device,
         devices'[d] # devices[d]
  PROVE  \/ /\ job'[r].pc = "channel" /\ job'[r].dev = d /\ Arrive(r)
            /\ \E o \in Org, n \in Name, v \in Registered :
                 devices'[d] = [org |-> o, cfg |-> EmptyConfig(d, o, n, v)]
         \/ /\ ReplaceConfig(r) /\ job[r].dev = d /\ Present(d) /\ Present(d)'
            /\ devices'[d].cfg = job[r].cfg
         \/ Reinsert(r) /\ job[r].seen.cfg.dev = d /\ devices'[d] = job[r].seen
         \/ RemoveDevice(r) /\ job[r].dev = d /\ ~ Present(d)'
<1>1. devices \in [Device -> Record \cup {None}]
  BY DEF TypeInv, TypeOK
<1>2. CASE Arrive(r)
  <2>1. ArrivalKnows(r) /\ job'[r].pc = "channel"
    BY <1>2, ArriveEffect DEF ArrivalKnows
  <2>2. PICK o \in Org, n \in Name, v \in Registered : Register(r, job'[r].dev, o, n, v)
    BY <2>1 DEF ArrivalKnows
  <2>3. devices' = [devices EXCEPT ![job'[r].dev] =
                      [org |-> o, cfg |-> EmptyConfig(job'[r].dev, o, n, v)]]
    BY <2>2 DEF Register
  <2>4. job'[r].dev = d
    BY <1>1, <2>3
  <2>5. devices'[d] = [org |-> o, cfg |-> EmptyConfig(d, o, n, v)]
    BY <1>1, <2>3, <2>4
  <2> QED BY <1>2, <2>1, <2>4, <2>5
<1>3. CASE ReplaceConfig(r)
  <2>1. job[r].dev \in Device /\ job[r].cfg \in Config
    BY <1>3 DEF ReplaceConfig, TypeInv, HandlerOK, LocalsOK
  <2>2. Present(job[r].dev) /\ devices' = [devices EXCEPT ![job[r].dev].cfg = job[r].cfg]
    BY <1>3 DEF ReplaceConfig
  <2> DEFINE rec == [devices[job[r].dev] EXCEPT !.cfg = job[r].cfg]
  <2>3. devices' = [devices EXCEPT ![job[r].dev] = rec]
    BY <2>2
  <2>4. rec \in Record /\ rec.cfg = job[r].cfg
    BY <1>1, <2>1, <2>2 DEF Present, Record
  <2> HIDE DEF rec
  <2>5. job[r].dev = d /\ devices'[d] = rec
    BY <1>1, <2>1, <2>3
  <2> QED BY <1>3, <2>2, <2>4, <2>5 DEF Present
<1>4. CASE Reinsert(r)
  <2>1. devices' = [devices EXCEPT ![job[r].seen.cfg.dev] = job[r].seen]
    BY <1>4 DEF Reinsert
  <2> QED BY <1>1, <1>4, <2>1
<1>5. CASE RemoveDevice(r)
  BY <1>1, <1>5 DEF RemoveDevice, Present
<1>6. CASE Continue(r) /\ ~ ReplaceConfig(r) /\ ~ Reinsert(r) /\ ~ RemoveDevice(r)
  BY <1>6 DEF Continue, RegisterChannel, SendConfig, DropChannel, DropTelemetry, DropFlags,
         InsertTelemetry, NewAlertFlags, PushAlert, storeVars
<1> QED BY <1>2, <1>3, <1>4, <1>5, <1>6

-----------------------------------------------------------------------------
(* A device whose requests are served one at a time.                       *)

\* At most one handler works on d.
Alone(d) ==
  \A q, r \in Request :
    InFlight(q) /\ InFlight(r) /\ job[q].dev = d /\ job[r].dev = d => q = r

\* The configurations that name d are those stored under d, or on their way there.
Named(d) ==
  /\ \A e \in Device : Present(e) => (devices[e].cfg.dev = d <=> e = d)
  /\ \A r \in Request :
       /\ job[r].pc \in {"replace", "send"} => (job[r].cfg.dev = d <=> job[r].dev = d)
       /\ job[r].pc = "reinsert" => (job[r].seen.cfg.dev = d <=> job[r].dev = d)

\* What the handler of d has read is still what is stored.
UpToDate(d) ==
  \A r \in Request : job[r].dev = d =>
    /\ job[r].pc = "replace" => /\ Present(d) /\ job[r].seen = devices[d]
                                /\ IsStrictlyNewerThan(job[r].cfg, devices[d].cfg)
    /\ job[r].pc = "send" => Present(d) /\ job[r].cfg = devices[d].cfg
    /\ job[r].pc = "reinsert" => Present(d) /\ SameButHost(job[r].seen.cfg, devices[d].cfg)

Sequential(d) == Alone(d) /\ Named(d) /\ UpToDate(d)

\* A request that passes its check in this step names d if and only if it is
\* for d, and then it is an apply.
ProperArrival(d) ==
  \A r \in Request : job[r].pc = "idle" /\ job'[r].pc = "replace" =>
    /\ job'[r].cfg.dev = d <=> job'[r].dev = d
    /\ job'[r].dev = d => job'[r].op = "apply"

LEMMA ReplaceStores ==
  ASSUME TypeInv, NEW r \in Request, ReplaceConfig(r), Present(job[r].dev)
  PROVE  /\ Present(job[r].dev)' /\ devices'[job[r].dev].cfg = job[r].cfg
         /\ job'[r].pc = "send" /\ job'[r].dev = job[r].dev
<1>1. devices \in [Device -> Record \cup {None}] /\ job[r].dev \in Device /\ job[r].cfg \in Config
      /\ job \in [Request -> Job]
  BY DEF ReplaceConfig, TypeInv, TypeOK, HandlerOK, LocalsOK
<1> DEFINE rec == [devices[job[r].dev] EXCEPT !.cfg = job[r].cfg]
<1>2. devices' = [devices EXCEPT ![job[r].dev] = rec]
  BY DEF ReplaceConfig
<1>3. rec \in Record /\ rec.cfg = job[r].cfg
  BY <1>1 DEF Present, Record
<1> HIDE DEF rec
<1>4. devices'[job[r].dev] = rec
  BY <1>1, <1>2
<1>5. job'[r].pc = "send" /\ job'[r].dev = job[r].dev
  BY ProceedMoves DEF ReplaceConfig
<1> QED BY <1>3, <1>4, <1>5 DEF Present

\* While d has one handler at a time, nothing changes its record behind it.
LEMMA RecordOwner ==
  ASSUME TypeInv, NEW r \in Request, Arrive(r) \/ Continue(r), NEW d \in Device,
         Named(d), devices'[d] # devices[d]
  PROVE  (InFlight(r) /\ job[r].dev = d) \/ (InFlight(r)' /\ job'[r].dev = d)
<1>1. CASE job'[r].pc = "channel" /\ job'[r].dev = d
  BY <1>1 DEF InFlight
<1>2. CASE ReplaceConfig(r) /\ job[r].dev = d
  BY <1>2 DEF ReplaceConfig, InFlight
<1>3. CASE RemoveDevice(r) /\ job[r].dev = d
  BY <1>3 DEF RemoveDevice, InFlight
<1>4. CASE Reinsert(r) /\ job[r].seen.cfg.dev = d
  BY <1>4 DEF Reinsert, InFlight, Named
<1> QED BY <1>1, <1>2, <1>3, <1>4, RecordEffect

LEMMA SequentialStep ==
  ASSUME TypeInv, [Next]_vars, NEW d \in Device, Sequential(d), Alone(d)', ProperArrival(d)
  PROVE  Sequential(d)'
<1> USE DEF Sequential
<1>1. CASE UNCHANGED <<job, devices, alertVars>>
  BY <1>1 DEF Named, UpToDate, Present
<1>2. ASSUME NEW r \in Request, Arrive(r) \/ Continue(r),
             \A q \in Request \ {r} : job'[q] = job[q]
      PROVE  Sequential(d)'
  <2>1. Arrive(r) => /\ job[r].pc = "idle"
                     /\ (job'[r].pc = "done" /\ UNCHANGED devices) \/ ArrivalKnows(r)
    BY ArriveEffect
  <2>2. Continue(r) => InFlight(r) /\ (job'[r].pc = "done" \/ ContinuesTo(r))
    BY ContinueEffect
  <2>3. Named(d)'
    <3>1. ASSUME NEW e \in Device, Present(e)'
          PROVE  devices'[e].cfg.dev = d <=> e = d
      <4>1. CASE devices'[e] = devices[e]
        BY <3>1, <4>1 DEF Named, Present
      <4>2. CASE devices'[e] # devices[e]
        <5>1. ASSUME NEW o \in Org, NEW n \in Name, NEW v \in Registered,
                     devices'[e] = [org |-> o, cfg |-> EmptyConfig(e, o, n, v)]
              PROVE  devices'[e].cfg.dev = e
          BY <5>1 DEF EmptyConfig
        <5>2. \/ devices'[e].cfg.dev = e
              \/ ReplaceConfig(r) /\ job[r].dev = e /\ devices'[e].cfg = job[r].cfg
          BY <1>2, <3>1, <4>2, <5>1, RecordEffect
        <5> QED BY <5>2 DEF Named, ReplaceConfig
      <4> QED BY <4>1, <4>2
    <3>2. ASSUME NEW q \in Request, job'[q].pc \in {"replace", "send"}
          PROVE  job'[q].cfg.dev = d <=> job'[q].dev = d
      <4>1. CASE q # r
        BY <1>2, <3>2, <4>1 DEF Named
      <4>2. CASE q = r /\ Arrive(r)
        BY <2>1, <3>2, <4>2 DEF ArrivalKnows, ProperArrival
      <4>3. CASE q = r /\ Continue(r)
        BY <2>2, <3>2, <4>3 DEF ContinuesTo, Named, ReplaceConfig
      <4> QED BY <1>2, <4>1, <4>2, <4>3
    <3>3. ASSUME NEW q \in Request, job'[q].pc = "reinsert"
          PROVE  job'[q].seen.cfg.dev = d <=> job'[q].dev = d
      <4>1. CASE q # r
        BY <1>2, <3>3, <4>1 DEF Named
      <4>2. CASE q = r /\ Arrive(r)
        BY <2>1, <3>3, <4>2 DEF ArrivalKnows, Named, SameButHost
      <4>3. CASE q = r /\ Continue(r)
        BY <2>2, <3>3, <4>3 DEF ContinuesTo
      <4> QED BY <1>2, <4>1, <4>2, <4>3
    <3> QED BY <3>1, <3>2, <3>3 DEF Named
  <2>4. UpToDate(d)'
    <3>1. ASSUME NEW q \in Request, job'[q].dev = d, q # r
          PROVE  /\ job'[q].pc = "replace" => /\ Present(d)' /\ job'[q].seen = devices'[d]
                                     /\ IsStrictlyNewerThan(job'[q].cfg, devices'[d].cfg)
                 /\ job'[q].pc = "send" => Present(d)' /\ job'[q].cfg = devices'[d].cfg
                 /\ job'[q].pc = "reinsert" =>
                      Present(d)' /\ SameButHost(job'[q].seen.cfg, devices'[d].cfg)
      <4>1. job'[q] = job[q]
        BY <1>2, <3>1
      <4>2. InFlight(q) => devices'[d] = devices[d]
        BY <1>2, <3>1, <4>1, RecordOwner DEF Alone, InFlight
      <4> QED BY <3>1, <4>1, <4>2 DEF UpToDate, InFlight, Present
    <3>2. ASSUME job'[r].dev = d
          PROVE  /\ job'[r].pc = "replace" => /\ Present(d)' /\ job'[r].seen = devices'[d]
                                     /\ IsStrictlyNewerThan(job'[r].cfg, devices'[d].cfg)
                 /\ job'[r].pc = "send" => Present(d)' /\ job'[r].cfg = devices'[d].cfg
                 /\ job'[r].pc = "reinsert" =>
                      Present(d)' /\ SameButHost(job'[r].seen.cfg, devices'[d].cfg)
      <4>1. CASE Arrive(r)
        BY <2>1, <3>2, <4>1 DEF ArrivalKnows, ProperArrival, Present
      <4>2. CASE Continue(r)
        BY <2>2, <3>2, <4>2, ReplaceStores DEF ContinuesTo, Present
      <4> QED BY <1>2, <4>1, <4>2
    <3> QED BY <3>1, <3>2 DEF UpToDate
  <2> QED BY <2>3, <2>4
<1> QED BY <1>1, <1>2, StepOwner

\* Clients that wait for each answer keep a device at one handler.
LEMMA AloneStep ==
  ASSUME ~ Overlap, TypeInv, [Next]_vars, NEW d \in Device, Alone(d)
  PROVE  Alone(d)'
<1>1. CASE UNCHANGED <<job, devices, alertVars>>
  BY <1>1 DEF Alone, InFlight
<1>2. ASSUME NEW r \in Request, Arrive(r) \/ Continue(r),
             \A q \in Request \ {r} : job'[q] = job[q]
      PROVE  Alone(d)'
  <2>1. CASE Arrive(r)
    BY <1>2, <2>1, ArriveEffect DEF ArrivalKnows, Alone, Quiet, InFlight
  <2>2. CASE Continue(r)
    BY <1>2, <2>2, ContinueEffect DEF ContinuesTo, Alone, InFlight
  <2> QED BY <1>2, <2>1, <2>2
<1> QED BY <1>1, <1>2, StepOwner

LEMMA SequentialInit == ASSUME NEW d \in Device PROVE Init => Sequential(d)
<1> SUFFICES ASSUME Init PROVE Sequential(d)
  OBVIOUS
<1>1. \A r \in Request : job[r].pc = "idle"
  BY IdleJobType DEF Init
<1>2. \A e \in Device : ~ Present(e)
  BY DEF Init, Present
<1> QED BY <1>1, <1>2 DEF Sequential, Alone, Named, UpToDate, InFlight

-----------------------------------------------------------------------------
(* Whose channel is whose.                                                 *)

\* A channel belongs to one device, and its streams are that device's.
Owned ==
  /\ \A d, e \in Device : chan[d] # 0 /\ chan[d] = chan[e] => d = e
  /\ \A s \in Stream, d \in Device :
       stream[s].chan # 0 /\ chan[d] = stream[s].chan => stream[s].dev = d

\* What a step does to one stream.
Opens(s) == stream[s].pc = "idle" /\ stream'[s].pc = "upgrading" /\ stream'[s].chan = 0
            /\ UNCHANGED sent
Subscribes(s) ==
  /\ Subscribe(s)
  /\ stream'[s].pc = "open" /\ stream'[s].dev = stream[s].dev
  /\ stream'[s].chan = chan'[stream[s].dev] /\ stream'[s].chan \in 1 .. Len(logs')
  /\ stream'[s].pos = Len(logs'[stream'[s].chan])
Forwards(s) ==
  /\ Forward(s) /\ stream'[s].pc = "open" /\ stream'[s].dev = stream[s].dev
  /\ stream'[s].chan = stream[s].chan /\ stream'[s].pos = stream[s].pos + 1
Stays(s) ==
  /\ stream'[s].pc = stream[s].pc \/ (stream[s].pc = "open" /\ stream'[s].pc = "ended")
  /\ stream'[s].dev = stream[s].dev /\ stream'[s].chan = stream[s].chan
  /\ stream'[s].pos = stream[s].pos /\ sent'[s] = sent[s]

LEMMA StreamEffect ==
  ASSUME TypeInv, [Next]_vars, NEW s \in Stream
  PROVE  Opens(s) \/ Subscribes(s) \/ Forwards(s) \/ Stays(s)
<1> USE DEF TypeInv
<1>1. stream \in [Stream -> StreamTask] /\ stream[s] \in StreamTask /\ sent \in [Stream -> Seq(Config)]
  BY DEF TypeOK
<1>2. ASSUME NEW q \in Stream \ {s},
             StreamStep(q) \/ ClientLeaves(q) \/ \E d \in Device : OpenStream(q, d)
      PROVE  Stays(s)
  <2>1. \/ UNCHANGED stream
        \/ \E t : stream' = [stream EXCEPT ![q] = t]
    BY <1>2 DEF StreamStep, Subscribe, Forward, EndStream, ClientLeaves, OpenStream
  <2>2. UNCHANGED sent \/ \E t : sent' = [sent EXCEPT ![q] = t]
    BY <1>2 DEF StreamStep, Subscribe, Forward, EndStream, ClientLeaves, OpenStream
  <2> QED BY <1>1, <2>1, <2>2 DEF Stays
<1>3. ASSUME NEW d \in Device, OpenStream(s, d)
      PROVE  Opens(s)
  <2> DEFINE t == [IdleStream EXCEPT !.pc = "upgrading", !.dev = d]
  <2>1. t.pc = "upgrading" /\ t.chan = 0
    BY DEF IdleStream
  <2>2. stream' = [stream EXCEPT ![s] = t]
    BY <1>3 DEF OpenStream
  <2> HIDE DEF t
  <2> QED BY <1>1, <1>3, <2>1, <2>2 DEF Opens, OpenStream
<1>4. CASE EndStream(s) \/ ClientLeaves(s)
  BY <1>1, <1>4 DEF EndStream, ClientLeaves, Stays, StreamTask
<1>5. CASE Forward(s)
  BY <1>1, <1>5 DEF Forward, Forwards, StreamTask
<1>6. CASE Subscribe(s)
  <2> DEFINE d == stream[s].dev
             t(ch, n) == [stream[s] EXCEPT !.pc = "open", !.chan = ch, !.from = n, !.pos = n]
  <2>1. d \in Device
    BY <1>6 DEF Subscribe, StreamOK
  <2>2. \A ch, n : /\ t(ch, n).pc = "open" /\ t(ch, n).chan = ch /\ t(ch, n).pos = n
                   /\ t(ch, n).dev = d
    BY <1>1 DEF StreamTask
  <2>3. CASE chan[d] = 0
    <3>1. NewChannel(d) /\ stream' = [stream EXCEPT ![s] = t(Len(logs) + 1, 0)]
      BY <1>6, <2>3 DEF Subscribe
    <3>2. /\ Len(logs') = Len(logs) + 1 /\ logs'[Len(logs) + 1] = <<>> /\ Len(logs) \in Nat
          /\ Len(<<>>) = 0
      BY <2>1, <3>1, NewChannelEffect DEF TypeOK
    <3> DEFINE u == t(Len(logs) + 1, 0)
    <3>3. u.pc = "open" /\ u.chan = Len(logs) + 1 /\ u.pos = 0 /\ u.dev = d
      BY <2>2
    <3>4. stream' = [stream EXCEPT ![s] = u]
      BY <3>1
    <3> HIDE DEF t, u
    <3>5. stream'[s] = u
      BY <1>1, <3>4
    <3>6. chan'[d] = Len(logs) + 1
      BY <2>1, <3>1 DEF NewChannel, TypeOK
    <3> QED BY <1>6, <3>2, <3>3, <3>5, <3>6 DEF Subscribes
  <2>4. CASE chan[d] # 0
    <3> DEFINE u == t(chan[d], Len(logs[chan[d]]))
    <3>1. stream' = [stream EXCEPT ![s] = u] /\ UNCHANGED <<chan, logs>>
      BY <1>6, <2>4 DEF Subscribe
    <3>2. u.pc = "open" /\ u.chan = chan[d] /\ u.pos = Len(logs[chan[d]]) /\ u.dev = d
      BY <2>2
    <3> HIDE DEF t, u
    <3>3. stream'[s] = u
      BY <1>1, <3>1
    <3>4. chan[d] \in 1 .. Len(logs)
      BY <2>1, <2>4 DEF TypeOK
    <3> QED BY <1>6, <3>1, <3>2, <3>3, <3>4 DEF Subscribes
  <2> QED BY <2>3, <2>4
<1>7. ASSUME NEW r \in Request, Arrive(r) \/ Continue(r)
      PROVE  Stays(s)
  BY <1>7, HandlerLogs DEF streamVars, Stays
<1>8. CASE UNCHANGED vars
  BY <1>8 DEF vars, Stays
<1> QED BY <1>2, <1>3, <1>4, <1>5, <1>6, <1>7, <1>8 DEF Next, StreamStep

\* Channels are made, dropped, and sent on.
LEMMA ChannelEffect ==
  ASSUME TypeInv, [Next]_vars
  PROVE  /\ \/ UNCHANGED chan
            \/ \E d \in Device : NewChannel(d)
            \/ \E d \in Device : chan' = [chan EXCEPT ![d] = 0]
         /\ \A ch \in 1 .. Len(logs) :
              \/ logs'[ch] = logs[ch]
              \/ \E r \in Request : /\ SendConfig(r) /\ chan[job[r].cfg.dev] = ch
                                    /\ logs'[ch] = Append(logs[ch], job[r].cfg)
<1> USE DEF TypeInv
<1>1. ASSUME NEW d \in Device, NewChannel(d)
      PROVE  \A ch \in 1 .. Len(logs) : logs'[ch] = logs[ch]
  BY <1>1, NewChannelEffect
<1>2. ASSUME NEW r \in Request, Arrive(r) \/ Continue(r)
      PROVE  \/ UNCHANGED <<chan, logs>>
             \/ \E d \in Device : NewChannel(d)
             \/ UNCHANGED logs /\ \E d \in Device : chan' = [chan EXCEPT ![d] = 0]
             \/ SendConfig(r)
  <2>1. InFlight(r) => job[r].dev \in Device
    BY DEF InFlight, HandlerOK, LocalsOK
  <2>2. RegisterChannel(r) => NewChannel(job[r].dev) /\ InFlight(r)
    BY DEF RegisterChannel, InFlight
  <2>3. DropChannel(r) => /\ UNCHANGED logs /\ chan' = [chan EXCEPT ![job[r].dev] = 0]
                          /\ InFlight(r)
    BY DEF DropChannel, InFlight
  <2>4. CASE ~ RegisterChannel(r) /\ ~ DropChannel(r) /\ ~ SendConfig(r)
    BY <1>2, <2>4 DEF Arrive, Register, CheckConfig, UpdateMeta, Delete, PostTelemetry, Continue,
         ReplaceConfig, Reinsert, RemoveDevice, DropTelemetry, DropFlags, InsertTelemetry,
         NewAlertFlags, PushAlert, storeVars
  <2> QED BY <2>1, <2>2, <2>3, <2>4
<1>3. ASSUME NEW r \in Request, SendConfig(r), NEW ch \in 1 .. Len(logs)
      PROVE  \/ logs'[ch] = logs[ch]
             \/ chan[job[r].cfg.dev] = ch /\ logs'[ch] = Append(logs[ch], job[r].cfg)
  <2> DEFINE k   == chan[job[r].cfg.dev]
             log == Append(logs[k], job[r].cfg)
  <2>1. logs' = IF k = 0 THEN logs ELSE [logs EXCEPT ![k] = log]
    BY <1>3 DEF SendConfig
  <2> HIDE DEF k, log
  <2>2. logs'[ch] = logs[ch] \/ (k = ch /\ logs'[ch] = log)
    BY <2>1 DEF TypeOK
  <2> QED BY <2>2 DEF k, log
<1>4. ASSUME NEW s \in Stream,
             StreamStep(s) \/ ClientLeaves(s) \/ \E d \in Device : OpenStream(s, d)
      PROVE  UNCHANGED <<chan, logs>> \/ \E d \in Device : NewChannel(d)
  <2>1. Subscribe(s) => /\ stream[s].dev \in Device
                        /\ UNCHANGED <<chan, logs>> \/ NewChannel(stream[s].dev)
    BY DEF Subscribe, StreamOK
  <2>2. ~ Subscribe(s) => UNCHANGED <<chan, logs>>
    BY <1>4 DEF StreamStep, Forward, EndStream, ClientLeaves, OpenStream, storeVars
  <2> QED BY <2>1, <2>2
<1>5. CASE UNCHANGED vars
  BY <1>5 DEF vars
<1>6. ASSUME NEW r \in Request, SendConfig(r)
      PROVE  UNCHANGED chan
  BY <1>6 DEF SendConfig
<1> QED BY <1>1, <1>2, <1>3, <1>4, <1>5, <1>6 DEF Next

LEMMA OwnedStep ==
  ASSUME TypeInv, Owned, [Next]_vars
  PROVE  Owned'
<1> DEFINE size == Len(logs)
<1>1. chan \in [Device -> 0 .. size] /\ size \in Nat
  BY DEF TypeInv, TypeOK
<1>2. ASSUME NEW d \in Device
      PROVE  \/ chan'[d] = chan[d] \/ chan'[d] = 0
             \/ chan'[d] = size + 1 /\ \A e \in Device \ {d} : chan'[e] = chan[e]
  <2>1. \A e \in Device : NewChannel(e) => chan' = [chan EXCEPT ![e] = size + 1]
    BY DEF NewChannel
  <2> HIDE DEF size
  <2> QED BY <1>1, <2>1, ChannelEffect
<1> HIDE DEF size
<1>3. ASSUME NEW d \in Device, NEW e \in Device, chan'[d] # 0, chan'[d] = chan'[e]
      PROVE  d = e
  <2>1. chan[d] \in 0 .. size /\ chan[e] \in 0 .. size
    BY <1>1
  <2> QED BY <1>1, <1>2, <1>3, <2>1 DEF Owned
<1>4. ASSUME NEW s \in Stream, NEW d \in Device,
             stream'[s].chan # 0, chan'[d] = stream'[s].chan
      PROVE  stream'[s].dev = d
  <2>1. CASE Subscribes(s)
    <3>1. stream[s].dev \in Device
      BY <2>1 DEF Subscribes, Subscribe, TypeInv, StreamOK
    <3> QED BY <1>3, <1>4, <2>1, <3>1 DEF Subscribes
  <2>2. CASE Forwards(s) \/ Stays(s)
    <3>1. stream'[s].chan = stream[s].chan /\ stream'[s].dev = stream[s].dev
      BY <2>2 DEF Forwards, Stays
    <3>2. stream[s] \in StreamTask
      BY DEF TypeInv, TypeOK
    <3>3. stream[s].chan \in 1 .. size
      BY <1>4, <3>1, <3>2 DEF TypeInv, StreamOK, StreamTask, size
    <3>4. chan'[d] = chan[d]
      BY <1>1, <1>2, <1>4, <3>1, <3>3
    <3> QED BY <1>4, <3>1, <3>4 DEF Owned
  <2> QED BY <1>4, <2>1, <2>2, StreamEffect DEF Opens
<1> QED BY <1>3, <1>4 DEF Owned

LEMMA OwnedInit == Init => Owned
BY IdleStreamType DEF Init, Owned

-----------------------------------------------------------------------------
(* Clients that send one request at a time.                                *)

\* The bodies of configuration requests name the device of their path.
BodiesNamePath ==
  \A r \in Request : job[r].pc = "replace" => job[r].cfg.dev = job[r].dev

LEMMA ArrivalsProper ==
  ASSUME "put" \notin Ops, TypeInv, [Next]_vars, BodiesNamePath', NEW d \in Device
  PROVE  ProperArrival(d)
<1> SUFFICES ASSUME NEW r \in Request, job[r].pc = "idle", job'[r].pc = "replace"
             PROVE  job'[r].cfg.dev = job'[r].dev /\ job'[r].op = "apply"
  BY DEF ProperArrival
<1>1. PICK q \in Request : /\ Arrive(q) \/ Continue(q)
                           /\ \A p \in Request \ {q} : job'[p] = job[p]
  BY StepOwner
<1>2. q = r /\ Arrive(r)
  BY <1>1, ContinueEffect DEF InFlight
<1> QED BY <1>2, ArriveEffect DEF ArrivalKnows, BodiesNamePath

\* The stored revision of a device that is served one request at a time grows,
\* or keeps everything but its hostname.
LEMMA RevisionStep ==
  ASSUME TypeInv, [Next]_vars, NEW d \in Device, Sequential(d),
         Present(d), Present(d)', devices'[d].cfg # devices[d].cfg, ~ Registers(d)
  PROVE  \/ IsStrictlyNewerThan(devices'[d].cfg, devices[d].cfg)
         \/ SameButHost(devices'[d].cfg, devices[d].cfg)
<1>1. PICK r \in Request : Arrive(r) \/ Continue(r)
  BY StepOwner
<1>2. ASSUME Arrive(r), job'[r].pc = "channel", job'[r].dev = d
      PROVE  FALSE
  BY <1>2, ArriveEffect DEF Registers
<1>3. CASE ReplaceConfig(r) /\ job[r].dev = d
  BY <1>3, ReplaceStores DEF Sequential, UpToDate, ReplaceConfig
<1>4. CASE Reinsert(r) /\ job[r].seen.cfg.dev = d /\ devices'[d] = job[r].seen
  BY <1>4 DEF Sequential, Named, UpToDate, Reinsert
<1> QED BY <1>1, <1>2, <1>3, <1>4, RecordEffect

\* No handler of d is between storing a configuration, or a new record, and
\* what it then does to the channel.
Settled(d) == \A r \in Request : job[r].dev = d => job[r].pc \notin {"channel", "send"}

LastPush(d) ==
  chan[d] # 0 /\ logs[chan[d]] # <<>> =>
    SameButHost(logs[chan[d]][Len(logs[chan[d]])], devices[d].cfg)

PushInv(d) == Present(d) /\ Settled(d) => LastPush(d)

LEMMA LastPushStep ==
  ASSUME TypeInv, Owned, [Next]_vars, NEW d \in Device, Sequential(d), PushInv(d)
  PROVE  PushInv(d)'
<1> SUFFICES ASSUME Present(d)', Settled(d)', chan'[d] # 0
             PROVE  LastPush(d)'
  BY DEF PushInv, LastPush
<1> USE DEF Sequential
<1>1. /\ chan \in [Device -> 0 .. Len(logs)] /\ logs \in Seq(Seq(Config)) /\ Len(logs) \in Nat
  BY DEF TypeInv, TypeOK
<1>2. Present(d) /\ SameButHost(devices'[d].cfg, devices[d].cfg)
  <2>1. CASE devices'[d] = devices[d]
    BY <2>1 DEF Present, SameButHost
  <2>2. CASE devices'[d] # devices[d]
    <3>1. PICK r \in Request : Arrive(r) \/ Continue(r)
      BY <2>2, StepOwner
    <3>2. ~ (job'[r].pc = "channel" /\ job'[r].dev = d)
      BY DEF Settled
    <3>3. ~ (ReplaceConfig(r) /\ job[r].dev = d /\ Present(d))
      BY ReplaceStores DEF Settled
    <3>4. Reinsert(r) /\ job[r].seen.cfg.dev = d /\ devices'[d] = job[r].seen
      BY <2>2, <3>1, <3>2, <3>3, RecordEffect
    <3> QED BY <3>4 DEF Reinsert, Named, UpToDate
  <2> QED BY <2>1, <2>2
<1>3. ASSUME NewChannel(d)
      PROVE  LastPush(d)'
  <2>1. chan'[d] = Len(logs) + 1
    BY <1>1, <1>3 DEF NewChannel
  <2> QED BY <1>3, <2>1, NewChannelEffect DEF LastPush, TypeInv
<1>4. ASSUME NEW r \in Request, SendConfig(r), chan'[d] = chan[d],
             chan[job[r].cfg.dev] = chan[d],
             logs'[chan[d]] = Append(logs[chan[d]], job[r].cfg)
      PROVE  LastPush(d)'
  <2>1. job[r].cfg \in Config /\ job[r].cfg.dev \in Device
    BY <1>4 DEF SendConfig, TypeInv, HandlerOK, LocalsOK, Config
  <2>2. job[r].cfg.dev = d
    BY <1>4, <2>1 DEF Owned
  <2>3. job[r].cfg = devices[d].cfg
    BY <1>4, <2>2 DEF SendConfig, Named, UpToDate
  <2>4. logs[chan[d]] \in Seq(Config)
    BY <1>1, <1>4
  <2>5. logs'[chan'[d]][Len(logs'[chan'[d]])] = job[r].cfg
    BY <1>4, <2>1, <2>4
  <2> QED BY <1>2, <2>3, <2>5 DEF LastPush, SameButHost
<1>5. ASSUME chan'[d] = chan[d], logs'[chan[d]] = logs[chan[d]], ~ NewChannel(d)
      PROVE  LastPush(d)'
  <2>1. CASE Settled(d)
    BY <1>2, <1>5, <2>1 DEF PushInv, LastPush, SameButHost
  <2>2. CASE ~ Settled(d)
    <3>1. PICK r \in Request : job[r].dev = d /\ job[r].pc \in {"channel", "send"}
      BY <2>2 DEF Settled
    <3>2. PICK q \in Request : /\ Arrive(q) \/ Continue(q)
                               /\ \A p \in Request \ {q} : job'[p] = job[p]
      BY <3>1, StepOwner DEF Settled
    <3>3. r = q /\ Continue(r)
      BY <3>1, <3>2, ArriveEffect DEF Settled
    <3>4. RegisterChannel(r) \/ SendConfig(r)
      BY <3>1, <3>3 DEF Continue, ReplaceConfig, Reinsert, RemoveDevice, DropChannel,
           DropTelemetry, DropFlags, InsertTelemetry, NewAlertFlags, PushAlert
    <3>5. SendConfig(r) /\ chan[d] \in 1 .. Len(logs) /\ job[r].pc = "send"
      <4>1. ~ RegisterChannel(r)
        BY <1>5, <3>1 DEF RegisterChannel
      <4>2. chan[d] \in 1 .. Len(logs)
        BY <1>1, <1>5
      <4> QED BY <3>4, <4>1, <4>2 DEF SendConfig
    <3>6. job[r].cfg.dev = d
      BY <3>1, <3>5 DEF Named
    <3> DEFINE log == logs[chan[d]]
               new == Append(log, job[r].cfg)
    <3>7. logs' = [logs EXCEPT ![chan[d]] = new]
      BY <3>5, <3>6 DEF SendConfig
    <3>8. log \in Seq(Config)
      BY <1>1, <3>5
    <3>9. Len(new) = Len(log) + 1 /\ Len(log) \in Nat
      BY <3>8
    <3> HIDE DEF log, new
    <3>10. logs'[chan[d]] = new
      BY <1>1, <3>5, <3>7
    <3> QED BY <1>5, <3>9, <3>10 DEF log
  <2> QED BY <2>1, <2>2
<1>6. ASSUME chan'[d] = chan[d]
      PROVE  LastPush(d)'
  <2>1. chan[d] \in 1 .. Len(logs)
    BY <1>1, <1>6
  <2>2. \/ logs'[chan[d]] = logs[chan[d]]
        \/ \E r \in Request : /\ SendConfig(r) /\ chan[job[r].cfg.dev] = chan[d]
                              /\ logs'[chan[d]] = Append(logs[chan[d]], job[r].cfg)
    BY <2>1, ChannelEffect
  <2> QED BY <1>3, <1>4, <1>5, <1>6, <2>2
<1>7. ASSUME NEW e \in Device, NewChannel(e)
      PROVE  LastPush(d)'
  <2>1. CASE e = d
    BY <1>3, <1>7, <2>1
  <2>2. CASE e # d
    <3>1. chan'[d] = chan[d]
      BY <1>1, <1>7, <2>2 DEF NewChannel
    <3> QED BY <1>6, <3>1
  <2> QED BY <2>1, <2>2
<1>8. ASSUME NEW e \in Device, chan' = [chan EXCEPT ![e] = 0]
      PROVE  LastPush(d)'
  <2>1. chan'[d] = chan[d]
    BY <1>1, <1>8
  <2> QED BY <1>6, <2>1
<1> QED BY <1>6, <1>7, <1>8, ChannelEffect

OneByOne == TypeInv /\ Owned /\ \A d \in Device : Sequential(d) /\ PushInv(d)

LEMMA OneByOneInit == Init => OneByOne
<1> SUFFICES ASSUME Init PROVE OneByOne
  OBVIOUS
<1>1. ASSUME NEW d \in Device
      PROVE  PushInv(d)
  BY DEF Init, PushInv, Present
<1> QED BY <1>1, TypeInit, OwnedInit, SequentialInit DEF OneByOne

LEMMA OneByOneStep ==
  ASSUME ~ Overlap, "put" \notin Ops
  PROVE  OneByOne /\ [Next]_vars /\ BodiesNamePath' => OneByOne'
<1> SUFFICES ASSUME OneByOne, [Next]_vars, BodiesNamePath'
             PROVE  OneByOne'
  OBVIOUS
<1>1. TypeInv' /\ Owned'
  BY TypeStep, OwnedStep DEF OneByOne
<1>2. ASSUME NEW d \in Device
      PROVE  Sequential(d)' /\ PushInv(d)'
  <2>1. TypeInv /\ Owned /\ Sequential(d) /\ PushInv(d)
    BY DEF OneByOne
  <2>2. Alone(d)' /\ ProperArrival(d)
    BY <2>1, AloneStep, ArrivalsProper DEF Sequential
  <2> QED BY <2>1, <2>2, SequentialStep, LastPushStep
<1> QED BY <1>1, <1>2 DEF OneByOne

\* When the clients of a device wait for each answer, address every body to the
\* device of its path and use apply, not put, its stored configuration changes
\* by a strictly newer one, by a rename under the version it has, or by a
\* registration that starts it afresh, and in no other way (apply_config in
\* controller.rs, replace_config and update_meta in store.rs).
THEOREM RevisionsGrow ==
  ASSUME ~ Overlap, "put" \notin Ops
  PROVE  Spec /\ []BodiesNamePath => RevisionsIncrease
<1>1. OneByOne /\ [Next]_vars
        => [\A d \in Device :
              Present(d) /\ Present(d)' /\ devices'[d].cfg # devices[d].cfg /\ ~ Registers(d)
                => \/ IsStrictlyNewerThan(devices'[d].cfg, devices[d].cfg)
                   \/ SameButHost(devices'[d].cfg, devices[d].cfg)]_vars
  BY RevisionStep DEF OneByOne
<1>2. OneByOne /\ [Next]_vars /\ BodiesNamePath' => OneByOne'
  BY OneByOneStep
<1> QED BY <1>1, <1>2, OneByOneInit, PTL DEF Spec, RevisionsIncrease

\* Under the same clients, what the store holds and what the newest message of
\* the device's channel says agree in everything but the hostname whenever no
\* handler is at work on it, so a subscriber that has read everything is up to
\* date but for renames (store.rs, replace_config and update_meta).
THEOREM PushesAgreeWithStore ==
  ASSUME ~ Overlap, "put" \notin Ops
  PROVE  Spec /\ []BodiesNamePath => []LastPushIsStored
<1>1. OneByOne => LastPushIsStored
  <2> SUFFICES ASSUME OneByOne, NEW d \in Device, Present(d), Quiet(d)
               PROVE  LastPush(d)
    BY DEF LastPushIsStored, LastPush
  <2>1. Settled(d)
    BY DEF Quiet, InFlight, Settled
  <2> QED BY <2>1 DEF OneByOne, PushInv
<1>2. OneByOne /\ [Next]_vars /\ BodiesNamePath' => OneByOne'
  BY OneByOneStep
<1> QED BY <1>1, <1>2, OneByOneInit, PTL DEF Spec

-----------------------------------------------------------------------------
(* Telemetry.                                                              *)

\* The steps that touch what is kept of a device's telemetry.
FrameSteps(r) == InsertTelemetry(r) \/ NewAlertFlags(r) \/ DropTelemetry(r) \/ DropFlags(r)

LEMMA TelemetryEffect ==
  ASSUME TypeInv, NEW r \in Request, Arrive(r) \/ Continue(r), NEW d \in Device
  PROVE  \/ /\ telemetry'[d] = telemetry[d] /\ flags'[d] = flags[d]
            /\ job[r].dev # d \/ ~ FrameSteps(r)
         \/ /\ job[r].dev = d
            /\ \/ /\ InsertTelemetry(r) /\ job'[r].pc = "flags" /\ job'[r].dev = d
                  /\ job'[r].keys = job[r].keys /\ telemetry'[d] = job[r].keys
               \/ /\ NewAlertFlags(r) /\ flags'[d] = Keys(job[r].keys)
                  /\ telemetry'[d] = telemetry[d] /\ job'[r].pc \in {"done", "alert"}
               \/ /\ DropTelemetry(r) /\ job'[r].pc = "drop_flags" /\ job'[r].dev = d
                  /\ telemetry'[d] = None
               \/ DropFlags(r) /\ telemetry'[d] = telemetry[d] /\ job'[r].pc = "done"
<1>1. /\ telemetry \in [Device -> Seq(Key) \cup {None}]
      /\ flags \in [Device -> (SUBSET Key) \cup {None}]
  BY DEF TypeInv, TypeOK
<1>2. CASE InsertTelemetry(r)
  <2>1. telemetry' = [telemetry EXCEPT ![job[r].dev] = job[r].keys] /\ UNCHANGED flags
        /\ Proceed(r, "flags")
    BY <1>2 DEF InsertTelemetry
  <2> QED BY <1>1, <1>2, <2>1, ProceedMoves
<1>3. CASE NewAlertFlags(r)
  <2>1. flags' = [flags EXCEPT ![job[r].dev] = Keys(job[r].keys)] /\ UNCHANGED telemetry
    BY <1>3 DEF NewAlertFlags
  <2>2. job'[r].pc \in {"done", "alert"}
    <3>1. CASE job[r].keys = <<>>
      BY <1>3, <3>1, AnswerEnds DEF NewAlertFlags
    <3>2. CASE job[r].keys # <<>>
      BY <1>3, <3>2 DEF NewAlertFlags, TypeInv, TypeOK, Job
    <3> QED BY <3>1, <3>2
  <2> QED BY <1>1, <1>3, <2>1, <2>2
<1>4. CASE DropTelemetry(r)
  <2>1. telemetry' = [telemetry EXCEPT ![job[r].dev] = None] /\ UNCHANGED flags
        /\ Proceed(r, "drop_flags")
    BY <1>4 DEF DropTelemetry
  <2> QED BY <1>1, <1>4, <2>1, ProceedMoves
<1>5. CASE DropFlags(r)
  <2>1. flags' = [flags EXCEPT ![job[r].dev] = None] /\ UNCHANGED telemetry
        /\ job'[r].pc = "done"
    BY <1>5, AnswerEnds DEF DropFlags
  <2> QED BY <1>1, <1>5, <2>1
<1>6. CASE ~ FrameSteps(r)
  BY <1>6 DEF FrameSteps, Arrive, Register, CheckConfig, UpdateMeta, Delete, PostTelemetry,
     Continue, PushAlert, RegisterChannel, ReplaceConfig, SendConfig, Reinsert, RemoveDevice,
     DropChannel, alertVars
<1> QED BY <1>2, <1>3, <1>4, <1>5, <1>6 DEF FrameSteps

\* The frame kept of d and its flags, by what the handler of d is about to do.
FlagsInv(d) ==
  /\ telemetry[d] # None /\ (\A r \in Request : job[r].dev = d => job[r].pc # "flags")
       => flags[d] = Keys(telemetry[d])
  /\ \A r \in Request : job[r].dev = d =>
       /\ job[r].pc = "flags" => telemetry[d] = job[r].keys
       /\ job[r].pc = "drop_flags" => telemetry[d] = None

LEMMA FlagsStep ==
  ASSUME TypeInv, [Next]_vars, NEW d \in Device, Alone(d), FlagsInv(d)
  PROVE  FlagsInv(d)'
<1>1. CASE UNCHANGED <<job, devices, alertVars>>
  BY <1>1 DEF FlagsInv, alertVars
<1>2. ASSUME NEW r \in Request, Arrive(r) \/ Continue(r),
             \A q \in Request \ {r} : job'[q] = job[q]
      PROVE  FlagsInv(d)'
  <2>1. CASE /\ telemetry'[d] = telemetry[d] /\ flags'[d] = flags[d]
             /\ job[r].dev # d \/ ~ FrameSteps(r)
    <3>1. job'[r].dev = d => job'[r].pc \notin {"flags", "drop_flags"}
      BY <1>2, <2>1, ArriveEffect, ContinueEffect DEF ArrivalKnows, ContinuesTo, FrameSteps
    <3>2. job[r].dev = d => job[r].pc # "flags"
      <4>1. job[r].pc = "flags" => Continue(r)
        BY <1>2, ArriveEffect
      <4> QED BY <2>1, <4>1 DEF FrameSteps, Continue, RegisterChannel, ReplaceConfig, SendConfig,
                 Reinsert, RemoveDevice, DropChannel, PushAlert
    <3> QED BY <1>2, <2>1, <3>1, <3>2 DEF FlagsInv
  <2>2. CASE job[r].dev = d /\ InFlight(r)
    <3>1. \A q \in Request \ {r} : job'[q].dev = d => ~ InFlight(q)
      BY <1>2, <2>2 DEF Alone
    <3>2. CASE InsertTelemetry(r) /\ job'[r].pc = "flags" /\ job'[r].dev = d
               /\ job'[r].keys = job[r].keys /\ telemetry'[d] = job[r].keys
      BY <1>2, <3>1, <3>2 DEF FlagsInv, InFlight
    <3>3. CASE NewAlertFlags(r) /\ flags'[d] = Keys(job[r].keys)
               /\ telemetry'[d] = telemetry[d] /\ job'[r].pc \in {"done", "alert"}
      BY <1>2, <2>2, <3>1, <3>3 DEF FlagsInv, InFlight, NewAlertFlags
    <3>4. CASE DropTelemetry(r) /\ job'[r].pc = "drop_flags" /\ job'[r].dev = d
               /\ telemetry'[d] = None
      BY <1>2, <3>1, <3>4 DEF FlagsInv, InFlight
    <3>5. CASE DropFlags(r) /\ telemetry'[d] = telemetry[d] /\ job'[r].pc = "done"
      BY <1>2, <2>2, <3>1, <3>5 DEF FlagsInv, InFlight, DropFlags
    <3> QED BY <1>2, <2>1, <3>2, <3>3, <3>4, <3>5, TelemetryEffect
  <2>3. FrameSteps(r) => InFlight(r)
    BY DEF FrameSteps, InsertTelemetry, NewAlertFlags, DropTelemetry, DropFlags, InFlight
  <2> QED BY <1>2, <2>1, <2>2, <2>3, TelemetryEffect DEF FrameSteps
<1> QED BY <1>1, <1>2, StepOwner

\* When the requests of each device are served one at a time, the flags that
\* gate a device's alerts are those of the frame kept of it, through frames
\* without flags, deletions and registrations (post_telemetry in controller.rs,
\* new_alert_flags in store.rs).
THEOREM FlagsFollowFrames ==
  ASSUME ~ Overlap
  PROVE  Spec => []FlagsMatchLatestFrame
<1> DEFINE Inv == TypeInv /\ \A d \in Device : Alone(d) /\ FlagsInv(d)
<1>1. Init => Inv
  <2> SUFFICES ASSUME Init, NEW d \in Device PROVE Alone(d) /\ FlagsInv(d)
    BY TypeInit
  <2>1. telemetry[d] = None /\ \A r \in Request : job[r].pc = "idle"
    BY IdleJobType DEF Init
  <2> QED BY <2>1 DEF FlagsInv, Alone, InFlight
<1>2. Inv /\ [Next]_vars => Inv'
  BY TypeStep, AloneStep, FlagsStep
<1>3. Inv => FlagsMatchLatestFrame
  BY DEF FlagsMatchLatestFrame, FlagsInv, Quiet, InFlight
<1> QED BY <1>1, <1>2, <1>3, PTL DEF Spec

-----------------------------------------------------------------------------
(* Alerts and rising edges.  What a handler still has to go through of its *)
(* frame is a tail of it, so its places are counted from the end.          *)

Unraised(ks, k) == {m \in 0 .. Len(ks) - 1 : ks[Len(ks) - m] = k}

\* The handlers that still have alerts of flag k to raise for d, and how many.
Raising(d, k) ==
  {r \in Request : job[r].pc = "alert" /\ job[r].dev = d /\ k \notin job[r].prev}
Pending(d, k) ==
  {e \in Request \X Nat : e[1] \in Raising(d, k) /\ e[2] \in Unraised(job[e[1]].keys, k)}

\* The flags of the last list taken.
Newest(lists) == IF lists = <<>> THEN {} ELSE Keys(lists[Len(lists)])

Counted(d, k) ==
  /\ Alerted(d) = Newest(taken[d])
  /\ IsFiniteSet(Pending(d, k)) /\ IsFiniteSet(Rises(d, k))
  /\ raised[d][k] + Cardinality(Pending(d, k)) = Cardinality(Rises(d, k))

HistoryOK ==
  /\ taken \in [Device -> Seq(Seq(Key))]
  /\ raised \in [Device -> [Key -> Nat]]
  /\ \A d \in Device, k \in Key : Counted(d, k)

LEMMA PairCount ==
  ASSUME NEW S, IsFiniteSet(S), NEW x
  PROVE  IsFiniteSet({x} \X S) /\ Cardinality({x} \X S) = Cardinality(S)
<1>1. IsFiniteSet({x}) /\ Cardinality({x}) = 1
  BY FS_Singleton
<1>2. IsFiniteSet({x} \X S) /\ Cardinality({x} \X S) = 1 * Cardinality(S)
  BY <1>1, FS_Product
<1>3. Cardinality(S) \in Nat
  BY FS_CardinalityType
<1> QED BY <1>2, <1>3

\* A list has as many places counted from its end as from its start.
LEMMA UnraisedCount ==
  ASSUME NEW ks \in Seq(Key), NEW k
  PROVE  /\ IsFiniteSet(Unraised(ks, k)) /\ IsFiniteSet(Listings(ks, k))
         /\ Cardinality(Unraised(ks, k)) = Cardinality(Listings(ks, k))
<1>1. Len(ks) \in Nat /\ DOMAIN ks = 1 .. Len(ks)
  OBVIOUS
<1>2. IsFiniteSet(1 .. Len(ks))
  BY <1>1, FS_Interval
<1>3. IsFiniteSet(Listings(ks, k))
  <2>1. Listings(ks, k) \in SUBSET (1 .. Len(ks))
    BY <1>1 DEF Listings
  <2> QED BY <1>2, <2>1, FS_Subset
<1> DEFINE f == [j \in Listings(ks, k) |-> Len(ks) - j]
<1>4. f \in Bijection(Listings(ks, k), Unraised(ks, k))
  <2>1. f \in [Listings(ks, k) -> Unraised(ks, k)]
    BY <1>1 DEF Listings, Unraised
  <2>2. \A i, j \in Listings(ks, k) : f[i] = f[j] => i = j
    BY <1>1 DEF Listings
  <2>3. \A m \in Unraised(ks, k) : \E j \in Listings(ks, k) : f[j] = m
    <3> TAKE m \in Unraised(ks, k)
    <3>1. Len(ks) - m \in Listings(ks, k) /\ Len(ks) - (Len(ks) - m) = m
      BY <1>1 DEF Listings, Unraised
    <3>2. f[Len(ks) - m] = m
      BY <3>1
    <3> HIDE DEF f
    <3> QED BY <3>1, <3>2
  <2> HIDE DEF f
  <2>4. f \in Injection(Listings(ks, k), Unraised(ks, k))
    BY <2>1, <2>2 DEF Injection, IsInjective
  <2>5. f \in Surjection(Listings(ks, k), Unraised(ks, k))
    BY <2>1, <2>3 DEF Surjection
  <2> QED BY <2>4, <2>5 DEF Bijection
<1>5. ExistsBijection(Listings(ks, k), Unraised(ks, k))
  BY <1>4 DEF ExistsBijection
<1> QED BY <1>3, <1>5, FS_Bijection

\* One more list taken: its places rise if the list before does not name k.
LEMMA RisesAppend ==
  ASSUME NEW d \in Device, NEW k \in Key, NEW ks \in Seq(Key),
         taken[d] \in Seq(Seq(Key)), taken'[d] = Append(taken[d], ks)
  PROVE  /\ Newest(taken'[d]) = Keys(ks)
         /\ Rises(d, k)' = Rises(d, k) \cup
              (IF k \in Newest(taken[d]) THEN {}
               ELSE {Len(taken[d]) + 1} \X Listings(ks, k))
         /\ Rises(d, k) \cap ({Len(taken[d]) + 1} \X Listings(ks, k)) = {}
<1> DEFINE old == taken[d]
           new == taken'[d]
           n   == Len(old)
<1>1. /\ n \in Nat /\ DOMAIN old = 1 .. n /\ DOMAIN new = 1 .. n + 1
      /\ new[n + 1] = ks /\ \A i \in 1 .. n : new[i] = old[i]
      /\ new # <<>> /\ Len(new) = n + 1 /\ (old = <<>> <=> n = 0)
  <2>1. old \in Seq(Seq(Key)) /\ new = Append(old, ks)
    OBVIOUS
  <2> HIDE DEF old, new
  <2>2. n \in Nat /\ DOMAIN old = 1 .. n /\ (old = <<>> <=> n = 0)
    BY <2>1
  <2>3. /\ DOMAIN new = 1 .. n + 1 /\ Len(new) = n + 1 /\ new # <<>>
        /\ new[n + 1] = ks /\ \A i \in 1 .. n : new[i] = old[i]
    BY <2>1
  <2> QED BY <2>2, <2>3
<1>2. Newest(new) = Keys(ks)
  BY <1>1 DEF Newest
<1>3. Rises(d, k) = UNION {{i} \X Listings(old[i], k) : i \in Risen(d, k)}
  BY DEF Rises
<1>4. Rises(d, k)' = UNION {{i} \X Listings(new[i], k) : i \in Risen(d, k)'}
  BY DEF Rises
<1> HIDE DEF old, new, n
<1>5. Risen(d, k) = {i \in 1 .. n : i > 1 => k \notin Keys(old[i - 1])}
  BY <1>1 DEF Risen, old
<1>6. Risen(d, k)' = {i \in 1 .. n + 1 : i > 1 => k \notin Keys(new[i - 1])}
  BY <1>1 DEF Risen, new
<1>7. \A i \in 1 .. n : i \in Risen(d, k)' <=> i \in Risen(d, k)
  <2> TAKE i \in 1 .. n
  <2>1. i > 1 => i - 1 \in 1 .. n
    BY <1>1
  <2>2. i \in 1 .. n + 1
    BY <1>1
  <2>3. i > 1 => new[i - 1] = old[i - 1]
    BY <1>1, <2>1
  <2> QED BY <1>5, <1>6, <2>2, <2>3
<1>8. n + 1 \in Risen(d, k)' <=> k \notin Newest(old)
  <2>1. n + 1 \in 1 .. n + 1 /\ (n + 1 > 1 <=> n # 0) /\ n + 1 - 1 = n
    BY <1>1
  <2>2. n # 0 => new[n] = old[n]
    BY <1>1
  <2> QED BY <1>1, <1>6, <2>1, <2>2 DEF Newest, n
<1>9. Risen(d, k) \subseteq 1 .. n /\ Risen(d, k)' \subseteq 1 .. n + 1
  BY <1>5, <1>6
<1>10. ASSUME NEW e
       PROVE  e \in Rises(d, k)' <=>
                \/ e \in Rises(d, k)
                \/ k \notin Newest(old) /\ e \in {n + 1} \X Listings(ks, k)
  <2>1. e \in Rises(d, k) <=> \E i \in Risen(d, k) : e \in {i} \X Listings(old[i], k)
    BY <1>3
  <2>2. e \in Rises(d, k)' <=> \E i \in Risen(d, k)' : e \in {i} \X Listings(new[i], k)
    BY <1>4
  <2>3. \A i \in 1 .. n + 1 : i \in 1 .. n \/ i = n + 1
    BY <1>1
  <2> QED BY <1>1, <1>7, <1>8, <1>9, <2>1, <2>2, <2>3
<1>11. Rises(d, k) \cap ({n + 1} \X Listings(ks, k)) = {}
  <2>1. n + 1 \notin 1 .. n
    BY <1>1
  <2>2. \A e \in Rises(d, k) : \E i \in 1 .. n : e[1] = i
    BY <1>3, <1>9
  <2> QED BY <2>1, <2>2
<1>12. Rises(d, k)' = Rises(d, k) \cup
              (IF k \in Newest(old) THEN {} ELSE {n + 1} \X Listings(ks, k))
  BY <1>10
<1> QED BY <1>2, <1>11, <1>12 DEF old, new, n

\* A pushed alert is the newest of the ring, and new.
LEMMA PushedNewest ==
  ASSUME NEW ring \in Seq(Alert), NEW d \in Device, NEW k \in Key
  PROVE  LET after == Pushed(ring, d, k) IN
         after # ring /\ after[Len(after)].dev = d /\ after[Len(after)].key = k
<1> DEFINE id  == IF ring = <<>> THEN 1 ELSE ring[Len(ring)].id + 1
           new == [id |-> id, dev |-> d, key |-> k]
           all == Append(ring, new)
           n   == Len(all)
           cut == SubSeq(all, n - AlertCap + 1, n)
           after == Pushed(ring, d, k)
<1>1. id \in Nat /\ (ring # <<>> => id # ring[Len(ring)].id)
  <2>1. CASE ring = <<>>
    BY <2>1
  <2>2. CASE ring # <<>>
    <3>1. ring[Len(ring)] \in Alert
      BY <2>2
    <3> QED BY <2>2, <3>1 DEF Alert
  <2> QED BY <2>1, <2>2
<1>2. new \in Alert /\ new.id = id /\ new.dev = d /\ new.key = k
  BY <1>1 DEF Alert
<1> HIDE DEF id, new
<1>3. all \in Seq(Alert) /\ n \in Nat /\ n > 0 /\ all[n] = new
  BY <1>2
<1>4. after = IF n > AlertCap THEN cut ELSE all
  BY DEF Pushed, id, new
<1> HIDE DEF all, n
<1>5. after # <<>> /\ after[Len(after)] = new
  <2>1. CASE n > AlertCap
    <3>1. AlertCap \in Nat /\ AlertCap > 0
      OBVIOUS
    <3>2. n - AlertCap + 1 \in Int /\ n \in Int /\ \A i \in n - AlertCap + 1 .. n : all[i] \in Alert
      BY <1>3, <2>1, <3>1 DEF n
    <3>3. /\ cut \in Seq(Alert)
          /\ Len(cut) = IF n - AlertCap + 1 <= n THEN n - (n - AlertCap + 1) + 1 ELSE 0
          /\ \A i \in 1 .. n - (n - AlertCap + 1) + 1 : cut[i] = all[(n - AlertCap + 1) + i - 1]
      BY <3>2, SubSeqProperties
    <3> HIDE DEF cut
    <3>4. Len(cut) = AlertCap /\ cut[AlertCap] = all[n]
      BY <1>3, <3>1, <3>3
    <3>5. cut # <<>>
      BY <3>1, <3>4
    <3> QED BY <1>3, <1>4, <2>1, <3>4, <3>5
  <2>2. CASE ~ (n > AlertCap)
    <3>1. after = all /\ Len(all) = n
      BY <1>4, <2>2 DEF n
    <3> QED BY <1>3, <3>1
  <2> QED BY <2>1, <2>2
<1> HIDE DEF after
<1>6. after # ring
  BY <1>1, <1>2, <1>5
<1> QED BY <1>2, <1>5, <1>6 DEF after

\* The handler that has taken its frame's flags starts to go through them.
LEMMA NewAlertEffect ==
  ASSUME TypeInv, NEW r \in Request, NewAlertFlags(r)
  PROVE  \/ job'[r].pc = "done" /\ job[r].keys = <<>>
         \/ /\ job'[r].pc = "alert" /\ job'[r].dev = job[r].dev
            /\ job'[r].keys = job[r].keys /\ job'[r].prev = Alerted(job[r].dev)
<1>1. job \in [Request -> Job] /\ job[r] \in Job
  BY DEF TypeInv, TypeOK
<1>2. CASE job[r].keys = <<>>
  BY <1>2, AnswerEnds DEF NewAlertFlags
<1>3. CASE job[r].keys # <<>>
  <2> DEFINE j == [job[r] EXCEPT !.pc = "alert", !.prev = Alerted(job[r].dev)]
  <2>1. /\ j.pc = "alert" /\ j.dev = job[r].dev
        /\ j.keys = job[r].keys /\ j.prev = Alerted(job[r].dev)
    BY <1>1 DEF Job
  <2>2. job' = [job EXCEPT ![r] = j]
    BY <1>1, <1>3 DEF NewAlertFlags, Job
  <2> HIDE DEF j
  <2>3. job'[r] = j
    BY <1>1, <2>2
  <2> QED BY <2>1, <2>3
<1> QED BY <1>2, <1>3

\* ... and raises one alert for a flag that the list before did not name.
LEMMA PushAlertEffect ==
  ASSUME TypeInv, NEW r \in Request, PushAlert(r)
  PROVE  LET ks == job[r].keys IN
         /\ job[r].pc = "alert" /\ job[r].dev \in Device
         /\ ks \in Seq(Key) /\ ks # <<>> /\ Head(ks) \in Key
         /\ IF Head(ks) \in job[r].prev THEN alerts' = alerts
            ELSE /\ alerts' # alerts
                 /\ alerts'[Len(alerts')].dev = job[r].dev
                 /\ alerts'[Len(alerts')].key = Head(ks)
         /\ \/ job'[r].pc = "done" /\ Tail(ks) = <<>>
            \/ /\ job'[r].pc = "alert" /\ job'[r].dev = job[r].dev
               /\ job'[r].keys = Tail(ks) /\ job'[r].prev = job[r].prev
<1>1. /\ job \in [Request -> Job] /\ job[r] \in Job /\ alerts \in Seq(Alert)
      /\ LocalsOK(job[r]) /\ job[r].pc = "alert"
  BY DEF PushAlert, TypeInv, TypeOK, HandlerOK
<1>2. job[r].dev \in Device /\ job[r].keys \in Seq(Key) /\ job[r].keys # <<>>
  BY <1>1 DEF LocalsOK, Job
<1>3. Head(job[r].keys) \in Key
  BY <1>2
<1>4. IF Head(job[r].keys) \in job[r].prev THEN alerts' = alerts
      ELSE /\ alerts' # alerts
           /\ alerts'[Len(alerts')].dev = job[r].dev
           /\ alerts'[Len(alerts')].key = Head(job[r].keys)
  <2>1. Head(job[r].keys) \notin job[r].prev => alerts' = Pushed(alerts, job[r].dev, Head(job[r].keys))
    BY DEF PushAlert
  <2>2. Head(job[r].keys) \in job[r].prev => alerts' = alerts
    BY DEF PushAlert
  <2> QED BY <1>1, <1>2, <1>3, <2>1, <2>2, PushedNewest
<1>5. CASE Tail(job[r].keys) = <<>>
  <2>1. job'[r].pc = "done"
    BY <1>5, AnswerEnds DEF PushAlert
  <2> QED BY <1>1, <1>2, <1>3, <1>4, <1>5, <2>1
<1>6. CASE Tail(job[r].keys) # <<>>
  <2> DEFINE j == [job[r] EXCEPT !.keys = Tail(job[r].keys)]
  <2>1. /\ j.pc = "alert" /\ j.dev = job[r].dev
        /\ j.keys = Tail(job[r].keys) /\ j.prev = job[r].prev
    BY <1>1 DEF Job
  <2>2. job' = [job EXCEPT ![r] = j]
    BY <1>6 DEF PushAlert
  <2> HIDE DEF j
  <2>3. job'[r] = j
    BY <1>1, <2>2
  <2> QED BY <1>1, <1>2, <1>3, <1>4, <2>1, <2>3
<1> QED BY <1>5, <1>6

\* What is left of a frame after its first flag.
LEMMA UnraisedTail ==
  ASSUME NEW ks \in Seq(Key), ks # <<>>, NEW k
  PROVE  /\ Unraised(Tail(ks), k) = Unraised(ks, k) \ {Len(ks) - 1}
         /\ Len(ks) - 1 \in Nat
         /\ Len(ks) - 1 \in Unraised(ks, k) <=> Head(ks) = k
<1>1. Len(ks) \in Nat \ {0} /\ Len(Tail(ks)) = Len(ks) - 1 /\ Head(ks) = ks[1]
  OBVIOUS
<1>2. \A i \in 1 .. Len(ks) - 1 : Tail(ks)[i] = ks[i + 1]
  OBVIOUS
<1>3. \A m \in 0 .. Len(ks) - 2 : /\ Len(ks) - 1 - m \in 1 .. Len(ks) - 1
                                  /\ Len(ks) - 1 - m + 1 = Len(ks) - m
  BY <1>1
<1>4. \A m \in 0 .. Len(ks) - 2 : Tail(ks)[Len(Tail(ks)) - m] = ks[Len(ks) - m]
  BY <1>1, <1>2, <1>3
<1>5. 0 .. Len(Tail(ks)) - 1 = 0 .. Len(ks) - 2 /\ 0 .. Len(ks) - 2 = (0 .. Len(ks) - 1) \ {Len(ks) - 1}
  BY <1>1
<1>6. Len(ks) - 1 \in 0 .. Len(ks) - 1 /\ Len(ks) - (Len(ks) - 1) = 1
  BY <1>1
<1> QED BY <1>1, <1>4, <1>5, <1>6 DEF Unraised

\* A handler that is at a point of the telemetry path takes that path's step.
LEMMA AlertPath ==
  ASSUME TypeInv, NEW r \in Request, Arrive(r) \/ Continue(r)
  PROVE  /\ job[r].pc = "flags" => NewAlertFlags(r)
         /\ job[r].pc = "drop_flags" => DropFlags(r)
         /\ job[r].pc = "alert" => PushAlert(r)
         /\ job'[r].pc = "alert" =>
              (NewAlertFlags(r) \/ PushAlert(r)) /\ job'[r].dev = job[r].dev
<1>1. job[r].pc # "idle" => Continue(r)
  BY ArriveEffect
<1>2. ASSUME job[r].pc \in {"flags", "drop_flags", "alert"}, Continue(r)
      PROVE  /\ job[r].pc = "flags" => NewAlertFlags(r)
             /\ job[r].pc = "drop_flags" => DropFlags(r)
             /\ job[r].pc = "alert" => PushAlert(r)
  BY <1>2 DEF Continue, RegisterChannel, ReplaceConfig, SendConfig, Reinsert, RemoveDevice,
     DropChannel, DropTelemetry, DropFlags, InsertTelemetry, NewAlertFlags, PushAlert
<1>3. job'[r].pc = "alert" =>
        (NewAlertFlags(r) \/ PushAlert(r)) /\ job'[r].dev = job[r].dev
  BY ArriveEffect, ContinueEffect DEF ArrivalKnows, ContinuesTo
<1> QED BY <1>1, <1>2, <1>3

LEMMA TakenEffect ==
  ASSUME TypeInv, HNext, NEW r \in Request, Arrive(r) \/ Continue(r),
         \A q \in Request \ {r} : job'[q] = job[q], NEW d \in Device
  PROVE  taken'[d] = IF (NewAlertFlags(r) \/ DropFlags(r)) /\ job[r].dev = d
                     THEN Append(taken[d], FlagsOf(r)) ELSE taken[d]
<1>1. \A q \in Request : Replaces(q, d) => q = r
  BY DEF Replaces
<1>2. Replaces(r, d) <=> (NewAlertFlags(r) \/ DropFlags(r)) /\ job[r].dev = d
  <2>1. ASSUME NewAlertFlags(r) PROVE job[r].pc = "flags" /\ job'[r].pc # "flags"
    BY <2>1, NewAlertEffect DEF NewAlertFlags
  <2>2. ASSUME DropFlags(r) PROVE job[r].pc = "drop_flags" /\ job'[r].pc # "drop_flags"
    BY <2>2, AnswerEnds DEF DropFlags
  <2>3. job[r].pc \in {"flags", "drop_flags"} => NewAlertFlags(r) \/ DropFlags(r)
    BY AlertPath
  <2> QED BY <2>1, <2>2, <2>3 DEF Replaces
<1>3. taken'[d] = IF \E q \in Request : Replaces(q, d)
                  THEN Append(taken[d], FlagsOf(CHOOSE q \in Request : Replaces(q, d)))
                  ELSE taken[d]
  BY DEF HNext
<1>4. CASE Replaces(r, d)
  <2>1. (CHOOSE q \in Request : Replaces(q, d)) = r
    BY <1>1, <1>4
  <2> QED BY <1>2, <1>3, <1>4, <2>1
<1>5. CASE ~ Replaces(r, d)
  BY <1>1, <1>2, <1>3, <1>5
<1> QED BY <1>4, <1>5

\* Only the handlers of d at these two points change what is pending for d.
LEMMA PendingKept ==
  ASSUME TypeInv, NEW r \in Request, Arrive(r) \/ Continue(r),
         \A q \in Request \ {r} : job'[q] = job[q], NEW d \in Device, NEW k \in Key,
         (NewAlertFlags(r) \/ PushAlert(r)) => job[r].dev # d
  PROVE  Pending(d, k)' = Pending(d, k)
<1>1. r \notin Raising(d, k) /\ r \notin Raising(d, k)'
  BY AlertPath DEF Raising
<1>2. \A q \in Request \ {r} : /\ q \in Raising(d, k)' <=> q \in Raising(d, k)
                               /\ job'[q].keys = job[q].keys
  BY DEF Raising
<1> QED BY <1>1, <1>2 DEF Pending

\* A list of flags is taken for d.
LEMMA CountedTaken ==
  ASSUME TypeInv, HNext, HistoryOK, NEW r \in Request, NewAlertFlags(r) \/ DropFlags(r),
         Arrive(r) \/ Continue(r), \A q \in Request \ {r} : job'[q] = job[q],
         NEW d \in Device, job[r].dev = d, NEW k \in Key
  PROVE  Counted(d, k)'
<1> DEFINE ks  == FlagsOf(r)
           old == taken[d]
           new == {Len(old) + 1} \X Listings(ks, k)
<1>1. ks \in Seq(Key) /\ job[r].keys \in Seq(Key)
  BY DEF FlagsOf, TypeInv, TypeOK, Job
<1>2. taken[d] \in Seq(Seq(Key)) /\ taken'[d] = Append(taken[d], ks)
  BY TakenEffect DEF HistoryOK
<1>3. Counted(d, k) /\ raised[d][k] \in Nat
  BY DEF HistoryOK
<1>4. Alerted(d)' = Keys(ks) /\ UNCHANGED alerts
  <2>1. flags \in [Device -> (SUBSET Key) \cup {None}]
    BY DEF TypeInv, TypeOK
  <2>2. ASSUME NewAlertFlags(r) PROVE Alerted(d)' = Keys(ks)
    <3>1. flags'[d] = Keys(ks)
      BY <2>1, <2>2 DEF NewAlertFlags, FlagsOf
    <3>2. Keys(ks) \in SUBSET Key
      BY <1>1 DEF Keys
    <3> QED BY <3>1, <3>2 DEF Alerted
  <2>3. ASSUME DropFlags(r) PROVE Alerted(d)' = Keys(ks)
    <3>1. flags'[d] = None /\ ks = <<>>
      BY <2>1, <2>3 DEF DropFlags, FlagsOf
    <3>2. Keys(<<>>) = {}
      BY DEF Keys
    <3> QED BY <3>1, <3>2 DEF Alerted
  <2> QED BY <2>2, <2>3 DEF NewAlertFlags, DropFlags
<1>5. raised' = raised
  BY <1>4 DEF HNext
<1>6. /\ Newest(taken'[d]) = Keys(ks)
      /\ Rises(d, k)' = Rises(d, k) \cup (IF k \in Newest(old) THEN {} ELSE new)
      /\ Rises(d, k) \cap new = {}
  BY <1>1, <1>2, RisesAppend
<1>7. /\ IsFiniteSet(new) /\ Cardinality(new) = Cardinality(Unraised(ks, k))
      /\ IsFiniteSet({r} \X Unraised(ks, k))
      /\ Cardinality({r} \X Unraised(ks, k)) = Cardinality(Unraised(ks, k))
  <2>1. /\ IsFiniteSet(Unraised(ks, k)) /\ IsFiniteSet(Listings(ks, k))
        /\ Cardinality(Unraised(ks, k)) = Cardinality(Listings(ks, k))
    BY <1>1, UnraisedCount
  <2>2. IsFiniteSet(new) /\ Cardinality(new) = Cardinality(Listings(ks, k))
    BY <2>1, PairCount
  <2>3. /\ IsFiniteSet({r} \X Unraised(ks, k))
        /\ Cardinality({r} \X Unraised(ks, k)) = Cardinality(Unraised(ks, k))
    BY <2>1, PairCount
  <2> QED BY <2>1, <2>2, <2>3
<1>8. r \notin Raising(d, k)
  BY DEF Raising, NewAlertFlags, DropFlags
<1>9. \A q \in Request \ {r} : /\ q \in Raising(d, k)' <=> q \in Raising(d, k)
                               /\ job'[q].keys = job[q].keys
  BY DEF Raising
<1>10. Alerted(d) = Newest(old)
  BY <1>3 DEF Counted
<1>11. Pending(d, k)' = Pending(d, k) \cup
         (IF k \in Newest(old) THEN {} ELSE {r} \X Unraised(ks, k))
  <2>1. ASSUME NewAlertFlags(r), ks # <<>>
        PROVE  job'[r].keys = ks /\ (r \in Raising(d, k)' <=> k \notin Newest(old))
    BY <1>10, <2>1, NewAlertEffect DEF Raising, FlagsOf, NewAlertFlags
  <2>2. ASSUME DropFlags(r) \/ ks = <<>>
        PROVE  r \notin Raising(d, k)' /\ Unraised(ks, k) = {}
    <3>1. job'[r].pc = "done" /\ ks = <<>>
      <4>1. CASE DropFlags(r)
        BY <4>1, AnswerEnds DEF DropFlags, FlagsOf
      <4>2. CASE NewAlertFlags(r)
        BY <2>2, <4>2, NewAlertEffect, AnswerEnds DEF NewAlertFlags, DropFlags, FlagsOf
      <4> QED BY <4>1, <4>2
    <3>2. Unraised(<<>>, k) = {}
      BY DEF Unraised
    <3> QED BY <3>1, <3>2 DEF Raising
  <2>3. \A m \in Unraised(ks, k) : m \in Nat
    BY <1>1 DEF Unraised
  <2>4. ASSUME NewAlertFlags(r), ks # <<>>
        PROVE  Pending(d, k)' = Pending(d, k) \cup
                 (IF k \in Newest(old) THEN {} ELSE {r} \X Unraised(ks, k))
    <3> HIDE DEF ks, old
    <3> QED BY <1>8, <1>9, <2>1, <2>3, <2>4 DEF Pending
  <2>5. ASSUME DropFlags(r) \/ ks = <<>>
        PROVE  Pending(d, k)' = Pending(d, k) \cup
                 (IF k \in Newest(old) THEN {} ELSE {r} \X Unraised(ks, k))
    <3> HIDE DEF ks, old
    <3> QED BY <1>8, <1>9, <2>2, <2>5 DEF Pending
  <2> QED BY <2>4, <2>5
<1>12. Pending(d, k) \cap ({r} \X Unraised(ks, k)) = {}
  BY <1>8 DEF Pending
<1> HIDE DEF ks, old, new
<1>13. CASE k \in Newest(old)
  <2>1. Rises(d, k)' = Rises(d, k) /\ Pending(d, k)' = Pending(d, k)
    BY <1>6, <1>11, <1>13
  <2> QED BY <1>3, <1>4, <1>5, <1>6, <2>1 DEF Counted
<1>14. CASE k \notin Newest(old)
  <2>1. /\ Rises(d, k)' = Rises(d, k) \cup new
        /\ Pending(d, k)' = Pending(d, k) \cup ({r} \X Unraised(ks, k))
    BY <1>6, <1>11, <1>14
  <2>2. IsFiniteSet(Pending(d, k)) /\ IsFiniteSet(Rises(d, k))
    BY <1>3 DEF Counted
  <2>3. /\ IsFiniteSet(Rises(d, k)')
        /\ Cardinality(Rises(d, k)') = Cardinality(Rises(d, k)) + Cardinality(new)
    <3>1. Cardinality(Rises(d, k)) \in Nat /\ Cardinality(new) \in Nat
      BY <1>7, <2>2, FS_CardinalityType
    <3>2. /\ IsFiniteSet(Rises(d, k) \cup new)
          /\ Cardinality(Rises(d, k) \cup new) = Cardinality(Rises(d, k)) + Cardinality(new)
                                                   - Cardinality(Rises(d, k) \cap new)
      BY <1>7, <2>2, FS_Union
    <3>3. Cardinality(Rises(d, k) \cap new) = 0
      BY <1>6, FS_EmptySet
    <3> QED BY <2>1, <3>1, <3>2, <3>3
  <2>4. /\ IsFiniteSet(Pending(d, k)')
        /\ Cardinality(Pending(d, k)') = Cardinality(Pending(d, k))
                                           + Cardinality({r} \X Unraised(ks, k))
    <3> DEFINE mine == {r} \X Unraised(ks, k)
    <3>1. IsFiniteSet(mine) /\ Pending(d, k) \cap mine = {}
      BY <1>7, <1>12
    <3>2. Pending(d, k)' = Pending(d, k) \cup mine
      BY <2>1
    <3> HIDE DEF mine
    <3>3. Cardinality(Pending(d, k)) \in Nat /\ Cardinality(mine) \in Nat
      BY <2>2, <3>1, FS_CardinalityType
    <3>4. /\ IsFiniteSet(Pending(d, k) \cup mine)
          /\ Cardinality(Pending(d, k) \cup mine) = Cardinality(Pending(d, k)) + Cardinality(mine)
                                                      - Cardinality(Pending(d, k) \cap mine)
      BY <2>2, <3>1, FS_Union
    <3>5. Cardinality(Pending(d, k) \cap mine) = 0
      BY <3>1, FS_EmptySet
    <3>6. IsFiniteSet(Pending(d, k)') /\ Cardinality(Pending(d, k)') = Cardinality(Pending(d, k)) + Cardinality(mine)
      BY <3>2, <3>3, <3>4, <3>5
    <3> QED BY <3>6 DEF mine
  <2>5. raised[d][k] + Cardinality(Pending(d, k)) = Cardinality(Rises(d, k))
    BY <1>3 DEF Counted
  <2>6. /\ Cardinality(Pending(d, k)) \in Nat /\ Cardinality(Rises(d, k)) \in Nat
        /\ Cardinality(new) \in Nat
    BY <1>7, <2>2, FS_CardinalityType
  <2>7. raised'[d][k] + Cardinality(Pending(d, k)') = Cardinality(Rises(d, k)')
    BY <1>3, <1>5, <1>7, <2>3, <2>4, <2>5, <2>6
  <2> QED BY <1>4, <1>6, <2>3, <2>4, <2>7 DEF Counted
<1> QED BY <1>13, <1>14

\* A handler of d goes past the next flag of its frame.
LEMMA CountedPushed ==
  ASSUME TypeInv, HNext, HistoryOK, NEW r \in Request, PushAlert(r), Arrive(r) \/ Continue(r),
         \A q \in Request \ {r} : job'[q] = job[q], NEW d \in Device, NEW k \in Key
  PROVE  /\ raised' \in [Device -> [Key -> Nat]]
         /\ Counted(d, k)'
<1> DEFINE ks   == job[r].keys
           here == Len(ks) - 1
           hit  == job[r].dev = d /\ Head(ks) = k /\ k \notin job[r].prev
<1>1. /\ job[r].pc = "alert" /\ job[r].dev \in Device
      /\ ks \in Seq(Key) /\ ks # <<>> /\ Head(ks) \in Key
      /\ IF Head(ks) \in job[r].prev THEN alerts' = alerts
         ELSE /\ alerts' # alerts
              /\ alerts'[Len(alerts')].dev = job[r].dev
              /\ alerts'[Len(alerts')].key = Head(ks)
      /\ \/ job'[r].pc = "done" /\ Tail(ks) = <<>>
         \/ /\ job'[r].pc = "alert" /\ job'[r].dev = job[r].dev
            /\ job'[r].keys = Tail(ks) /\ job'[r].prev = job[r].prev
  BY PushAlertEffect
<1> HIDE DEF ks
<1>2. raised \in [Device -> [Key -> Nat]] /\ Counted(d, k)
  BY DEF HistoryOK
<1>3. /\ raised' \in [Device -> [Key -> Nat]]
      /\ raised'[d][k] = IF hit THEN raised[d][k] + 1 ELSE raised[d][k]
  <2>1. CASE Head(ks) \in job[r].prev
    <3>1. raised' = raised
      BY <1>1, <2>1 DEF HNext
    <3> QED BY <1>2, <2>1, <3>1
  <2>2. CASE Head(ks) \notin job[r].prev
    <3>1. raised' = [raised EXCEPT ![job[r].dev][Head(ks)] = @ + 1]
      BY <1>1, <2>2 DEF HNext
    <3> QED BY <1>1, <1>2, <2>2, <3>1
  <2> QED BY <2>1, <2>2
<1>4. UNCHANGED <<taken[d], Alerted(d), Rises(d, k)>>
  <2>1. UNCHANGED flags
    BY DEF PushAlert
  <2>2. taken'[d] = taken[d]
    BY TakenEffect DEF PushAlert, NewAlertFlags, DropFlags
  <2> QED BY <2>1, <2>2 DEF Alerted, Rises, Risen
<1>5. CASE job[r].dev # d
  <2>1. Pending(d, k)' = Pending(d, k)
    BY <1>5, PendingKept DEF PushAlert, NewAlertFlags
  <2> QED BY <1>2, <1>3, <1>4, <1>5, <2>1 DEF Counted
<1>6. CASE job[r].dev = d
  <2>1. /\ Unraised(Tail(ks), k) = Unraised(ks, k) \ {here}
        /\ here \in Nat
        /\ here \in Unraised(ks, k) <=> Head(ks) = k
    BY <1>1, UnraisedTail
  <2>2. Pending(d, k)' = Pending(d, k) \ {<<r, here>>}
    <3>1. CASE job'[r].pc = "done"
      <4>1. Unraised(Tail(ks), k) = {}
        <5>1. Tail(ks) = <<>>
          BY <1>1, <3>1
        <5> QED BY <5>1 DEF Unraised
      <4>2. r \notin Raising(d, k)'
        BY <3>1 DEF Raising
      <4>3. \A q \in Request \ {r} : /\ q \in Raising(d, k)' <=> q \in Raising(d, k)
                                     /\ job'[q].keys = job[q].keys
        BY DEF Raising
      <4> HIDE DEF here
      <4> QED BY <2>1, <4>1, <4>2, <4>3 DEF Pending, ks
    <3>2. CASE job'[r].pc = "alert"
      <4>1. job'[r].keys = Tail(ks) /\ (r \in Raising(d, k)' <=> r \in Raising(d, k))
        BY <1>1, <3>2 DEF Raising
      <4>2. \A q \in Request \ {r} : /\ q \in Raising(d, k)' <=> q \in Raising(d, k)
                                     /\ job'[q].keys = job[q].keys
        BY DEF Raising
      <4> HIDE DEF here
      <4> QED BY <2>1, <4>1, <4>2 DEF Pending, ks
    <3> QED BY <1>1, <3>1, <3>2
  <2>3. <<r, here>> \in Pending(d, k) <=> hit
    <3>1. r \in Raising(d, k) <=> k \notin job[r].prev
      BY <1>1, <1>6 DEF Raising
    <3> HIDE DEF here
    <3>2. <<r, here>> \in Pending(d, k) <=> r \in Raising(d, k) /\ here \in Unraised(ks, k)
      BY <2>1 DEF Pending, ks
    <3> QED BY <1>6, <2>1, <3>1, <3>2
  <2>4. IsFiniteSet(Pending(d, k)) /\ IsFiniteSet(Rises(d, k))
    BY <1>2 DEF Counted
  <2> HIDE DEF here, hit
  <2>5. /\ IsFiniteSet(Pending(d, k)')
        /\ Cardinality(Pending(d, k)') = IF hit THEN Cardinality(Pending(d, k)) - 1
                                         ELSE Cardinality(Pending(d, k))
    <3>1. PICK S : S = Pending(d, k)
      OBVIOUS
    <3>2. PICK x : x = <<r, here>>
      OBVIOUS
    <3>3. Pending(d, k)' = S \ {x} /\ (x \in S <=> hit) /\ IsFiniteSet(S)
      BY <2>2, <2>3, <2>4, <3>1, <3>2
    <3>4. /\ IsFiniteSet(S \ {x})
          /\ Cardinality(S \ {x}) = IF x \in S THEN Cardinality(S) - 1 ELSE Cardinality(S)
      BY <3>3, FS_RemoveElement
    <3> QED BY <3>1, <3>3, <3>4
  <2>6. Cardinality(Pending(d, k)) \in Nat /\ Cardinality(Rises(d, k)) \in Nat
    BY <2>4, FS_CardinalityType
  <2>7. raised[d][k] \in Nat
        /\ raised[d][k] + Cardinality(Pending(d, k)) = Cardinality(Rises(d, k))
    BY <1>2 DEF Counted
  <2>8. raised'[d][k] + Cardinality(Pending(d, k)') = Cardinality(Rises(d, k)')
    <3>1. raised'[d][k] = IF hit THEN raised[d][k] + 1 ELSE raised[d][k]
      BY <1>3
    <3>2. Cardinality(Rises(d, k)') = Cardinality(Rises(d, k))
      BY <1>4
    <3>3. CASE hit
      BY <2>5, <2>6, <2>7, <3>1, <3>2, <3>3
    <3>4. CASE ~ hit
      BY <2>5, <2>6, <2>7, <3>1, <3>2, <3>4
    <3> QED BY <3>3, <3>4
  <2> QED BY <1>2, <1>3, <1>4, <2>4, <2>5, <2>8 DEF Counted
<1> QED BY <1>5, <1>6

\* Neither happens for d.
LEMMA CountedKept ==
  ASSUME TypeInv, HNext, HistoryOK, NEW r \in Request, ~ PushAlert(r), Arrive(r) \/ Continue(r),
         \A q \in Request \ {r} : job'[q] = job[q], NEW d \in Device, NEW k \in Key,
         (NewAlertFlags(r) \/ DropFlags(r)) => job[r].dev # d
  PROVE  Counted(d, k)'
<1>1. taken'[d] = taken[d]
  <2>1. ~ ((NewAlertFlags(r) \/ DropFlags(r)) /\ job[r].dev = d)
    OBVIOUS
  <2>2. taken'[d] = IF (NewAlertFlags(r) \/ DropFlags(r)) /\ job[r].dev = d
                    THEN Append(taken[d], FlagsOf(r)) ELSE taken[d]
    BY TakenEffect
  <2> QED BY <2>1, <2>2
<1>2. Pending(d, k)' = Pending(d, k)
  BY PendingKept
<1>3. flags'[d] = flags[d]
  <2>1. InsertTelemetry(r) \/ DropTelemetry(r) => UNCHANGED flags
    BY DEF InsertTelemetry, DropTelemetry
  <2> QED BY <2>1, TelemetryEffect
<1>4. raised' = raised
  <2>1. UNCHANGED alerts
    BY DEF Arrive, Register, CheckConfig, UpdateMeta, Delete, PostTelemetry, Continue,
       RegisterChannel, ReplaceConfig, SendConfig, Reinsert, RemoveDevice, DropChannel,
       DropTelemetry, DropFlags, InsertTelemetry, NewAlertFlags, alertVars
  <2> QED BY <2>1 DEF HNext
<1>5. Alerted(d)' = Alerted(d) /\ Rises(d, k)' = Rises(d, k)
  BY <1>1, <1>3 DEF Alerted, Rises, Risen
<1> QED BY <1>1, <1>2, <1>4, <1>5 DEF Counted, HistoryOK

LEMMA HistoryInit == HInit => TypeInv /\ HistoryOK
<1> SUFFICES ASSUME HInit PROVE TypeInv /\ HistoryOK
  OBVIOUS
<1>1. TypeInv
  BY TypeInit DEF HInit
<1>2. taken = [d \in Device |-> <<>>] /\ raised = [d \in Device |-> [k \in Key |-> 0]]
  BY DEF HInit
<1>3. ASSUME NEW d \in Device, NEW k \in Key
      PROVE  Counted(d, k)
  <2>1. taken[d] = <<>> /\ raised[d][k] = 0
    BY <1>2
  <2>2. Alerted(d) = {} /\ \A r \in Request : job[r].pc = "idle"
    BY IdleJobType DEF HInit, Init, Alerted
  <2>3. Pending(d, k) = {}
    BY <2>2 DEF Pending, Raising
  <2>4. Rises(d, k) = {}
    BY <2>1 DEF Rises, Risen
  <2> QED BY <2>1, <2>2, <2>3, <2>4, FS_EmptySet DEF Counted, Newest
<1> QED BY <1>1, <1>2, <1>3 DEF HistoryOK

LEMMA HistoryStep ==
  TypeInv /\ HistoryOK /\ [HNext]_<<vars, history>> => (TypeInv /\ HistoryOK)'
<1> SUFFICES ASSUME TypeInv, HistoryOK, [HNext]_<<vars, history>>
             PROVE  (TypeInv /\ HistoryOK)'
  OBVIOUS
<1>1. [Next]_vars
  BY DEF HNext
<1>2. TypeInv'
  BY <1>1, TypeStep
<1>3. CASE HNext /\ \E r \in Request : /\ Arrive(r) \/ Continue(r)
                                       /\ \A q \in Request \ {r} : job'[q] = job[q]
  <2>1. PICK r \in Request : /\ Arrive(r) \/ Continue(r)
                             /\ \A q \in Request \ {r} : job'[q] = job[q]
    BY <1>3
  <2>2. FlagsOf(r) \in Seq(Key)
    BY DEF FlagsOf, TypeInv, TypeOK, Job
  <2>3. taken' \in [Device -> Seq(Seq(Key))]
    <3>1. \A d \in Device : taken'[d] \in Seq(Seq(Key))
      <4> TAKE d \in Device
      <4>1. taken'[d] = taken[d] \/ taken'[d] = Append(taken[d], FlagsOf(r))
        BY <1>3, <2>1, TakenEffect
      <4>2. taken[d] \in Seq(Seq(Key))
        BY DEF HistoryOK
      <4>3. \A s \in Seq(Seq(Key)), x \in Seq(Key) : Append(s, x) \in Seq(Seq(Key))
        OBVIOUS
      <4> QED BY <2>2, <4>1, <4>2, <4>3
    <3>2. \E F : taken' = [d \in Device |-> F[d]]
      <4>1. taken' = [d \in Device |-> taken'[d]]
        BY <1>3 DEF HNext
      <4> QED BY <4>1
    <3> QED BY <3>1, <3>2
  <2>4. CASE PushAlert(r)
    <3>1. \A d \in Device, k \in Key : Counted(d, k)'
      BY <1>3, <2>1, <2>4, CountedPushed
    <3>2. raised' \in [Device -> [Key -> Nat]]
      <4>1. CASE Device # {} /\ Key # {}
        BY <1>3, <2>1, <2>4, <4>1, CountedPushed
      <4>2. CASE Device = {} \/ Key = {}
        BY <2>4, <4>2, PushAlertEffect
      <4> QED BY <4>1, <4>2
    <3> QED BY <1>2, <2>3, <3>1, <3>2 DEF HistoryOK
  <2>5. CASE ~ PushAlert(r)
    <3>1. ASSUME NEW d \in Device, NEW k \in Key
          PROVE  Counted(d, k)'
      <4>1. CASE (NewAlertFlags(r) \/ DropFlags(r)) /\ job[r].dev = d
        BY <1>3, <2>1, <4>1, CountedTaken
      <4>2. CASE (NewAlertFlags(r) \/ DropFlags(r)) => job[r].dev # d
        BY <1>3, <2>1, <2>5, <4>2, CountedKept
      <4> QED BY <4>1, <4>2
    <3>2. raised' = raised
      <4>1. UNCHANGED alerts
        BY <2>1, <2>5 DEF Arrive, Register, CheckConfig, UpdateMeta, Delete, PostTelemetry,
           Continue, RegisterChannel, ReplaceConfig, SendConfig, Reinsert, RemoveDevice,
           DropChannel, DropTelemetry, DropFlags, InsertTelemetry, NewAlertFlags, alertVars
      <4> QED BY <1>3, <4>1 DEF HNext
    <3> QED BY <1>2, <2>3, <3>1, <3>2 DEF HistoryOK
  <2> QED BY <2>4, <2>5
<1>4. CASE UNCHANGED <<job, devices, alertVars>>
  <2>1. UNCHANGED <<taken, raised>>
    <3>1. CASE HNext
      <4>1. \A d \in Device, r \in Request : ~ Replaces(r, d)
        BY <1>4 DEF Replaces
      <4>2. taken' = [d \in Device |-> taken[d]]
        BY <3>1, <4>1 DEF HNext
      <4> QED BY <1>4, <3>1, <4>2 DEF HNext, alertVars, HistoryOK
    <3>2. CASE UNCHANGED <<vars, history>>
      BY <3>2 DEF history
    <3> QED BY <3>1, <3>2
  <2>2. ASSUME NEW d \in Device, NEW k \in Key
        PROVE  Counted(d, k)'
    <3>1. /\ Alerted(d)' = Alerted(d) /\ Rises(d, k)' = Rises(d, k)
          /\ Pending(d, k)' = Pending(d, k)
      BY <1>4, <2>1 DEF Alerted, Rises, Risen, Pending, Raising, alertVars
    <3> QED BY <2>1, <3>1 DEF Counted, HistoryOK
  <2> QED BY <1>2, <2>1, <2>2 DEF HistoryOK
<1>5. UNCHANGED <<vars, history>> => UNCHANGED <<job, devices, alertVars>>
  BY DEF vars, alertVars
<1> QED BY <1>1, <1>3, <1>4, <1>5, StepOwner

\* Whatever the interleaving of frames, registrations and deletions of a device
\* and however small the ring, a flag alerts exactly once for each time it rises
\* in the order in which new_alert_flags takes the frames (store.rs), although
\* the frames' alerts are pushed one by one and in any order.
THEOREM RisesAlertOnce == HSpec => []AlertPerRisingEdge
<1>1. TypeInv /\ HistoryOK => AlertPerRisingEdge
  <2> SUFFICES ASSUME TypeInv, HistoryOK, NEW d \in Device, NEW k \in Key, Quiet(d)
               PROVE  raised[d][k] = Cardinality(Rises(d, k))
    BY DEF AlertPerRisingEdge
  <2>1. Pending(d, k) = {}
    BY DEF Pending, Raising, Quiet, InFlight
  <2>2. Counted(d, k) /\ raised[d][k] \in Nat
    BY DEF HistoryOK
  <2>3. raised[d][k] + 0 = Cardinality(Rises(d, k))
    BY <2>1, <2>2, FS_EmptySet DEF Counted
  <2> QED BY <2>2, <2>3
<1> QED BY <1>1, HistoryInit, HistoryStep, PTL DEF HSpec
-----------------------------------------------------------------------------
(* Module ControlPlane: the controller keeps its promises with the agent   *)
(* as one of its clients, and an agent whose device gets one request at a  *)
(* time mirrors the controller's revisions.                                *)

USE PlaneAssumption

-----------------------------------------------------------------------------
(* The agent is one of the controller's clients.                           *)

LEMMA BootArrives ==
  ASSUME NEW r \in Boots, AgentBoot(r)
  PROVE  r \in Request /\ Arrive(r)
BY DEF AgentBoot, Arrive

LEMMA AgentActs ==
  ASSUME PlaneNext
  PROVE  \/ \E r \in Request : Arrive(r) \/ Continue(r)
         \/ \E s \in Stream : StreamStep(s)
         \/ \E s \in Stream : AgentConnect(s) /\ OpenStream(s, Self)
         \/ agent.pc = "online" /\ ClientLeaves(agent.conn)
         \/ UNCHANGED vars
<1>1. ASSUME NEW r \in Request \ Boots, ClientRequest(r)
      PROVE  Arrive(r)
  BY <1>1 DEF ClientRequest
<1>2. CASE ControllerStep
  BY <1>2 DEF ControllerStep
<1>3. CASE AgentStep
  <2>1. AgentPull \/ AgentReceive => UNCHANGED vars
    BY DEF AgentPull, AgentReceive
  <2>2. \A s \in Stream : AgentConnect(s) => OpenStream(s, Self)
    BY DEF AgentConnect
  <2> QED BY <1>3, <2>1, <2>2 DEF AgentStep
<1>4. CASE AgentDisconnect \/ AgentCrash
  BY <1>4 DEF AgentDisconnect, AgentCrash
<1> QED BY <1>1, <1>2, <1>3, <1>4, BootArrives DEF PlaneNext

-----------------------------------------------------------------------------
(* What the agent's fields hold.                                           *)

AgentOK ==
  /\ active \in Config
  /\ agent \in [pc: {"down", "registering", "offline", "online"},
                req: Request \cup {None}, conn: Stream \cup {None}, read: Nat]
  /\ agent.pc = "registering" => agent.req \in Request
  /\ agent.pc = "online" =>
       /\ agent.conn \in Stream /\ stream[agent.conn].pc # "idle"
       /\ stream[agent.conn].dev = Self
       /\ agent.read <= Len(sent[agent.conn])

LEMMA PlaceholderType == Replica!Placeholder \in Config
BY DEF Replica!Placeholder, Replica!EmptyConfig, Config, Version

LEMMA NextStep ==
  ASSUME AgentOK, [PlaneNext]_planeVars
  PROVE  [Next]_vars
<1>1. CASE UNCHANGED planeVars
  BY <1>1 DEF planeVars
<1>2. CASE PlaneNext
  BY <1>2, AgentActs DEF Next, AgentOK
<1> QED BY <1>1, <1>2

\* The agent's stream stays its own, and what was written to it stays written.
LEMMA StreamKept ==
  ASSUME TypeInv, [Next]_vars, NEW s \in Stream, stream[s].pc # "idle"
  PROVE  /\ stream'[s].pc # "idle" /\ stream'[s].dev = stream[s].dev
         /\ Len(sent'[s]) >= Len(sent[s])
<1>1. sent \in [Stream -> Seq(Config)] /\ stream[s] \in StreamTask
  BY DEF TypeInv, TypeOK
<1>2. Len(sent[s]) \in Nat
  BY <1>1
<1>3. CASE Subscribes(s)
  BY <1>2, <1>3 DEF Subscribes, Subscribe
<1>4. CASE Forwards(s)
  <2> DEFINE c == logs[stream[s].chan][stream[s].pos + 1]
  <2>1. sent' = [sent EXCEPT ![s] = Append(sent[s], c)]
    BY <1>4 DEF Forwards, Forward
  <2> HIDE DEF c
  <2>2. sent'[s] = Append(sent[s], c)
    BY <1>1, <2>1
  <2>3. Len(sent'[s]) = Len(sent[s]) + 1
    BY <1>1, <2>2
  <2> QED BY <1>2, <1>4, <2>3 DEF Forwards
<1>5. CASE Stays(s)
  BY <1>2, <1>5 DEF Stays
<1> QED BY <1>3, <1>4, <1>5, StreamEffect DEF Opens

LEMMA AgentInit == PlaneInit => AgentOK
BY PlaceholderType DEF PlaneInit, AgentOK, Down

LEMMA AgentTypeStep ==
  ASSUME TypeInv, AgentOK, [PlaneNext]_planeVars
  PROVE  AgentOK'
<1>1. [Next]_vars
  BY NextStep
<1>2. CASE UNCHANGED agentVars
  BY <1>1, <1>2, StreamKept DEF agentVars, AgentOK, TypeInv, TypeOK
<1>3. ASSUME NEW r \in Boots, AgentBoot(r)
      PROVE  AgentOK'
  BY <1>3, PlaceholderType DEF AgentBoot, Replica!Restart, Down, AgentOK
<1>4. CASE AgentPull
  <2>1. CASE Present(Self)
    <3>1. active' = devices[Self].cfg /\ agent' = Offline
      BY <1>4, <2>1 DEF AgentPull, Replica!Pull
    <3>2. devices[Self] \in Record
      BY <2>1 DEF Present, TypeInv, TypeOK
    <3>3. active' \in Config
      BY <3>1, <3>2 DEF Record
    <3> QED BY <3>1, <3>3 DEF Offline, Down, AgentOK
  <2>2. CASE ~ Present(Self)
    BY <1>4, <2>2 DEF AgentPull, Down, AgentOK
  <2> QED BY <2>1, <2>2
<1>5. ASSUME NEW s \in Stream, AgentConnect(s)
      PROVE  AgentOK'
  <2> DEFINE t == [IdleStream EXCEPT !.pc = "upgrading", !.dev = Self]
  <2>1. t.pc = "upgrading" /\ t.dev = Self
    BY DEF IdleStream
  <2>2. stream' = [stream EXCEPT ![s] = t]
    BY <1>5 DEF AgentConnect, OpenStream
  <2> HIDE DEF t
  <2>3. stream'[s] = t
    BY <2>2 DEF TypeInv, TypeOK
  <2>4. agent' = [pc |-> "online", req |-> None, conn |-> s, read |-> 0]
    BY <1>5 DEF AgentConnect, Offline, Down
  <2>5. sent' = sent /\ Len(sent[s]) \in Nat
    BY <1>5 DEF AgentConnect, OpenStream, TypeInv, TypeOK
  <2>6. /\ agent' \in [pc: {"online"}, req: {None}, conn: Stream, read: Nat]
        /\ agent'.pc = "online" /\ agent'.conn = s /\ agent'.read = 0
    BY <2>4
  <2>7. active' = active
    BY <1>5 DEF AgentConnect
  <2> QED BY <2>1, <2>3, <2>5, <2>6, <2>7 DEF AgentOK
<1>6. CASE AgentReceive
  <2> DEFINE s == agent.conn
             c == sent[s][agent.read + 1]
  <2>1. s \in Stream /\ sent[s] \in Seq(Config) /\ agent.read \in Nat /\ agent.read < Len(sent[s])
    BY <1>6 DEF AgentReceive, AgentOK, TypeInv, TypeOK
  <2>2. c \in Config /\ agent.read + 1 <= Len(sent[s])
    BY <2>1
  <2>3. agent' = [agent EXCEPT !.read = agent.read + 1] /\ UNCHANGED <<stream, sent>>
    BY <1>6 DEF AgentReceive, vars
  <2>4. active' = active \/ active' = c
    BY <1>6 DEF AgentReceive, Replica!Commit
  <2> HIDE DEF c
  <2> QED BY <1>6, <2>1, <2>2, <2>3, <2>4 DEF AgentReceive, AgentOK
<1>7. CASE AgentDisconnect \/ AgentCrash
  BY <1>7 DEF AgentDisconnect, AgentCrash, Down, Offline, AgentOK
<1> QED BY <1>2, <1>3, <1>4, <1>5, <1>6, <1>7
     DEF PlaneNext, ClientRequest, ControllerStep, AgentStep, planeVars, agentVars

PlaneTyped == TypeInv /\ AgentOK

LEMMA PlaneTypedInit == PlaneInit => PlaneTyped
BY TypeInit, AgentInit DEF PlaneInit, PlaneTyped

LEMMA PlaneTypedStep == PlaneTyped /\ [PlaneNext]_planeVars => PlaneTyped'
BY NextStep, TypeStep, AgentTypeStep DEF PlaneTyped

\* With an agent that starts, pulls, connects, loses its connection and dies as
\* run_agent does, the controller takes only the steps it takes for any client:
\* what is proved of Controller holds of the composition.
THEOREM PlaneRefinesController == PlaneSpec => Spec
<1>1. PlaneInit => Init
  BY DEF PlaneInit
<1>2. PlaneTyped /\ [PlaneNext]_planeVars => [Next]_vars
  BY NextStep DEF PlaneTyped
<1> QED BY <1>1, <1>2, PlaneTypedInit, PlaneTypedStep, PTL DEF PlaneSpec, Spec

-----------------------------------------------------------------------------
(* While the history says that the device's requests are orderly, the      *)
(* device has one handler at a time and nobody but the agent registers it. *)

LEMMA PlaneStepOwner ==
  ASSUME PlaneTyped, [PlaneNext]_planeVars
  PROVE  \/ UNCHANGED job
         \/ \E r \in Request : /\ \A q \in Request \ {r} : job'[q] = job[q]
                               /\ \/ Continue(r) /\ UNCHANGED <<agentVars, orderly>>
                                  \/ ClientRequest(r) \/ (r \in Boots /\ AgentBoot(r))
<1> USE DEF PlaneTyped
<1>1. ASSUME NEW r \in Request, Arrive(r) \/ Continue(r)
      PROVE  \A q \in Request \ {r} : job'[q] = job[q]
  BY <1>1, OwnStep
<1>2. ASSUME NEW r \in Request \ Boots, ClientRequest(r)
      PROVE  \A q \in Request \ {r} : job'[q] = job[q]
  BY <1>1, <1>2 DEF ClientRequest
<1>3. CASE ControllerStep
  BY <1>1, <1>3 DEF ControllerStep, StreamStep, Subscribe, Forward, EndStream
<1>4. ASSUME NEW r \in Boots, AgentBoot(r)
      PROVE  r \in Request /\ \A q \in Request \ {r} : job'[q] = job[q]
  BY <1>1, <1>4, BootArrives
<1>5. CASE AgentStep
  <2>1. AgentPull \/ AgentReceive => UNCHANGED vars
    BY DEF AgentPull, AgentReceive
  <2> QED BY <1>5, <2>1 DEF AgentStep, AgentConnect, OpenStream, vars
<1>6. CASE AgentDisconnect \/ AgentCrash
  BY <1>6 DEF AgentDisconnect, AgentCrash, ClientLeaves, vars
<1>7. CASE UNCHANGED planeVars
  BY <1>7 DEF planeVars, vars
<1> QED BY <1>2, <1>3, <1>4, <1>5, <1>6, <1>7 DEF PlaneNext

LEMMA OrderlyStep ==
  ASSUME PlaneTyped, [PlaneNext]_planeVars, orderly', Sequential(Self)
  PROVE  Alone(Self)' /\ ProperArrival(Self)
<1> USE DEF PlaneTyped, Sequential
<1>1. CASE UNCHANGED job
  BY <1>1 DEF Alone, ProperArrival, InFlight
<1>2. ASSUME NEW r \in Request, \A q \in Request \ {r} : job'[q] = job[q], Continue(r)
      PROVE  Alone(Self)' /\ ProperArrival(Self)
  <2>1. InFlight(r) /\ (job'[r].pc = "done" \/ ContinuesTo(r))
    BY <1>2, ContinueEffect
  <2>2. Alone(Self)'
    BY <1>2, <2>1 DEF ContinuesTo, Alone, InFlight
  <2>3. ProperArrival(Self)
    BY <1>2, <2>1 DEF ProperArrival, InFlight
  <2> QED BY <2>2, <2>3
<1>3. ASSUME NEW r \in Request, \A q \in Request \ {r} : job'[q] = job[q], ClientRequest(r)
      PROVE  Alone(Self)' /\ ProperArrival(Self)
  <2>1. Arrive(r) /\ OneAtATime' /\ Follows(r)
    BY <1>3 DEF ClientRequest
  <2>2. Alone(Self)'
    BY <2>1 DEF OneAtATime, Alone
  <2>3. job'[r].pc = "replace" => job'[r].op \in {"apply", "put"}
    BY <2>1, ArriveEffect DEF ArrivalKnows
  <2>4. ProperArrival(Self)
    BY <1>3, <2>1, <2>3 DEF ProperArrival, Follows
  <2> QED BY <2>2, <2>4
<1>4. ASSUME NEW r \in Boots, \A q \in Request \ {r} : job'[q] = job[q], AgentBoot(r)
      PROVE  Alone(Self)' /\ ProperArrival(Self)
  <2>1. OneAtATime' /\ Register(r, Self, Home, Hostname, 1)
    BY <1>4 DEF AgentBoot
  <2> DEFINE j == [IdleJob EXCEPT !.pc = "channel", !.op = "register", !.dev = Self]
  <2>2. job' = [job EXCEPT ![r] = j] /\ job \in [Request -> Job]
    BY <2>1 DEF Register, TypeInv, TypeOK
  <2>3. j.pc = "channel"
    BY DEF IdleJob
  <2> HIDE DEF j
  <2>4. job'[r].pc = "channel"
    BY <2>2, <2>3
  <2> QED BY <1>4, <2>1, <2>4 DEF OneAtATime, Alone, ProperArrival
<1> QED BY <1>1, <1>2, <1>3, <1>4, PlaneStepOwner

LEMMA NoRegistration ==
  ASSUME PlaneTyped, [PlaneNext]_planeVars, orderly', Running'
  PROVE  ~ Registers(Self)
<1> SUFFICES ASSUME NEW r \in Request, job[r].pc = "idle", job'[r].pc = "channel",
                    job'[r].dev = Self
             PROVE  FALSE
  BY DEF Registers
<1>1. PICK q \in Request : /\ \A p \in Request \ {q} : job'[p] = job[p]
                           /\ \/ Continue(q) \/ ClientRequest(q)
                              \/ (q \in Boots /\ AgentBoot(q))
  BY PlaneStepOwner
<1>2. q = r
  BY <1>1
<1>3. ~ Continue(r)
  BY ContinueEffect DEF InFlight, PlaneTyped
<1>4. ~ ClientRequest(r)
  <2> SUFFICES ASSUME ClientRequest(r) PROVE FALSE
    OBVIOUS
  <2>1. Arrive(r) /\ Follows(r)
    BY DEF ClientRequest
  <2>2. job'[r].op = "register"
    BY <2>1, ArriveEffect DEF ArrivalKnows, PlaneTyped
  <2> QED BY <2>1, <2>2 DEF Follows
<1>5. ~ AgentBoot(r)
  BY DEF AgentBoot, Down, Running
<1> QED BY <1>1, <1>2, <1>3, <1>4, <1>5

-----------------------------------------------------------------------------
(* What is on its way to the agent is what the controller stored.          *)

\* c is d, perhaps under another hostname, or an earlier revision.
Behind(c, d) == c.version <= d.version /\ (c.version = d.version => SameButHost(c, d))

Stored == devices[Self].cfg

\* What the agent has not read of its connection, and what the stream has not
\* forwarded of its channel.
Incoming(s, n) ==
  /\ \A i \in n + 1 .. Len(sent[s]) : Behind(sent[s][i], Stored)
  /\ stream[s].pc = "open" =>
       \A i \in stream[s].pos + 1 .. Len(logs[stream[s].chan]) :
         Behind(logs[stream[s].chan][i], Stored)

Mirrors ==
  orderly /\ Running /\ Present(Self) =>
    /\ Behind(active, Stored)
    /\ agent.pc = "online" => Incoming(agent.conn, agent.read)

LEMMA BehindGrows ==
  ASSUME NEW c \in Config, NEW d \in Config, NEW e \in Config, Behind(c, d),
         SameButHost(e, d) \/ IsStrictlyNewerThan(e, d)
  PROVE  Behind(c, e)
BY DEF Behind, IsStrictlyNewerThan, SameButHost, Config, Version

\* The stored revision only grows under a running agent.
LEMMA StoredGrows ==
  ASSUME PlaneTyped, [PlaneNext]_planeVars, orderly', Running', Sequential(Self), Present(Self)'
  PROVE  /\ Present(Self) /\ Stored \in Config /\ Stored' \in Config
         /\ SameButHost(Stored', Stored) \/ IsStrictlyNewerThan(Stored', Stored)
<1> USE DEF PlaneTyped, Sequential
<1>1. [Next]_vars /\ ~ Registers(Self)
  BY NextStep, NoRegistration
<1>2. Present(Self)
  <2>1. CASE devices'[Self] = devices[Self]
    BY <2>1 DEF Present
  <2>2. CASE devices'[Self] # devices[Self]
    <3>1. PICK r \in Request : Arrive(r) \/ Continue(r)
      BY <1>1, <2>2, StepOwner
    <3>2. ~ (Arrive(r) /\ job'[r].pc = "channel" /\ job'[r].dev = Self)
      BY <1>1, ArriveEffect DEF Registers
    <3>3. Reinsert(r) /\ job[r].seen.cfg.dev = Self => Present(Self)
      BY DEF Reinsert, Named, UpToDate
    <3> QED BY <2>2, <3>1, <3>2, <3>3, RecordEffect
  <2> QED BY <2>1, <2>2
<1>3. TypeInv'
  BY <1>1, TypeStep
<1>4. devices[Self] \in Record /\ devices'[Self] \in Record
  BY <1>2, <1>3 DEF Present, TypeInv, TypeOK
<1>5. Stored \in Config /\ Stored' \in Config
  BY <1>4 DEF Stored, Record
<1>6. Stored' # Stored => \/ IsStrictlyNewerThan(Stored', Stored)
                          \/ SameButHost(Stored', Stored)
  BY <1>1, <1>2, RevisionStep DEF Stored
<1> QED BY <1>2, <1>5, <1>6 DEF SameButHost

\* Whatever is behind the stored configuration stays behind it.
LEMMA BehindKept ==
  ASSUME PlaneTyped, [PlaneNext]_planeVars, orderly', Running', Sequential(Self), Present(Self)'
  PROVE  \A c \in Config : Behind(c, Stored) => Behind(c, Stored')
BY StoredGrows, BehindGrows

\* A configuration that is sent on the device's channel is the stored one.
LEMMA SendsStored ==
  ASSUME PlaneTyped, Owned, Sequential(Self), NEW s \in Stream, stream[s].dev = Self,
         stream[s].chan # 0,
         NEW r \in Request, SendConfig(r), chan[job[r].cfg.dev] = stream[s].chan
  PROVE  job[r].cfg = Stored /\ job[r].cfg \in Config /\ UNCHANGED devices
<1>1. job[r].cfg \in Config /\ job[r].pc = "send"
  BY DEF SendConfig, PlaneTyped, TypeInv, HandlerOK, LocalsOK
<1>2. job[r].cfg.dev \in Device
  BY <1>1 DEF Config
<1>3. job[r].cfg.dev = Self
  BY <1>2 DEF Owned
<1> QED BY <1>1, <1>3 DEF Sequential, Named, UpToDate, Stored, SendConfig

\* A step of the controller keeps what is on its way behind what is stored.
LEMMA IncomingStep ==
  ASSUME PlaneTyped, Owned, [PlaneNext]_planeVars, orderly', Running', Sequential(Self),
         Present(Self)', NEW s \in Stream, stream[s].dev = Self, stream[s].pc # "idle",
         NEW n \in Nat, Incoming(s, n)
  PROVE  Incoming(s, n)'
<1> USE DEF PlaneTyped
<1>1. [Next]_vars
  BY NextStep
<1>2. TypeInv'
  BY <1>1, TypeStep
<1>3. /\ logs \in Seq(Seq(Config)) /\ logs' \in Seq(Seq(Config))
      /\ sent \in [Stream -> Seq(Config)] /\ sent' \in [Stream -> Seq(Config)]
      /\ sent[s] \in Seq(Config)
  BY <1>2 DEF TypeInv, TypeOK
<1>4. stream[s].pc = "open" => /\ stream[s].chan \in 1 .. Len(logs)
                               /\ stream[s].pos \in Nat
                               /\ logs[stream[s].chan] \in Seq(Config)
  BY <1>3 DEF TypeInv, TypeOK, StreamOK, StreamTask
<1>5. ASSUME NEW i \in n + 1 .. Len(sent[s])
      PROVE  Behind(sent[s][i], Stored')
  <2>1. sent[s][i] \in Config
    BY <1>3
  <2> QED BY <1>5, <2>1, BehindKept DEF Incoming
<1>6. ASSUME stream[s].pc = "open", NEW i \in stream[s].pos + 1 .. Len(logs[stream[s].chan])
      PROVE  Behind(logs[stream[s].chan][i], Stored')
  <2>1. logs[stream[s].chan][i] \in Config
    BY <1>4, <1>6
  <2> QED BY <1>6, <2>1, BehindKept DEF Incoming
<1>7. CASE Subscribes(s)
  <2>1. sent' = sent
    BY <1>7 DEF Subscribes, Subscribe
  <2>2. stream'[s].pos = Len(logs'[stream'[s].chan]) /\ stream'[s].pos \in Nat
    BY <1>2, <1>7 DEF Subscribes, TypeInv, TypeOK, StreamTask
  <2> QED BY <1>5, <2>1, <2>2 DEF Incoming
<1>8. CASE Forwards(s)
  <2> DEFINE log == logs[stream[s].chan]
             c   == log[stream[s].pos + 1]
  <2>1. /\ stream[s].pc = "open" /\ Len(log) - stream[s].pos > 0 /\ logs' = logs
        /\ sent' = [sent EXCEPT ![s] = Append(sent[s], c)]
    BY <1>8 DEF Forwards, Forward, Backlog, storeVars
  <2>2. log \in Seq(Config) /\ stream[s].pos \in Nat
    BY <1>4, <2>1
  <2>3. c \in Config /\ stream[s].pos + 1 \in stream[s].pos + 1 .. Len(log)
    BY <2>1, <2>2
  <2>4. Behind(c, Stored')
    BY <1>6, <2>1, <2>3
  <2>5. sent'[s] = Append(sent[s], c)
    BY <1>3, <2>1
  <2> HIDE DEF c
  <2>6. \A i \in n + 1 .. Len(sent'[s]) : Behind(sent'[s][i], Stored')
    BY <1>3, <1>5, <2>3, <2>4, <2>5
  <2>7. \A i \in stream'[s].pos + 1 .. Len(log) : Behind(log[i], Stored')
    <3>1. stream[s].pc = "open" /\ stream'[s].pos = stream[s].pos + 1
      BY <1>8, <2>1 DEF Forwards
    <3>2. stream'[s].pos + 1 .. Len(log) \subseteq stream[s].pos + 1 .. Len(log)
      <4>1. Len(log) \in Nat
        BY <2>2
      <4> HIDE DEF log
      <4> QED BY <2>2, <3>1, <4>1
    <3> QED BY <1>6, <3>1, <3>2
  <2>8. stream'[s].chan = stream[s].chan /\ logs' = logs
    BY <1>8, <2>1 DEF Forwards
  <2>9. \A i \in stream'[s].pos + 1 .. Len(logs'[stream'[s].chan]) :
          Behind(logs'[stream'[s].chan][i], Stored')
    BY <2>7, <2>8
  <2> HIDE DEF log
  <2> QED BY <2>6, <2>9 DEF Incoming
<1>9. CASE Stays(s)
  <2> DEFINE ch == stream[s].chan
  <2>1. \A i \in n + 1 .. Len(sent'[s]) : Behind(sent'[s][i], Stored')
    BY <1>5, <1>9 DEF Stays
  <2>2. ASSUME stream'[s].pc = "open", NEW i \in stream[s].pos + 1 .. Len(logs'[ch])
        PROVE  Behind(logs'[ch][i], Stored')
    <3>1. stream[s].pc = "open"
      BY <1>9, <2>2 DEF Stays
    <3>2. CASE logs'[ch] = logs[ch]
      BY <1>6, <2>2, <3>1, <3>2
    <3>3. ASSUME NEW r \in Request, SendConfig(r), chan[job[r].cfg.dev] = ch,
                 logs'[ch] = Append(logs[ch], job[r].cfg)
          PROVE  Behind(logs'[ch][i], Stored')
      <4>1. ch # 0
        BY <1>4, <3>1
      <4>2. job[r].cfg = Stored /\ job[r].cfg \in Config /\ UNCHANGED devices
        BY <3>3, <4>1, SendsStored
      <4>3. Behind(job[r].cfg, Stored')
        BY <4>2 DEF Behind, Stored, SameButHost, Config, Version
      <4>4. i \in stream[s].pos + 1 .. Len(logs[ch]) \/ i = Len(logs[ch]) + 1
        BY <1>4, <2>2, <3>1, <3>3, <4>2
      <4>5. CASE i = Len(logs[ch]) + 1
        BY <1>4, <3>1, <3>3, <4>2, <4>3, <4>5
      <4>6. CASE i \in stream[s].pos + 1 .. Len(logs[ch])
        <5>1. logs'[ch][i] = logs[ch][i]
          BY <1>4, <3>1, <3>3, <4>2, <4>6
        <5> QED BY <1>6, <3>1, <4>6, <5>1
      <4> QED BY <4>4, <4>5, <4>6
    <3> QED BY <1>1, <1>4, <3>1, <3>2, <3>3, ChannelEffect
  <2> QED BY <1>9, <2>1, <2>2 DEF Incoming, Stays
<1> QED BY <1>1, <1>7, <1>8, <1>9, StreamEffect DEF Opens

LEMMA MirrorsStep ==
  ASSUME PlaneTyped, Owned, [PlaneNext]_planeVars, orderly => Sequential(Self), Mirrors
  PROVE  Mirrors'
<1> SUFFICES ASSUME orderly', Running', Present(Self)'
             PROVE  /\ Behind(active', Stored')
                    /\ agent'.pc = "online" => Incoming(agent.conn, agent.read)'
  BY DEF Mirrors
<1> USE DEF PlaneTyped
<1>1. orderly
  <2>1. ~ AgentStep \/ UNCHANGED orderly
    BY DEF AgentStep, AgentPull, AgentConnect, AgentReceive
  <2> QED BY <2>1 DEF PlaneNext, ClientRequest, ControllerStep, AgentBoot, AgentDisconnect,
                      AgentCrash, planeVars
<1>2. Present(Self) /\ Sequential(Self)
  BY <1>1, StoredGrows
<1>3. \A c \in Config : Behind(c, Stored) => Behind(c, Stored')
  BY <1>2, BehindKept
<1>4. active \in Config
  BY DEF AgentOK
<1>5. CASE UNCHANGED agentVars
  <2>1. Running /\ UNCHANGED <<active, agent>>
    BY <1>5 DEF Running, agentVars
  <2>2. Behind(active', Stored')
    BY <1>1, <1>2, <1>3, <1>4, <2>1 DEF Mirrors
  <2>3. ASSUME agent.pc = "online"
        PROVE  Incoming(agent.conn, agent.read)'
    <3> DEFINE s == agent.conn
               n == agent.read
    <3>1. s \in Stream /\ stream[s].dev = Self /\ stream[s].pc # "idle" /\ n \in Nat
      BY <2>3 DEF AgentOK
    <3>2. Incoming(s, n)
      BY <1>1, <1>2, <2>1, <2>3 DEF Mirrors
    <3>3. /\ \A i \in n + 1 .. Len(sent'[s]) : Behind(sent'[s][i], Stored')
          /\ stream'[s].pc = "open" =>
               \A i \in stream'[s].pos + 1 .. Len(logs'[stream'[s].chan]) :
                 Behind(logs'[stream'[s].chan][i], Stored')
      BY <1>2, <3>1, <3>2, IncomingStep DEF Incoming
    <3> QED BY <2>1, <3>3 DEF Incoming
  <2> QED BY <2>1, <2>2, <2>3
<1>6. CASE AgentPull
  <2>1. active' = Stored /\ agent' = Offline /\ Stored' = Stored
    BY <1>2, <1>6 DEF AgentPull, Replica!Pull, Stored, vars
  <2>2. Behind(Stored, Stored)
    BY <1>2, StoredGrows DEF Behind, SameButHost, Config, Version
  <2> QED BY <2>1, <2>2 DEF Offline, Down
<1>7. ASSUME NEW s \in Stream, AgentConnect(s)
      PROVE  /\ Behind(active', Stored')
             /\ agent'.pc = "online" => Incoming(agent.conn, agent.read)'
  <2>1. /\ Running /\ active' = active /\ OpenStream(s, Self)
        /\ agent' = [pc |-> "online", req |-> None, conn |-> s, read |-> 0]
    BY <1>7 DEF AgentConnect, Running, Offline, Down
  <2>2. Behind(active', Stored')
    BY <1>1, <1>2, <1>3, <1>4, <2>1 DEF Mirrors
  <2> DEFINE t == [IdleStream EXCEPT !.pc = "upgrading", !.dev = Self]
  <2>3. t.pc = "upgrading"
    BY DEF IdleStream
  <2>4. stream' = [stream EXCEPT ![s] = t] /\ sent' = sent
    BY <2>1 DEF OpenStream
  <2> HIDE DEF t
  <2>5. stream'[s].pc = "upgrading" /\ sent'[s] = <<>>
    BY <2>1, <2>3, <2>4 DEF OpenStream, TypeInv, TypeOK, StreamOK
  <2> QED BY <2>1, <2>2, <2>5 DEF Incoming
<1>8. CASE AgentReceive
  <2> DEFINE s == agent.conn
             n == agent.read
             c == sent[s][n + 1]
  <2>1. agent.pc = "online" /\ n \in Nat /\ n < Len(sent[s]) /\ UNCHANGED vars
    BY <1>8 DEF AgentReceive, AgentOK
  <2>2. Behind(active, Stored) /\ Incoming(s, n)
    BY <1>1, <1>2, <2>1 DEF Mirrors, Running
  <2>3. s \in Stream /\ Len(sent[s]) \in Nat
    BY <2>1 DEF AgentOK, TypeInv, TypeOK
  <2>4. Behind(c, Stored)
    BY <2>1, <2>2, <2>3 DEF Incoming
  <2>5. active' = active \/ active' = c
    BY <1>8 DEF AgentReceive, Replica!Commit
  <2>6. agent'.conn = s /\ agent'.read = n + 1
    BY <1>8 DEF AgentReceive, AgentOK
  <2>7. Stored' = Stored /\ stream' = stream /\ sent' = sent /\ logs' = logs
    BY <2>1 DEF Stored, vars
  <2>8. \A i \in n + 1 + 1 .. Len(sent[s]) : i \in n + 1 .. Len(sent[s])
    BY <2>1, <2>3
  <2> HIDE DEF c
  <2> QED BY <2>2, <2>4, <2>5, <2>6, <2>7, <2>8 DEF Incoming
<1>9. CASE AgentDisconnect
  <2>1. Running /\ active' = active /\ agent' = Offline
    BY <1>9 DEF AgentDisconnect, Running
  <2> QED BY <1>1, <1>2, <1>3, <1>4, <2>1 DEF Mirrors, Offline, Down
<1>10. ASSUME NEW r \in Boots, AgentBoot(r)
       PROVE  FALSE
  BY <1>10 DEF AgentBoot, Running, Down
<1>11. CASE AgentCrash
  BY <1>11 DEF AgentCrash, Running, Down
<1> QED BY <1>5, <1>6, <1>7, <1>8, <1>9, <1>10, <1>11
     DEF PlaneNext, ClientRequest, ControllerStep, AgentStep, planeVars, agentVars

PlaneInv == PlaneTyped /\ Owned /\ (orderly => Sequential(Self)) /\ Mirrors

LEMMA PlaneInvInit == PlaneInit => PlaneInv
<1> SUFFICES ASSUME PlaneInit PROVE PlaneInv
  OBVIOUS
<1>1. Init /\ agent = Down
  BY DEF PlaneInit
<1>2. Mirrors
  BY <1>1 DEF Down, Running, Mirrors
<1> QED BY <1>1, <1>2, PlaneTypedInit, OwnedInit, SequentialInit DEF PlaneInv

LEMMA PlaneInvStep == PlaneInv /\ [PlaneNext]_planeVars => PlaneInv'
<1> SUFFICES ASSUME PlaneInv, [PlaneNext]_planeVars PROVE PlaneInv'
  OBVIOUS
<1> USE DEF PlaneInv
<1>1. PlaneTyped' /\ [Next]_vars
  BY PlaneTypedStep, NextStep DEF PlaneTyped
<1>2. Owned' /\ Mirrors'
  BY <1>1, OwnedStep, MirrorsStep DEF PlaneTyped
<1>3. ASSUME orderly' PROVE Sequential(Self)'
  <2>1. Sequential(Self)
    BY <1>3 DEF PlaneNext, ClientRequest, ControllerStep, AgentStep, AgentPull, AgentConnect,
       AgentReceive, AgentBoot, AgentDisconnect, AgentCrash, planeVars
  <2> QED BY <1>1, <1>3, <2>1, OrderlyStep, SequentialStep DEF PlaneTyped
<1> QED BY <1>1, <1>2, <1>3

\* While the requests for its device come one after the other, from clients that
\* register nothing, put nothing unchecked and address their bodies, a running
\* agent is never ahead of the controller, and what it runs under the stored
\* version is the stored configuration but for its hostname, through crashes,
\* restarts, lost connections, lagging streams, renames and deletions (agent.rs,
\* controller.rs, update_meta in store.rs).
THEOREM AgentMirrorsController == PlaneSpec => []AgentFollows
<1>1. PlaneInv => AgentFollows
  BY DEF PlaneInv, Mirrors, Behind, Stored, AgentFollows
<1> QED BY <1>1, PlaneInvInit, PlaneInvStep, PTL DEF PlaneSpec
=============================================================================
