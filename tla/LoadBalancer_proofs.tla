------------------------ MODULE LoadBalancer_proofs -------------------------
(***************************************************************************)
(* Theorems about modules LoadBalancer and BalancerHistory, for every      *)
(* pool, every finite set of clients and every limit: the counters of      *)
(* pools and backends are exact, clients are let in below the limit and    *)
(* refused for a reason, and a reload settles.                             *)
(***************************************************************************)
EXTENDS BalancerHistory, FiniteSetTheorems, TLAPS

-----------------------------------------------------------------------------
(* The counter is a number and the set of served clients follows task, so  *)
(* the invariant says that every client has a task with a place, and that  *)
(* the backlog holds each waiting client once.                             *)

IsTask(t) == "pc" \in DOMAIN t /\ t.pc \in Pc

TasksOK == DOMAIN task = Client /\ \A c \in Client : IsTask(task[c])

BacklogOK ==
  /\ queue \in Seq(Client)
  /\ \A i \in DOMAIN queue : task[queue[i]].pc = "queued"
  /\ \A i, j \in DOMAIN queue : i # j => queue[i] # queue[j]

CountInv == TasksOK /\ BacklogOK /\ limit \in Nat /\ ActiveCountsClients

-----------------------------------------------------------------------------
(* What one client's step does to the clients being served.                *)

LEMMA TaskUpdate ==
  ASSUME TasksOK, NEW c \in Client, NEW t, IsTask(t), task' = [task EXCEPT ![c] = t]
  PROVE  /\ TasksOK'
         /\ \A e \in Client : task'[e] = IF e = c THEN t ELSE task[e]
         /\ Served' = IF t.pc \in Inside THEN Served \cup {c} ELSE Served \ {c}
<1>1. DOMAIN task' = Client
  BY DEF TasksOK
<1>2. \A e \in Client : task'[e] = IF e = c THEN t ELSE task[e]
  BY DEF TasksOK
<1>3. TasksOK'
  BY <1>1, <1>2 DEF TasksOK
<1>4. Served' = IF t.pc \in Inside THEN Served \cup {c} ELSE Served \ {c}
  BY <1>2 DEF Served
<1> QED BY <1>2, <1>3, <1>4

LEMMA PcUpdate ==
  ASSUME TasksOK, NEW c \in Client, NEW pc \in Pc
  PROVE  /\ IsTask([task[c] EXCEPT !.pc = pc])
         /\ [task[c] EXCEPT !.pc = pc].pc = pc
         /\ [task EXCEPT ![c].pc = pc] = [task EXCEPT ![c] = [task[c] EXCEPT !.pc = pc]]
<1> DEFINE t == task[c]
           u == [t EXCEPT !.pc = pc]
<1>1. IsTask(t)
  BY DEF TasksOK
<1>2. IsTask(u) /\ u.pc = pc
  BY <1>1 DEF IsTask
<1>3. [task EXCEPT ![c].pc = pc] = [task EXCEPT ![c] = u]
  OBVIOUS
<1> QED BY <1>2, <1>3

LEMMA IdleIsTask == IsTask(IdleTask) /\ IdleTask.pc = "idle"
BY DEF IsTask, IdleTask, Pc

LEMMA ClosedIsTask == IsTask(ClosedTask) /\ ClosedTask.pc = "closed"
BY DEF IsTask, ClosedTask, IdleTask, Pc

LEMMA ServedFinite ==
  ASSUME IsFiniteSet(Client)
  PROVE  IsFiniteSet(Served) /\ Cardinality(Served) \in Nat
BY FS_Subset, FS_CardinalityType DEF Served

\* A client that waits is not served, and one that is served does not wait.
LEMMA WaitingNotServed == "queued" \notin Inside /\ "queued" \in Pc
BY DEF Inside, Pc

\* The task goes on and stays on the counter.
LEMMA GoesOn ==
  ASSUME CountInv, NEW c \in Client, NEW t, IsTask(t),
         task[c].pc \in Inside, t.pc \in Inside,
         task' = [task EXCEPT ![c] = t],
         active' = active, queue' = queue, limit' = limit
  PROVE  CountInv'
<1>1. /\ TasksOK'
      /\ \A e \in Client : task'[e] = IF e = c THEN t ELSE task[e]
      /\ Served' = Served \cup {c}
  BY TaskUpdate DEF CountInv
<1>2. c \in Served
  BY DEF Served
<1>3. Served' = Served
  BY <1>1, <1>2
<1>4. ActiveCountsClients'
  BY <1>3 DEF CountInv, ActiveCountsClients
<1>5. BacklogOK'
  <2>1. \A i \in DOMAIN queue : queue[i] \in Client /\ queue[i] # c
    BY WaitingNotServed DEF CountInv, BacklogOK
  <2> QED BY <1>1, <2>1 DEF CountInv, BacklogOK
<1> QED BY <1>1, <1>4, <1>5 DEF CountInv

\* The task ends and is taken off the counter.
LEMMA Departs ==
  ASSUME IsFiniteSet(Client), CountInv, NEW c \in Client, NEW t, IsTask(t),
         task[c].pc \in Inside, t.pc \notin Inside,
         task' = [task EXCEPT ![c] = t],
         active' = active - 1, queue' = queue, limit' = limit
  PROVE  CountInv'
<1>1. /\ TasksOK'
      /\ \A e \in Client : task'[e] = IF e = c THEN t ELSE task[e]
      /\ Served' = Served \ {c}
  <2>1. TasksOK
    BY DEF CountInv
  <2>2. TasksOK'
    BY <2>1, TaskUpdate
  <2>3. \A e \in Client : task'[e] = IF e = c THEN t ELSE task[e]
    BY <2>1 DEF TasksOK
  <2>4. Served' = IF t.pc \in Inside THEN Served \cup {c} ELSE Served \ {c}
    BY <2>1, TaskUpdate
  <2>5. Served' = Served \ {c}
    BY <2>4
  <2> QED BY <2>2, <2>3, <2>5
<1>2. c \in Served
  BY DEF Served
<1>3. Cardinality(Served') = Cardinality(Served) - 1
  BY <1>1, <1>2, ServedFinite, FS_RemoveElement
<1>4. ActiveCountsClients'
  BY <1>3 DEF CountInv, ActiveCountsClients
<1>5. BacklogOK'
  <2>1. \A i \in DOMAIN queue : queue[i] \in Client /\ queue[i] # c
    BY WaitingNotServed DEF CountInv, BacklogOK
  <2> QED BY <1>1, <2>1 DEF CountInv, BacklogOK
<1> QED BY <1>1, <1>4, <1>5 DEF CountInv

\* A step that touches neither tasks nor counter nor backlog.
LEMMA Elsewhere ==
  ASSUME CountInv, task' = task, active' = active, queue' = queue, limit' \in Nat
  PROVE  CountInv'
BY DEF CountInv, TasksOK, BacklogOK, ActiveCountsClients, Served

-----------------------------------------------------------------------------
(* The accept loop.                                                        *)

\* Taking the head of the backlog: who it is, and what stays.
LEMMA HeadWaits ==
  ASSUME BacklogOK, queue # <<>>
  PROVE  /\ Head(queue) \in Client
         /\ task[Head(queue)].pc = "queued"
         /\ Tail(queue) \in Seq(Client)
         /\ \A i \in DOMAIN Tail(queue) :
              i + 1 \in DOMAIN queue /\ Tail(queue)[i] = queue[i + 1]
         /\ \A i \in DOMAIN Tail(queue) : Tail(queue)[i] # Head(queue)
<1>1. queue \in Seq(Client) /\ 1 \in DOMAIN queue /\ Head(queue) = queue[1]
  BY DEF BacklogOK
<1>2. Head(queue) \in Client /\ task[Head(queue)].pc = "queued"
  BY <1>1 DEF BacklogOK
<1>3. /\ Tail(queue) \in Seq(Client)
      /\ \A i \in DOMAIN Tail(queue) :
           i \in Nat /\ i >= 1 /\ i + 1 \in DOMAIN queue /\ Tail(queue)[i] = queue[i + 1]
  BY <1>1
<1>4. \A i \in DOMAIN Tail(queue) : Tail(queue)[i] # Head(queue)
  <2>1. SUFFICES ASSUME NEW i \in DOMAIN Tail(queue)
                 PROVE  queue[i + 1] # queue[1]
    BY <1>1, <1>3
  <2>2. i + 1 \in DOMAIN queue /\ i + 1 # 1
    BY <1>3
  <2> QED BY <1>1, <2>2 DEF BacklogOK
<1> QED BY <1>2, <1>3, <1>4

LEMMA ShorterBacklog ==
  ASSUME TasksOK, BacklogOK, queue # <<>>, NEW c, c = Head(queue), NEW t, IsTask(t),
         task' = [task EXCEPT ![c] = t], queue' = Tail(queue)
  PROVE  BacklogOK'
<1>1. c \in Client
  BY HeadWaits
<1>2. \A e \in Client : task'[e] = IF e = c THEN t ELSE task[e]
  BY <1>1, TaskUpdate
<1>3. /\ queue \in Seq(Client) /\ Tail(queue) \in Seq(Client)
      /\ \A i \in DOMAIN Tail(queue) :
           i + 1 \in DOMAIN queue /\ Tail(queue)[i] = queue[i + 1] /\ Tail(queue)[i] # c
  BY HeadWaits DEF BacklogOK
<1>4. \A i \in DOMAIN Tail(queue) : i \in Int /\ Tail(queue)[i] \in Client
  BY <1>3
<1>5. \A i \in DOMAIN Tail(queue) : task'[Tail(queue)[i]].pc = "queued"
  BY <1>2, <1>3, <1>4 DEF BacklogOK
<1>6. \A i, j \in DOMAIN Tail(queue) : i # j => Tail(queue)[i] # Tail(queue)[j]
  <2>1. SUFFICES ASSUME NEW i \in DOMAIN Tail(queue), NEW j \in DOMAIN Tail(queue), i # j
                 PROVE  queue[i + 1] # queue[j + 1]
    BY <1>3
  <2>2. i \in Int /\ j \in Int
    BY <1>4
  <2>3. i + 1 # j + 1
    BY <2>1, <2>2
  <2> QED BY <1>3, <2>3 DEF BacklogOK
<1> QED BY <1>3, <1>5, <1>6 DEF BacklogOK

\* A client of the backlog is let in, and counted.
LEMMA LetIn ==
  ASSUME IsFiniteSet(Client), CountInv, queue # <<>>, NEW c, c = Head(queue),
         NEW t, IsTask(t), t.pc \in Inside,
         task' = [task EXCEPT ![c] = t], queue' = Tail(queue),
         active' = active + 1, limit' = limit
  PROVE  CountInv'
<1>1. TasksOK /\ BacklogOK
  BY DEF CountInv
<1>2. c \in Client /\ task[c].pc = "queued"
  BY <1>1, HeadWaits
<1>3. BacklogOK'
  BY <1>1, ShorterBacklog
<1>4. TasksOK'
  BY <1>1, <1>2, TaskUpdate
<1>5. Served' = Served \cup {c}
  <2>1. Served' = IF t.pc \in Inside THEN Served \cup {c} ELSE Served \ {c}
    BY <1>1, <1>2, TaskUpdate
  <2> QED BY <2>1
<1>6. c \notin Served
  BY <1>2, WaitingNotServed DEF Served
<1>7. Cardinality(Served') = Cardinality(Served) + 1
  BY <1>5, <1>6, ServedFinite, FS_AddElement
<1>8. ActiveCountsClients'
  BY <1>7 DEF CountInv, ActiveCountsClients
<1> QED BY <1>3, <1>4, <1>8 DEF CountInv

\* A client of the backlog is turned away, and was never counted.
LEMMA TurnedAway ==
  ASSUME CountInv, queue # <<>>, NEW c, c = Head(queue),
         NEW t, IsTask(t), t.pc \notin Inside,
         task' = [task EXCEPT ![c] = t], queue' = Tail(queue),
         active' = active, limit' = limit
  PROVE  CountInv'
<1>1. TasksOK /\ BacklogOK
  BY DEF CountInv
<1>2. c \in Client /\ task[c].pc = "queued"
  BY <1>1, HeadWaits
<1>3. BacklogOK'
  BY <1>1, ShorterBacklog
<1>4. TasksOK'
  BY <1>1, <1>2, TaskUpdate
<1>5. Served' = Served \ {c}
  <2>1. Served' = IF t.pc \in Inside THEN Served \cup {c} ELSE Served \ {c}
    BY <1>1, <1>2, TaskUpdate
  <2> QED BY <2>1
<1>6. Served' = Served
  BY <1>2, <1>5, WaitingNotServed DEF Served
<1>7. ActiveCountsClients'
  BY <1>6 DEF CountInv, ActiveCountsClients
<1> QED BY <1>3, <1>4, <1>7 DEF CountInv

\* A client joins the backlog.
LEMMA Joins ==
  ASSUME CountInv, NEW c \in Client, task[c].pc = "idle",
         NEW t, IsTask(t), t.pc = "queued",
         task' = [task EXCEPT ![c] = t], queue' = Append(queue, c),
         active' = active, limit' = limit
  PROVE  CountInv'
<1>1. TasksOK /\ BacklogOK
  BY DEF CountInv
<1>2. TasksOK'
  BY <1>1, TaskUpdate
<1>3. \A e \in Client : task'[e] = IF e = c THEN t ELSE task[e]
  BY <1>1 DEF TasksOK
<1>4. Served' = Served
  BY <1>3, WaitingNotServed DEF Served, Inside
<1>5. ActiveCountsClients'
  BY <1>4 DEF CountInv, ActiveCountsClients
<1>6. \A i \in DOMAIN queue : queue[i] \in Client /\ queue[i] # c
  BY <1>1 DEF BacklogOK
<1>7. BacklogOK'
  <2>1. /\ queue' \in Seq(Client)
        /\ \A i \in DOMAIN queue' :
             \/ i \in DOMAIN queue /\ queue'[i] = queue[i]
             \/ i = Len(queue) + 1 /\ queue'[i] = c
    BY <1>1 DEF BacklogOK
  <2>2. \A i \in DOMAIN queue' : task'[queue'[i]].pc = "queued"
    BY <1>1, <1>3, <1>6, <2>1 DEF BacklogOK
  <2>3. \A i, j \in DOMAIN queue' : i # j => queue'[i] # queue'[j]
    BY <1>1, <1>6, <2>1 DEF BacklogOK
  <2> QED BY <2>1, <2>2, <2>3 DEF BacklogOK
<1> QED BY <1>2, <1>5, <1>7 DEF CountInv

LEMMA ServeStep ==
  ASSUME IsFiniteSet(Client), CountInv, Serve
  PROVE  CountInv'
<1> DEFINE head == Head(queue)
<1>1. TasksOK /\ BacklogOK /\ limit \in Nat
  BY DEF CountInv
<1>2. CASE AcceptFails
  BY <1>1, <1>2, Elsewhere DEF AcceptFails, accepts, settings
<1>3. CASE Reject
  <2>1. /\ queue # <<>> /\ task' = [task EXCEPT ![head] = ClosedTask]
        /\ queue' = Tail(queue) /\ active' = active /\ limit' = limit
    BY <1>3 DEF Reject, settings
  <2>2. ClosedTask.pc \notin Inside
    BY ClosedIsTask DEF Inside
  <2> QED BY <2>1, <2>2, ClosedIsTask, TurnedAway
<1>4. CASE Admit
  <2> DEFINE pc == IF pool.tls THEN "handshake" ELSE "accepted"
             t == [task[head] EXCEPT !.pc = pc]
  <2>1. queue # <<>> /\ queue' = Tail(queue) /\ active' = active + 1 /\ limit' = limit
    BY <1>4 DEF Admit, settings
  <2>2. head \in Client
    BY <1>1, <2>1, HeadWaits
  <2>3. pc \in Pc /\ pc \in Inside
    BY DEF Pc, Inside
  <2>4. task' = [task EXCEPT ![head].pc = pc]
    BY <1>4 DEF Admit, Goto
  <2> HIDE DEF head, pc
  <2>5. IsTask(t) /\ t.pc = pc /\ task' = [task EXCEPT ![head] = t]
    BY <1>1, <2>2, <2>3, <2>4, PcUpdate
  <2> HIDE DEF t
  <2>6. t.pc \in Inside
    BY <2>3, <2>5
  <2> QED BY <2>1, <2>5, <2>6, LetIn DEF head
<1>5. ASSUME NEW c \in Client, Arrive(c)
      PROVE  CountInv'
  <2> DEFINE t == [task[c] EXCEPT !.pc = "queued"]
  <2>1. /\ task[c].pc = "idle" /\ task' = [task EXCEPT ![c].pc = "queued"]
        /\ queue' = Append(queue, c) /\ active' = active /\ limit' = limit
    BY <1>5 DEF Arrive, At, Goto, settings
  <2>2. IsTask(t) /\ t.pc = "queued" /\ task' = [task EXCEPT ![c] = t]
    BY <1>1, <2>1, PcUpdate, WaitingNotServed
  <2> HIDE DEF t
  <2> QED BY <2>1, <2>2, Joins
<1>6. ASSUME NEW c \in Client, Handshake(c)
      PROVE  CountInv'
  <2> DEFINE t == [task[c] EXCEPT !.pc = "accepted"]
  <2>1. /\ task[c].pc = "handshake" /\ task' = [task EXCEPT ![c].pc = "accepted"]
        /\ queue' = queue /\ active' = active /\ limit' = limit
    BY <1>6 DEF Handshake, At, Goto, settings
  <2>2. "handshake" \in Inside /\ "accepted" \in Inside /\ "accepted" \in Pc
    BY DEF Inside, Pc
  <2>3. IsTask(t) /\ t.pc = "accepted" /\ task' = [task EXCEPT ![c] = t]
    BY <1>1, <2>1, <2>2, PcUpdate
  <2> HIDE DEF t
  <2> QED BY <2>1, <2>2, <2>3, GoesOn
<1>7. ASSUME NEW c \in Client, HandshakeFails(c)
      PROVE  CountInv'
  <2>1. /\ task[c].pc \in Inside /\ task' = [task EXCEPT ![c] = ClosedTask]
        /\ queue' = queue /\ active' = active - 1 /\ limit' = limit
    BY <1>7 DEF HandshakeFails, At, Inside, settings
  <2>2. ClosedTask.pc \notin Inside
    BY ClosedIsTask DEF Inside
  <2> QED BY <2>1, <2>2, ClosedIsTask, Departs
<1> QED BY <1>2, <1>3, <1>4, <1>5, <1>6, <1>7 DEF Serve

-----------------------------------------------------------------------------
(* The task of one connection.                                             *)

\* The ways a task is left by a step of handle: its pc alone changes; or a
\* backend is chosen; or a try is spent; or it starts with a list to try.
LEMMA HandleTasks ==
  ASSUME TasksOK, NEW c \in Client, NEW pc \in Inside, NEW x, NEW r, NEW list
  PROVE  LET t == task[c]
             moved == [t EXCEPT !.pc = pc]
             chosen == [t EXCEPT !.pc = pc, !.target = x]
             spent == [t EXCEPT !.pc = pc, !.tries = x]
             begun == [IdleTask EXCEPT !.pc = pc, !.route = r, !.snap = list, !.tries = x]
         IN  /\ IsTask(moved) /\ moved.pc = pc
             /\ IsTask(chosen) /\ chosen.pc = pc
             /\ IsTask(spent) /\ spent.pc = pc
             /\ IsTask(begun) /\ begun.pc = pc
<1> DEFINE t == task[c]
<1>1. IsTask(t) /\ pc \in Pc
  BY DEF TasksOK, Pc
<1>2. /\ IsTask([t EXCEPT !.pc = pc]) /\ [t EXCEPT !.pc = pc].pc = pc
  BY <1>1 DEF IsTask
<1>3. /\ IsTask([t EXCEPT !.pc = pc, !.target = x])
      /\ [t EXCEPT !.pc = pc, !.target = x].pc = pc
  BY <1>1 DEF IsTask
<1>4. /\ IsTask([t EXCEPT !.pc = pc, !.tries = x])
      /\ [t EXCEPT !.pc = pc, !.tries = x].pc = pc
  BY <1>1 DEF IsTask
<1>5. LET begun == [IdleTask EXCEPT !.pc = pc, !.route = r, !.snap = list, !.tries = x]
      IN  IsTask(begun) /\ begun.pc = pc
  BY <1>1, IdleIsTask DEF IsTask
<1> QED BY <1>2, <1>3, <1>4, <1>5

\* What every step of a task does but the last.
StaysInside(c) ==
  \E t : /\ task[c].pc \in Inside /\ IsTask(t) /\ t.pc \in Inside
         /\ task' = [task EXCEPT ![c] = t] /\ active' = active

LEMMA HandleStays ==
  ASSUME TasksOK, NEW c \in Client, Handle(c), ~Leave(c)
  PROVE  StaysInside(c)
<1>1. ASSUME NEW pc \in Inside, Goto(c, pc), task[c].pc \in Inside, active' = active
      PROVE  StaysInside(c)
  <2> DEFINE t == [task[c] EXCEPT !.pc = pc]
  <2>1. IsTask(t) /\ t.pc = pc
    BY HandleTasks
  <2>2. task' = [task EXCEPT ![c] = t]
    BY <1>1 DEF Goto
  <2> HIDE DEF t
  <2> QED BY <1>1, <2>1, <2>2 DEF StaysInside
<1>2. ASSUME Retry(c), task[c].pc \in Inside, active' = active
      PROVE  StaysInside(c)
  <2> DEFINE t == [task[c] EXCEPT !.pc = "pick", !.tries = @ - 1]
  <2>1. IsTask(t) /\ t.pc = "pick"
    BY DEF TasksOK, IsTask, Pc, Inside
  <2>2. task' = [task EXCEPT ![c] = t]
    BY <1>2 DEF Retry
  <2> HIDE DEF t
  <2> QED BY <1>2, <2>1, <2>2 DEF StaysInside, Inside
<1>3. ASSUME NEW r, Begin(c, r), task[c].pc \in Inside, active' = active
      PROVE  StaysInside(c)
  <2> DEFINE x == IF listed[r] = {} THEN 1 ELSE Cardinality(listed[r])
             t == [IdleTask EXCEPT !.pc = "pick", !.route = r, !.snap = listed[r],
                                   !.tries = x]
  <2>1. IsTask(t) /\ t.pc = "pick"
    BY IdleIsTask DEF IsTask, Pc, Inside
  <2>2. task' = [task EXCEPT ![c] = t]
    BY <1>3 DEF Begin
  <2> HIDE DEF t
  <2> QED BY <1>3, <2>1, <2>2 DEF StaysInside, Inside
<1>4. CASE Pick(c)
  <2>1. PICK k \in Candidates(c) :
          task' = [task EXCEPT ![c].pc = "dial", ![c].target = k]
    BY <1>4 DEF Pick
  <2> DEFINE t == [task[c] EXCEPT !.pc = "dial", !.target = k]
  <2>2. IsTask(t) /\ t.pc = "dial"
    BY DEF TasksOK, IsTask, Pc, Inside
  <2>3. task' = [task EXCEPT ![c] = t]
    BY <2>1
  <2> HIDE DEF t
  <2>4. task[c].pc \in Inside /\ "dial" \in Inside /\ active' = active
    BY <1>4 DEF Pick, At, Inside
  <2> QED BY <2>2, <2>3, <2>4 DEF StaysInside
<1>5. CASE Snapshot(c)
  BY <1>3, <1>5 DEF Snapshot, At, Inside
<1>6. CASE ReadHead(c)
  BY <1>3, <1>6 DEF ReadHead, At, Inside
<1>7. CASE \/ DialFails(c) \/ UploadFails(c) \/ ResponseFails(c)
  BY <1>2, <1>7 DEF DialFails, UploadFails, ResponseFails, At, Inside
<1>8. CASE \/ BadHead(c) \/ GiveUp(c) \/ Dial(c) \/ Finish(c)
  BY <1>1, <1>8 DEF BadHead, GiveUp, Dial, Finish, At, Inside
<1>9. CASE \/ OpenSession(c) \/ Upload(c) \/ UploadBreaks(c) \/ Respond(c)
  BY <1>1, <1>9 DEF OpenSession, Upload, UploadBreaks, Respond, At, Inside
<1> QED BY <1>4, <1>5, <1>6, <1>7, <1>8, <1>9 DEF Handle

LEMMA HandleStep ==
  ASSUME IsFiniteSet(Client), CountInv, NEW c \in Client, Handle(c)
  PROVE  CountInv'
<1>1. queue' = queue /\ limit' = limit
  BY DEF Handle, Snapshot, ReadHead, BadHead, Pick, GiveUp, Dial, DialFails, Finish,
         Leave, OpenSession, Upload, UploadFails, UploadBreaks, Respond, ResponseFails,
         accepts, settings
<1>2. CASE Leave(c)
  <2>1. /\ task[c].pc \in Inside /\ task' = [task EXCEPT ![c] = ClosedTask]
        /\ active' = active - 1
    BY <1>2 DEF Leave, Inside
  <2>2. ClosedTask.pc \notin Inside
    BY ClosedIsTask DEF Inside
  <2> QED BY <1>1, <2>1, <2>2, ClosedIsTask, Departs
<1>3. CASE ~Leave(c)
  <2>1. StaysInside(c)
    BY <1>3, HandleStays DEF CountInv
  <2>2. PICK t : /\ task[c].pc \in Inside /\ IsTask(t) /\ t.pc \in Inside
                 /\ task' = [task EXCEPT ![c] = t] /\ active' = active
    BY <2>1 DEF StaysInside
  <2> QED BY <1>1, <2>2, GoesOn
<1> QED BY <1>2, <1>3

-----------------------------------------------------------------------------
(* The checkers, the API and the services touch neither tasks nor backlog. *)

LEMMA OtherStep ==
  ASSUME CountInv,
         \/ \E r \in RouteNumber : Probe(r) \/ Report(r)
         \/ Api
         \/ \E a \in Addr : Service(a)
         \/ UNCHANGED vars
  PROVE  CountInv'
<1>1. limit \in Nat /\ Limit \subseteq Nat
  BY PoolAssumption DEF CountInv
<1>2. task' = task /\ active' = active /\ queue' = queue
  BY DEF Probe, Report, Api, ApiChange, Reload, ReloadStep, Override, Stop, Service,
         vars, accepts
<1>3. limit' \in Nat
  BY <1>1 DEF Probe, Report, Api, ApiChange, Reload, ReloadStep, Override, Stop, Service,
              vars, settings
<1> QED BY <1>2, <1>3, Elsewhere

LEMMA CountInvHolds ==
  ASSUME IsFiniteSet(Client)
  PROVE  Spec => []CountInv
<1>1. Init => CountInv
  <2> SUFFICES ASSUME Init
               PROVE  CountInv
    OBVIOUS
  <2>1. TasksOK
    BY IdleIsTask DEF Init, TasksOK
  <2>2. queue = <<>> /\ limit = 0 /\ active = 0
    BY DEF Init
  <2>3. BacklogOK
    BY <2>2 DEF BacklogOK
  <2>4. Served = {}
    BY IdleIsTask DEF Init, Served, Inside
  <2>5. ActiveCountsClients
    BY <2>2, <2>4, FS_EmptySet DEF ActiveCountsClients
  <2> QED BY <2>1, <2>2, <2>3, <2>5 DEF CountInv
<1>2. CountInv /\ [Next]_vars => CountInv'
  BY ServeStep, HandleStep, OtherStep DEF Next
<1> QED BY <1>1, <1>2, PTL DEF Spec

-----------------------------------------------------------------------------
\* The pool's counter is exact, whatever the number of clients, backends and
\* routes, whichever handshakes, heads, connects, copies and sessions fail,
\* and whatever the API and the checkers do meanwhile (tcp.rs and http.rs,
\* serve and the wrapper around handle).
THEOREM CounterIsExact ==
  ASSUME IsFiniteSet(Client)
  PROVE  Spec => []ActiveCountsClients
BY CountInvHolds, PTL DEF CountInv

\* Who waits in the backlog is let in by the accept loop or not at all.
LEMMA OnlyAdmitLetsIn ==
  ASSUME CountInv, [Next]_vars, NEW c \in Client, task[c].pc = "queued",
         task'[c].pc \in Inside
  PROVE  Admit
<1>1. TasksOK /\ DOMAIN task = Client /\ "queued" \notin Inside /\ "closed" \notin Inside
  BY DEF CountInv, TasksOK, Inside
<1>2. ASSUME NEW d \in Client, task[d].pc # "queued", NEW t,
             task' = [task EXCEPT ![d] = t]
      PROVE  FALSE
  BY <1>1, <1>2
<1>3. ASSUME task' = task
      PROVE  FALSE
  BY <1>1, <1>3
<1>4. CASE AcceptFails
  BY <1>3, <1>4 DEF AcceptFails
<1>5. CASE Reject
  <2>1. task'[c] = ClosedTask \/ task'[c] = task[c]
    BY <1>1, <1>5 DEF Reject
  <2> QED BY <1>1, <2>1, ClosedIsTask
<1>6. ASSUME NEW d \in Client, Arrive(d) \/ Handshake(d) \/ HandshakeFails(d)
      PROVE  FALSE
  <2> DEFINE gone == task[d].pc # "queued"
  <2>1. gone /\ (task'[c] = task[c] \/ c = d)
    BY <1>1, <1>6 DEF Arrive, Handshake, HandshakeFails, At, Goto
  <2> QED BY <1>1, <2>1
<1>7. ASSUME NEW d \in Client, Handle(d)
      PROVE  FALSE
  <2>1. CASE Leave(d)
    BY <1>1, <1>2, <2>1 DEF Leave
  <2>2. CASE ~Leave(d)
    <3>1. PICK t : task[d].pc \in Inside /\ task' = [task EXCEPT ![d] = t]
      BY <1>1, <1>7, <2>2, HandleStays DEF StaysInside
    <3> QED BY <1>1, <1>2, <3>1
  <2> QED BY <2>1, <2>2
<1>8. ASSUME \/ \E r \in RouteNumber : Probe(r) \/ Report(r)
             \/ Api
             \/ \E a \in Addr : Service(a)
             \/ UNCHANGED vars
      PROVE  FALSE
  <2>1. task' = task
    BY <1>8 DEF Probe, Report, Api, ApiChange, Reload, ReloadStep, Override, Stop,
                Service, vars
  <2> QED BY <1>3, <2>1
<1> QED BY <1>4, <1>5, <1>6, <1>7, <1>8 DEF Next, Serve

\* A connection is let in only while fewer than the limit in force are being
\* served and the pool is not draining (serve).  The accept loop compares the
\* counter; that this compares the clients is the theorem above.
THEOREM LimitHolds ==
  ASSUME IsFiniteSet(Client)
  PROVE  Spec => AdmittedUnderLimit
<1>1. CountInv /\ [Next]_vars =>
        [\A c \in Client :
           At(c, "queued") /\ task'[c].pc \in Inside =>
             ~drained /\ (limit = 0 \/ Cardinality(Served) < limit)]_vars
  <2> SUFFICES ASSUME CountInv, [Next]_vars, NEW c \in Client, At(c, "queued"),
                      task'[c].pc \in Inside
               PROVE  ~drained /\ (limit = 0 \/ Cardinality(Served) < limit)
    OBVIOUS
  <2>1. Admit
    BY OnlyAdmitLetsIn DEF At
  <2>2. active = Cardinality(Served) /\ active \in Nat /\ limit \in Nat
    BY ServedFinite DEF CountInv, ActiveCountsClients
  <2> QED BY <2>1, <2>2 DEF Admit, OverLimit
<1> QED BY <1>1, CountInvHolds, PTL DEF Spec, AdmittedUnderLimit

-----------------------------------------------------------------------------
(* What the objects, the lists, the checkers, a reload and the tasks hold. *)
(* An object stays where it is and keeps its address, so a number that a   *)
(* task, a checker or a reload remembers names the same object for ever.   *)

Object == [addr : Addr, healthy : BOOLEAN, active : Nat]
Routes == DOMAIN pool.routes

RouteOK(r) ==
  /\ backends[r] \in Seq(Object) /\ Len(backends[r]) <= MaxObjects
  /\ listed[r] \subseteq DOMAIN backends[r]
  /\ Len(pool.routes[r].backends) <= Len(backends[r])

ListsOK ==
  /\ DOMAIN backends = Routes /\ DOMAIN listed = Routes
  /\ \A r \in Routes : RouteOK(r)

CheckersOK ==
  /\ checker \in [Routes -> [at : Nat, answer : {"none", "ok", "failed"}]]
  /\ \A r \in Routes : pool.routes[r].backends # <<>> =>
       checker[r].at \in DOMAIN pool.routes[r].backends

ReloadOK ==
  /\ reload \in [want : Seq(Addr), add : SUBSET Nat, drop : SUBSET Nat]
  /\ reload.add \subseteq DOMAIN reload.want
  /\ Reloading => pool.kind = "tcp"
  /\ \A k \in reload.drop : k \in DOMAIN backends[1]

\* Where a task has a list it chooses from, and where a backend it has chosen.
Chosen  == {"dial", "open", "upload", "response"}
Holding == {"pick"} \cup Chosen

Tasks == [pc : Pc, route : Nat, snap : SUBSET Nat, tries : Int, target : Nat]

HoldsOK(t) ==
  /\ t.pc \in Holding => t.route \in Routes /\ t.snap \subseteq DOMAIN backends[t.route]
  /\ t.pc = "pick" => t.tries \in Nat
  /\ t.pc \in Chosen => t.target \in t.snap /\ t.tries \in Nat \ {0}

TasksTyped == task \in [Client -> Tasks] /\ \A c \in Client : HoldsOK(task[c])

TypeInv ==
  /\ pool \in Pool /\ algo \in Algorithm
  /\ ListsOK /\ CheckersOK /\ ReloadOK /\ TasksTyped

-----------------------------------------------------------------------------
(* The steps of the lists.                                                 *)

LEMMA PoolShape ==
  ASSUME pool \in Pool
  PROVE  /\ Routes = 1 .. Len(pool.routes) /\ Routes \subseteq Nat
         /\ pool.kind = "tcp" => 1 \in Routes /\ Routes = {1}
         /\ \A r \in Routes : /\ pool.routes[r].backends \in Seq(Addr)
                              /\ Len(pool.routes[r].backends) <= MaxObjects
<1>1. Routes = 1 .. Len(pool.routes)
  BY PoolAssumption DEF Routes
<1>2. Routes \subseteq Nat
  BY <1>1
<1>3. pool.kind = "tcp" => 1 \in Routes /\ Routes = {1}
  <2>1. pool.kind = "tcp" => Len(pool.routes) = 1
    BY PoolAssumption
  <2>2. 1 .. 1 = {1}
    OBVIOUS
  <2> QED BY <1>1, <2>1, <2>2
<1>4. \A r \in Routes : /\ pool.routes[r].backends \in Seq(Addr)
                        /\ Len(pool.routes[r].backends) <= MaxObjects
  BY PoolAssumption DEF Routes
<1> QED BY <1>1, <1>2, <1>3, <1>4

\* What the operations of a backend make of an object.
LEMMA ObjectOperations ==
  ASSUME NEW b \in Object, NEW ok \in BOOLEAN
  PROVE  /\ SetHealthy(b, ok) \in Object
         /\ SetHealthy(b, ok).addr = b.addr /\ SetHealthy(b, ok).active = b.active
         /\ SetHealthy(b, ok).healthy = ok
         /\ Connected(b) \in Object
         /\ Connected(b).addr = b.addr /\ Connected(b).healthy = b.healthy
         /\ Connected(b).active = (b.active + 1) % Width
         /\ Released(b) \in Object
         /\ Released(b).addr = b.addr /\ Released(b).healthy = b.healthy
         /\ Released(b).active = (b.active + (Width - 1)) % Width
<1>1. Width \in Nat \ {0} /\ b.active \in Nat
  BY WidthAssumption DEF Object
<1>2. (b.active + 1) % Width \in Nat /\ (b.active + (Width - 1)) % Width \in Nat
  BY <1>1
<1>3. /\ SetHealthy(b, ok) \in Object
      /\ SetHealthy(b, ok).addr = b.addr /\ SetHealthy(b, ok).active = b.active
      /\ SetHealthy(b, ok).healthy = ok
  BY DEF SetHealthy, Object
<1>4. /\ Connected(b) \in Object
      /\ Connected(b).addr = b.addr /\ Connected(b).healthy = b.healthy
      /\ Connected(b).active = (b.active + 1) % Width
  BY <1>2 DEF Connected, Object
<1>5. /\ Released(b) \in Object
      /\ Released(b).addr = b.addr /\ Released(b).healthy = b.healthy
      /\ Released(b).active = (b.active + (Width - 1)) % Width
  BY <1>2 DEF Released, Object
<1> QED BY <1>3, <1>4, <1>5

\* What a step may do to the objects and the lists: nothing, set the flag or
\* the counter of one object, add a new one, or take some off a list.
SetsObject(r, k, b) ==
  /\ r \in Routes /\ k \in DOMAIN backends[r]
  /\ b \in Object /\ b.addr = backends[r][k].addr
  /\ backends' = [backends EXCEPT ![r][k] = b] /\ listed' = listed

AddsObject(a) ==
  /\ pool.kind = "tcp" /\ Len(backends[1]) < MaxObjects
  /\ backends' = [backends EXCEPT ![1] = Append(@, NewBackend(a))]
  /\ listed' = [listed EXCEPT ![1] = @ \cup {Len(backends[1]) + 1}]

Delists(a) ==
  /\ pool.kind = "tcp" /\ backends' = backends
  /\ listed' = [listed EXCEPT ![1] = {k \in @ : backends[1][k].addr # a}]

ListsEffect ==
  \/ backends' = backends /\ listed' = listed
  \/ \E r, k, b : SetsObject(r, k, b)
  \/ \E a \in Addr : AddsObject(a) \/ Delists(a)

LEMMA ObjectSet ==
  ASSUME ListsOK, NEW r, NEW k, NEW b, SetsObject(r, k, b)
  PROVE  /\ DOMAIN backends' = Routes
         /\ \A s \in Routes :
              /\ backends'[s] \in Seq(Object) /\ Len(backends'[s]) = Len(backends[s])
              /\ \A j \in DOMAIN backends[s] :
                   backends'[s][j] = IF s = r /\ j = k THEN b ELSE backends[s][j]
<1>1. DOMAIN backends' = Routes
  BY DEF SetsObject, ListsOK
<1>2. SUFFICES ASSUME NEW s \in Routes
               PROVE  /\ backends'[s] \in Seq(Object) /\ Len(backends'[s]) = Len(backends[s])
                      /\ \A j \in DOMAIN backends[s] :
                           backends'[s][j] = IF s = r /\ j = k THEN b ELSE backends[s][j]
  BY <1>1
<1>3. backends[s] \in Seq(Object)
  BY DEF ListsOK, RouteOK
<1>4. CASE s # r
  <2>1. backends'[s] = backends[s]
    BY <1>4 DEF SetsObject, ListsOK
  <2> QED BY <1>3, <1>4, <2>1
<1>5. CASE s = r
  <2> DEFINE old == backends[s]
  <2>1. backends'[s] = [old EXCEPT ![k] = b] /\ k \in DOMAIN old /\ b \in Object
    BY <1>5 DEF SetsObject, ListsOK
  <2>2. old \in Seq(Object)
    BY <1>3
  <2> HIDE DEF old
  <2>3. [old EXCEPT ![k] = b] \in Seq(Object) /\ Len([old EXCEPT ![k] = b]) = Len(old)
    BY <2>1, <2>2
  <2>4. \A j \in DOMAIN old : [old EXCEPT ![k] = b][j] = IF j = k THEN b ELSE old[j]
    BY <2>1
  <2> QED BY <1>5, <2>1, <2>3, <2>4 DEF old
<1> QED BY <1>4, <1>5

\* Objects keep their places and their addresses.
Grown ==
  /\ DOMAIN backends' = DOMAIN backends
  /\ \A r \in Routes :
       /\ DOMAIN backends[r] \subseteq DOMAIN backends'[r]
       /\ Len(backends[r]) <= Len(backends'[r])
       /\ \A k \in DOMAIN backends[r] : backends'[r][k].addr = backends[r][k].addr

LEMMA ListsStep ==
  ASSUME pool \in Pool, pool' = pool, ListsOK, ListsEffect
  PROVE  ListsOK' /\ Grown
<1> USE DEF ListsOK, RouteOK
<1>0. Routes' = Routes /\ Routes \subseteq Nat
  BY PoolShape DEF Routes
<1>1. CASE backends' = backends /\ listed' = listed
  BY <1>0, <1>1 DEF Grown
<1>2. ASSUME NEW r, NEW k, NEW b, SetsObject(r, k, b)
      PROVE  ListsOK' /\ Grown
  <2>1. /\ DOMAIN backends' = Routes /\ listed' = listed
        /\ r \in Routes /\ k \in DOMAIN backends[r] /\ b.addr = backends[r][k].addr
    BY <1>2, ObjectSet DEF SetsObject
  <2>2. ASSUME NEW s \in Routes
        PROVE  /\ backends'[s] \in Seq(Object) /\ Len(backends'[s]) = Len(backends[s])
               /\ DOMAIN backends'[s] = DOMAIN backends[s]
               /\ \A j \in DOMAIN backends[s] : backends'[s][j].addr = backends[s][j].addr
    <3>1. /\ backends'[s] \in Seq(Object) /\ Len(backends'[s]) = Len(backends[s])
          /\ \A j \in DOMAIN backends[s] :
                   backends'[s][j] = IF s = r /\ j = k THEN b ELSE backends[s][j]
      BY <1>2, ObjectSet
    <3>2. DOMAIN backends'[s] = DOMAIN backends[s]
      BY <3>1
    <3> QED BY <2>1, <3>1, <3>2
  <2>3. ListsOK'
    BY <1>0, <2>1, <2>2
  <2>4. Grown
    BY <2>1, <2>2 DEF Grown
  <2> QED BY <2>3, <2>4
<1>3. ASSUME NEW a \in Addr, AddsObject(a)
      PROVE  ListsOK' /\ Grown
  <2> DEFINE old == backends[1]
             new == Append(old, NewBackend(a))
  <2>1. 1 \in Routes /\ Routes = {1} /\ old \in Seq(Object)
    BY <1>3, PoolShape DEF AddsObject
  <2>2. NewBackend(a) \in Object
    BY DEF NewBackend, Object
  <2>3. /\ backends' = [backends EXCEPT ![1] = new] /\ Len(old) < MaxObjects
        /\ listed' = [listed EXCEPT ![1] = @ \cup {Len(old) + 1}]
    BY <1>3 DEF AddsObject
  <2>4. backends'[1] = new /\ listed'[1] = listed[1] \cup {Len(old) + 1}
    BY <2>1, <2>3
  <2>5. /\ new \in Seq(Object) /\ Len(new) = Len(old) + 1
        /\ DOMAIN new = DOMAIN old \cup {Len(old) + 1}
        /\ \A j \in DOMAIN old : new[j] = old[j]
    BY <2>1, <2>2
  <2>6. Len(old) \in Nat /\ MaxObjects \in Nat
    BY <2>1, PoolAssumption
  <2> HIDE DEF new
  <2>7. DOMAIN backends' = Routes /\ DOMAIN listed' = Routes
    BY <2>3
  <2>8. RouteOK(1)'
    <3>1. RouteOK(1)
      BY <2>1
    <3>2. Len(pool.routes[1].backends) \in Nat
      BY <2>1, PoolShape
    <3>3. Len(new) <= MaxObjects
      BY <2>3, <2>5, <2>6
    <3>4. listed[1] \cup {Len(old) + 1} \subseteq DOMAIN new
      BY <2>5, <3>1
    <3>5. Len(pool.routes[1].backends) <= Len(new)
      BY <2>5, <2>6, <3>1, <3>2
    <3> QED BY <2>4, <2>5, <3>3, <3>4, <3>5
  <2>9. ListsOK'
    BY <1>0, <2>1, <2>7, <2>8
  <2>10. Grown
    BY <2>1, <2>3, <2>4, <2>5, <2>6, <2>7 DEF Grown
  <2> QED BY <2>9, <2>10
<1>4. ASSUME NEW a \in Addr, Delists(a)
      PROVE  ListsOK' /\ Grown
  <2>1. DOMAIN listed' = Routes /\ \A r \in Routes : listed'[r] \subseteq listed[r]
    BY <1>4 DEF Delists
  <2>2. backends' = backends
    BY <1>4 DEF Delists
  <2>3. Grown
    BY <2>2 DEF Grown
  <2>4. ListsOK'
    BY <1>0, <2>1, <2>2
  <2> QED BY <2>3, <2>4
<1> QED BY <1>1, <1>2, <1>3, <1>4 DEF ListsEffect

-----------------------------------------------------------------------------
(* The steps of a task, by what they do to it and to the backend it holds. *)

SameChoice(c) == task'[c].route = task[c].route /\ task'[c].snap = task[c].snap
SameTry(c) ==
  SameChoice(c) /\ task'[c].tries = task[c].tries /\ task'[c].target = task[c].target

SameLists == backends' = backends /\ listed' = listed
SetsTarget(c, b) == SetsObject(task[c].route, task[c].target, b)

Started(c) ==
  /\ At(c, "accepted") /\ task'[c].pc = "pick" /\ SameLists
  /\ \E r \in Routes :
       /\ task'[c].route = r /\ task'[c].snap = listed[r]
       /\ task'[c].tries = IF listed[r] = {} THEN 1 ELSE Cardinality(listed[r])

Picked(c) ==
  /\ At(c, "pick") /\ task'[c].pc = "dial" /\ SameLists /\ SameChoice(c)
  /\ task[c].tries > 0 /\ task'[c].tries = task[c].tries
  /\ task'[c].target \in Healthy(backends[task[c].route], task[c].snap)

GivenUp(c) ==
  /\ At(c, "pick") /\ task'[c].pc = "refused" /\ SameLists
  /\ task[c].tries = 0 \/ Healthy(backends[task[c].route], task[c].snap) = {}

Opened(c) ==
  /\ At(c, "dial") /\ task'[c].pc = "open" /\ SameTry(c)
  /\ SetsTarget(c, Connected(Target(c)))

Spent(c) ==
  /\ task[c].pc \in {"dial", "upload", "response"} /\ task'[c].pc = "pick"
  /\ SameChoice(c) /\ task'[c].tries = task[c].tries - 1
  /\ SetsTarget(c, SetHealthy(IF At(c, "upload") THEN Released(Target(c)) ELSE Target(c),
                              FALSE))

Advanced(c) ==
  /\ SameTry(c)
  /\ \/ At(c, "dial") /\ task'[c].pc = "upload" /\ SameLists
     \/ At(c, "upload") /\ task'[c].pc = "response" /\ SetsTarget(c, Released(Target(c)))

Ended(c) ==
  /\ task'[c].pc \in {"leaving", "closed"}
  /\ \/ task[c].pc \in {"accepted", "upload", "response", "refused", "leaving"} /\ SameLists
     \/ At(c, "open") /\ SetsTarget(c, Released(Target(c)))

TaskEffect(c) ==
  \/ Started(c) \/ Picked(c) \/ GivenUp(c) \/ Opened(c) \/ Spent(c)
  \/ Advanced(c) \/ Ended(c)

OnlyTask(c) ==
  /\ task' \in [Client -> Tasks]
  /\ \A d \in Client : d # c => task'[d] = task[d]

LEMMA TaskSet ==
  ASSUME TasksTyped, NEW c \in Client, NEW u \in Tasks, task' = [task EXCEPT ![c] = u]
  PROVE  task'[c] = u /\ OnlyTask(c)
BY DEF TasksTyped, OnlyTask

LEMMA GotoTask ==
  ASSUME TasksTyped, NEW c \in Client, NEW pc \in Pc, Goto(c, pc)
  PROVE  task'[c].pc = pc /\ SameTry(c) /\ OnlyTask(c)
<1> DEFINE t == task[c]
           u == [t EXCEPT !.pc = pc]
<1>1. t \in Tasks
  BY DEF TasksTyped
<1>2. /\ u \in Tasks /\ u.pc = pc
      /\ u.route = t.route /\ u.snap = t.snap /\ u.tries = t.tries /\ u.target = t.target
  BY <1>1 DEF Tasks
<1>3. task' = [task EXCEPT ![c] = u]
  BY DEF Goto
<1> HIDE DEF u
<1>4. task'[c] = u /\ OnlyTask(c)
  BY <1>2, <1>3, TaskSet
<1> QED BY <1>2, <1>4 DEF SameTry, SameChoice

LEMMA RetryTask ==
  ASSUME TasksTyped, NEW c \in Client, Retry(c)
  PROVE  /\ task'[c].pc = "pick" /\ task'[c].tries = task[c].tries - 1
         /\ SameChoice(c) /\ OnlyTask(c)
<1> DEFINE t == task[c]
           n == t.tries - 1
           u == [t EXCEPT !.pc = "pick", !.tries = n]
<1>1. t \in Tasks /\ n \in Int /\ "pick" \in Pc
  BY DEF TasksTyped, Tasks, Pc, Inside
<1>2. task' = [task EXCEPT ![c] = u]
  BY DEF Retry
<1> HIDE DEF n
<1>3. /\ u \in Tasks /\ u.pc = "pick" /\ u.tries = n
      /\ u.route = t.route /\ u.snap = t.snap
  BY <1>1 DEF Tasks
<1> HIDE DEF u
<1>4. task'[c] = u /\ OnlyTask(c)
  BY <1>2, <1>3, TaskSet
<1> QED BY <1>3, <1>4 DEF SameChoice, n

LEMMA PickTask ==
  ASSUME TasksTyped, NEW c \in Client, NEW k \in Nat,
         task' = [task EXCEPT ![c].pc = "dial", ![c].target = k]
  PROVE  /\ task'[c].pc = "dial" /\ task'[c].tries = task[c].tries
         /\ task'[c].target = k /\ SameChoice(c) /\ OnlyTask(c)
<1> DEFINE t == task[c]
           u == [t EXCEPT !.pc = "dial", !.target = k]
<1>1. t \in Tasks
  BY DEF TasksTyped
<1>2. /\ u \in Tasks /\ u.pc = "dial" /\ u.tries = t.tries /\ u.target = k
      /\ u.route = t.route /\ u.snap = t.snap
  BY <1>1 DEF Tasks, Pc, Inside
<1>3. task' = [task EXCEPT ![c] = u]
  OBVIOUS
<1> HIDE DEF u
<1>4. task'[c] = u /\ OnlyTask(c)
  BY <1>2, <1>3, TaskSet
<1> QED BY <1>2, <1>4 DEF SameChoice

\* The lists are finite.
LEMMA ListFinite ==
  ASSUME ListsOK, NEW r \in Routes, NEW S, S \subseteq DOMAIN backends[r]
  PROVE  IsFiniteSet(S) /\ Cardinality(S) \in Nat /\ S \subseteq Nat
<1>1. DOMAIN backends[r] = 1 .. Len(backends[r]) /\ Len(backends[r]) \in Nat
  BY DEF ListsOK, RouteOK
<1>2. IsFiniteSet(DOMAIN backends[r])
  BY <1>1, FS_Interval
<1>3. IsFiniteSet(S)
  BY <1>2, FS_Subset
<1> QED BY <1>1, <1>3, FS_CardinalityType

LEMMA BeginTask ==
  ASSUME TasksTyped, ListsOK, pool \in Pool, NEW c \in Client, NEW r \in Routes, Begin(c, r)
  PROVE  /\ task'[c].pc = "pick" /\ task'[c].route = r /\ task'[c].snap = listed[r]
         /\ task'[c].tries = IF listed[r] = {} THEN 1 ELSE Cardinality(listed[r])
         /\ OnlyTask(c)
<1> DEFINE x == IF listed[r] = {} THEN 1 ELSE Cardinality(listed[r])
           u == [IdleTask EXCEPT !.pc = "pick", !.route = r, !.snap = listed[r], !.tries = x]
<1>1. x \in Int /\ listed[r] \subseteq Nat
  BY ListFinite DEF ListsOK, RouteOK
<1>2. r \in Nat
  BY PoolShape
<1> HIDE DEF x
<1>3. u \in Tasks /\ u.pc = "pick" /\ u.route = r /\ u.snap = listed[r] /\ u.tries = x
  BY <1>1, <1>2 DEF IdleTask, Tasks, Pc, Inside
<1>4. task' = [task EXCEPT ![c] = u]
  BY DEF Begin, x
<1> HIDE DEF u
<1>5. task'[c] = u /\ OnlyTask(c)
  BY <1>3, <1>4, TaskSet
<1> QED BY <1>3, <1>5 DEF x

\* What a task holds: its number of tries, its list and its target exist.
LEMMA Held ==
  ASSUME TypeInv, NEW c \in Client, task[c].pc \in Chosen
  PROVE  /\ task[c].route \in Routes /\ task[c].target \in DOMAIN backends[task[c].route]
         /\ Target(c) \in Object
<1> DEFINE r == task[c].route
           k == task[c].target
<1>1. r \in Routes /\ k \in DOMAIN backends[r]
  BY DEF TypeInv, TasksTyped, HoldsOK, Holding
<1>2. backends[r] \in Seq(Object)
  BY <1>1 DEF TypeInv, ListsOK, RouteOK
<1>3. backends[r][k] \in Object
  BY <1>1, <1>2
<1> QED BY <1>1, <1>3 DEF Target

LEMMA UpdateSets ==
  ASSUME TypeInv, NEW c \in Client, task[c].pc \in Chosen, NEW b \in Object,
         b.addr = Target(c).addr, Update(c, b)
  PROVE  SetsTarget(c, b)
BY Held DEF Update, SetsTarget, SetsObject, Target

LEMMA HealthyFits ==
  ASSUME TypeInv, NEW c \in Client, task[c].pc = "pick"
  PROVE  /\ Healthy(backends[task[c].route], task[c].snap) \subseteq task[c].snap
         /\ task[c].snap \subseteq Nat
         /\ Candidates(c) \subseteq Healthy(backends[task[c].route], task[c].snap)
<1>1. task[c].snap \subseteq Nat
  BY DEF TypeInv, TasksTyped, Tasks
<1> DEFINE bs == backends[task[c].route]
           S  == task[c].snap
<1>2. ASSUME NEW k \in Candidates(c)
      PROVE  k \in Healthy(bs, S)
  <2> DEFINE H == Healthy(bs, S)
  <2>1. algo \in Algorithm
    BY DEF TypeInv
  <2> HIDE DEF H
  <2>2. ASSUME NEW a \in Algorithm, k \in Selectable(bs, S, a, counter)
        PROVE  k \in H
    BY <2>2 DEF Selectable, Algorithm, H
  <2> QED BY <1>2, <2>1, <2>2 DEF Candidates, H
<1>3. Healthy(bs, S) \subseteq S
  BY DEF Healthy
<1> QED BY <1>1, <1>2, <1>3

LEMMA HandleEffect ==
  ASSUME TypeInv, NEW c \in Client, Handle(c)
  PROVE  TaskEffect(c) /\ OnlyTask(c)
<1> DEFINE b == Target(c)
<1>0. /\ TasksTyped /\ ListsOK /\ pool \in Pool
      /\ Chosen = {"dial", "open", "upload", "response"}
      /\ {"refused", "open", "upload", "response", "leaving", "pick"} \subseteq Pc
      /\ ClosedTask \in Tasks /\ ClosedTask.pc = "closed"
  BY DEF TypeInv, Chosen, Pc, Inside, ClosedTask, IdleTask, Tasks
<1>1. ASSUME task[c].pc \in Chosen
      PROVE  /\ b \in Object
             /\ Connected(b) \in Object /\ Connected(b).addr = b.addr
             /\ Released(b) \in Object /\ Released(b).addr = b.addr
             /\ SetHealthy(b, FALSE) \in Object /\ SetHealthy(b, FALSE).addr = b.addr
             /\ SetHealthy(Released(b), FALSE) \in Object
             /\ SetHealthy(Released(b), FALSE).addr = b.addr
  <2>1. b \in Object /\ b.addr \in Addr
    BY <1>1, Held DEF Object
  <2>2. Released(b) \in Object /\ Released(b).addr = b.addr
    BY <2>1, ObjectOperations
  <2> QED BY <2>1, <2>2, ObjectOperations
<1>2. CASE Snapshot(c)
  <2>1. At(c, "accepted") /\ Begin(c, 1) /\ SameLists /\ 1 \in Routes
    BY <1>0, <1>2, PoolShape DEF Snapshot, lists, SameLists
  <2> QED BY <1>0, <2>1, BeginTask DEF TaskEffect, Started
<1>3. CASE ReadHead(c)
  <2>1. At(c, "accepted") /\ SameLists
    BY <1>3 DEF ReadHead, lists, SameLists
  <2>2. PICK r \in Routes : Begin(c, r)
    BY <1>3 DEF ReadHead, Routed, Matching, Routes
  <2> QED BY <1>0, <2>1, <2>2, BeginTask DEF TaskEffect, Started
<1>4. CASE BadHead(c)
  <2>1. At(c, "accepted") /\ Goto(c, "leaving") /\ SameLists
    BY <1>4 DEF BadHead, lists, SameLists
  <2> QED BY <1>0, <2>1, GotoTask DEF TaskEffect, Ended, At
<1>5. CASE Pick(c)
  <2>1. At(c, "pick") /\ task[c].tries > 0 /\ SameLists
    BY <1>5 DEF Pick, lists, SameLists
  <2>2. PICK k \in Candidates(c) : task' = [task EXCEPT ![c].pc = "dial", ![c].target = k]
    BY <1>5 DEF Pick
  <2>3. k \in Healthy(backends[task[c].route], task[c].snap) /\ k \in Nat
    BY <2>1, HealthyFits DEF At
  <2> QED BY <1>0, <2>1, <2>2, <2>3, PickTask DEF TaskEffect, Picked
<1>6. CASE GiveUp(c)
  <2>1. /\ At(c, "pick") /\ Goto(c, "refused") /\ SameLists
        /\ task[c].tries = 0 \/ Healthy(backends[task[c].route], task[c].snap) = {}
    BY <1>6 DEF GiveUp, lists, SameLists
  <2> QED BY <1>0, <2>1, GotoTask DEF TaskEffect, GivenUp
<1>7. CASE Dial(c)
  <2>1. At(c, "dial") /\ Goto(c, "open") /\ Update(c, Connected(b))
    BY <1>7 DEF Dial
  <2>2. SetsTarget(c, Connected(b))
    BY <1>0, <1>1, <2>1, UpdateSets DEF At
  <2> QED BY <1>0, <2>1, <2>2, GotoTask DEF TaskEffect, Opened
<1>8. ASSUME task[c].pc \in {"dial", "response"}, Retry(c), Update(c, SetHealthy(b, FALSE))
      PROVE  TaskEffect(c) /\ OnlyTask(c)
  <2>1. SetsTarget(c, SetHealthy(b, FALSE))
    BY <1>0, <1>1, <1>8, UpdateSets
  <2> QED BY <1>0, <1>8, <2>1, RetryTask DEF TaskEffect, Spent, At
<1>9. CASE DialFails(c) \/ ResponseFails(c)
  BY <1>8, <1>9 DEF DialFails, ResponseFails, At
<1>10. CASE UploadFails(c)
  <2>1. At(c, "upload") /\ Retry(c) /\ Update(c, SetHealthy(Released(b), FALSE))
    BY <1>10 DEF UploadFails
  <2>2. SetsTarget(c, SetHealthy(Released(b), FALSE))
    BY <1>0, <1>1, <2>1, UpdateSets DEF At
  <2> QED BY <1>0, <2>1, <2>2, RetryTask DEF TaskEffect, Spent, At
<1>11. CASE Finish(c)
  <2>1. At(c, "open") /\ Goto(c, "leaving") /\ Update(c, Released(b))
    BY <1>11 DEF Finish
  <2>2. SetsTarget(c, Released(b))
    BY <1>0, <1>1, <2>1, UpdateSets DEF At
  <2> QED BY <1>0, <2>1, <2>2, GotoTask DEF TaskEffect, Ended
<1>12. CASE Leave(c)
  <2>1. /\ task[c].pc \in {"refused", "leaving"} /\ SameLists
        /\ task' = [task EXCEPT ![c] = ClosedTask]
    BY <1>12 DEF Leave, lists, SameLists
  <2>2. task'[c] = ClosedTask /\ OnlyTask(c)
    BY <1>0, <2>1, TaskSet
  <2> QED BY <1>0, <2>1, <2>2 DEF TaskEffect, Ended
<1>13. CASE OpenSession(c)
  <2>1. At(c, "dial") /\ Goto(c, "upload") /\ SameLists
    BY <1>13 DEF OpenSession, lists, SameLists
  <2> QED BY <1>0, <2>1, GotoTask DEF TaskEffect, Advanced
<1>14. CASE Upload(c)
  <2>1. At(c, "upload") /\ Goto(c, "response") /\ Update(c, Released(b))
    BY <1>14 DEF Upload
  <2>2. SetsTarget(c, Released(b))
    BY <1>0, <1>1, <2>1, UpdateSets DEF At
  <2> QED BY <1>0, <2>1, <2>2, GotoTask DEF TaskEffect, Advanced
<1>15. CASE UploadBreaks(c) \/ Respond(c)
  <2>1. task[c].pc \in {"upload", "response"} /\ Goto(c, "leaving") /\ SameLists
    BY <1>15 DEF UploadBreaks, Respond, lists, SameLists, At
  <2> QED BY <1>0, <2>1, GotoTask DEF TaskEffect, Ended
<1> QED BY <1>2, <1>3, <1>4, <1>5, <1>6, <1>7, <1>9, <1>10, <1>11, <1>12, <1>13, <1>14, <1>15
        DEF Handle

\* What the accept loop does to a client, if anything.
Attended(c) ==
  \/ task'[c] = task[c]
  \/ /\ task[c].pc \in {"idle", "queued", "handshake"}
     /\ task'[c].pc \in {"queued", "handshake", "accepted", "closed"}

LEMMA ServeEffect ==
  ASSUME TypeInv, BacklogOK, Serve
  PROVE  /\ task' \in [Client -> Tasks] /\ SameLists
         /\ \A c \in Client : Attended(c)
<1>0. /\ TasksTyped /\ ClosedTask \in Tasks /\ ClosedTask.pc = "closed"
      /\ {"queued", "handshake", "accepted"} \subseteq Pc
  BY DEF TypeInv, Pc, Inside, ClosedTask, IdleTask, Tasks
<1>1. SameLists
  BY DEF Serve, AcceptFails, Reject, Admit, Arrive, Handshake, HandshakeFails, lists, SameLists
<1>2. ASSUME NEW c \in Client, OnlyTask(c), Attended(c)
      PROVE  task' \in [Client -> Tasks] /\ \A d \in Client : Attended(d)
  BY <1>2 DEF OnlyTask, Attended
<1>3. CASE AcceptFails
  BY <1>0, <1>1, <1>3 DEF AcceptFails, TasksTyped, Attended
<1>4. CASE Reject
  <2> DEFINE c == Head(queue)
  <2>1. /\ queue # <<>> /\ task' = [task EXCEPT ![c] = ClosedTask]
    BY <1>4 DEF Reject
  <2>2. c \in Client /\ task[c].pc = "queued"
    BY <2>1, HeadWaits
  <2> HIDE DEF c
  <2>3. task'[c] = ClosedTask /\ OnlyTask(c)
    BY <1>0, <2>1, <2>2, TaskSet
  <2> QED BY <1>0, <1>1, <1>2, <2>2, <2>3 DEF Attended
<1>5. CASE Admit
  <2> DEFINE c == Head(queue)
             pc == IF pool.tls THEN "handshake" ELSE "accepted"
  <2>1. queue # <<>> /\ Goto(c, pc)
    BY <1>5 DEF Admit
  <2>2. c \in Client /\ task[c].pc = "queued"
    BY <2>1, HeadWaits
  <2>3. pc \in Pc /\ pc \in {"handshake", "accepted"}
    BY <1>0
  <2> HIDE DEF c, pc
  <2>4. task'[c].pc = pc /\ OnlyTask(c)
    BY <1>0, <2>1, <2>2, <2>3, GotoTask
  <2> QED BY <1>1, <1>2, <2>2, <2>3, <2>4 DEF Attended
<1>6. ASSUME NEW c \in Client, Arrive(c) \/ Handshake(c)
      PROVE  task' \in [Client -> Tasks] /\ \A d \in Client : Attended(d)
  <2>1. PICK pc \in {"queued", "accepted"} :
          task[c].pc \in {"idle", "handshake"} /\ Goto(c, pc)
    BY <1>6 DEF Arrive, Handshake, At
  <2>2. task'[c].pc = pc /\ OnlyTask(c)
    BY <1>0, <2>1, GotoTask
  <2> QED BY <1>2, <2>1, <2>2 DEF Attended
<1>7. ASSUME NEW c \in Client, HandshakeFails(c)
      PROVE  task' \in [Client -> Tasks] /\ \A d \in Client : Attended(d)
  <2>1. task[c].pc = "handshake" /\ task' = [task EXCEPT ![c] = ClosedTask]
    BY <1>7 DEF HandshakeFails, At
  <2>2. task'[c] = ClosedTask /\ OnlyTask(c)
    BY <1>0, <2>1, TaskSet
  <2> QED BY <1>0, <1>2, <2>1, <2>2 DEF Attended
<1> QED BY <1>1, <1>3, <1>4, <1>5, <1>6, <1>7 DEF Serve

\* The checkers and the API leave the counters of the objects alone.
QuietLists ==
  \/ SameLists
  \/ \E r, k, b : SetsObject(r, k, b) /\ b.active = backends[r][k].active
  \/ \E a \in Addr : AddsObject(a) \/ Delists(a)

Rest ==
  \/ \E r \in RouteNumber : Probe(r) \/ Report(r)
  \/ Api
  \/ \E a \in Addr : Service(a)
  \/ UNCHANGED vars

LEMMA ReportEffect ==
  ASSUME TypeInv, NEW r, Report(r)
  PROVE  QuietLists
<1> DEFINE k == checker[r].at
           old == backends[r][k]
           ok == checker[r].answer = "ok"
           b == SetHealthy(old, ok)
<1>1. r \in Routes /\ pool.routes[r].backends # <<>>
  BY DEF Report, Checks, TypeInv, CheckersOK
<1>2. k \in DOMAIN pool.routes[r].backends
  BY <1>1 DEF TypeInv, CheckersOK
<1>3. /\ backends[r] \in Seq(Object) /\ pool.routes[r].backends \in Seq(Addr)
      /\ Len(pool.routes[r].backends) <= Len(backends[r])
  BY <1>1, PoolShape DEF TypeInv, ListsOK, RouteOK
<1>4. k \in DOMAIN backends[r] /\ old \in Object
  BY <1>2, <1>3
<1>5. backends' = [backends EXCEPT ![r][k] = b] /\ listed' = listed
  BY DEF Report, Watched
<1>6. old.addr \in Addr /\ ok \in BOOLEAN
  BY <1>4 DEF Object
<1> HIDE DEF old, ok
<1>7. b \in Object /\ b.addr = old.addr /\ b.active = old.active
  BY <1>4, <1>6, ObjectOperations
<1> HIDE DEF b
<1>8. SetsObject(r, k, b) /\ b.active = backends[r][k].active
  BY <1>1, <1>4, <1>5, <1>7 DEF SetsObject, old
<1> QED BY <1>8 DEF QuietLists

LEMMA AddEffect ==
  ASSUME pool.kind = "tcp", NEW a \in Addr, AddBackend(a) \/ RemoveBackend(a)
  PROVE  SameLists \/ AddsObject(a) \/ Delists(a)
BY DEF AddBackend, RemoveBackend, SameLists, AddsObject, Delists, lists

\* The addresses a reload still has to add or to remove.
LEMMA ReloadNames ==
  ASSUME TypeInv
  PROVE  /\ reload.want \in Seq(Addr)
         /\ \A i \in reload.add : i \in DOMAIN reload.want /\ reload.want[i] \in Addr
         /\ \A k \in reload.drop : /\ pool.kind = "tcp" /\ 1 \in Routes
                                   /\ k \in DOMAIN backends[1]
                                   /\ backends[1][k] \in Object
                                   /\ backends[1][k].addr \in Addr
         /\ reload.add # {} => pool.kind = "tcp"
<1>1. /\ reload.want \in Seq(Addr) /\ reload.add \subseteq DOMAIN reload.want
      /\ (reload.add # {} \/ reload.drop # {} => pool.kind = "tcp")
      /\ \A k \in reload.drop : k \in DOMAIN backends[1]
  BY DEF TypeInv, ReloadOK, Reloading
<1>2. \A i \in reload.add : i \in DOMAIN reload.want /\ reload.want[i] \in Addr
  BY <1>1
<1>3. ASSUME NEW k \in reload.drop
      PROVE  /\ pool.kind = "tcp" /\ 1 \in Routes /\ k \in DOMAIN backends[1]
             /\ backends[1][k] \in Object /\ backends[1][k].addr \in Addr
  <2>1. pool.kind = "tcp" /\ 1 \in Routes /\ k \in DOMAIN backends[1]
    BY <1>1, <1>3, PoolShape DEF TypeInv
  <2>2. backends[1] \in Seq(Object)
    BY <2>1 DEF TypeInv, ListsOK, RouteOK
  <2>3. backends[1][k] \in Object
    BY <2>1, <2>2
  <2> QED BY <2>1, <2>3 DEF Object
<1> QED BY <1>1, <1>2, <1>3

LEMMA ReloadStepEffect ==
  ASSUME TypeInv, ReloadStep
  PROVE  QuietLists
<1>1. CASE \E i \in First(reload.add) : AddBackend(reload.want[i])
  <2>1. PICK i \in First(reload.add) : AddBackend(reload.want[i])
    BY <1>1
  <2>2. i \in reload.add
    BY DEF First
  <2>3. reload.want[i] \in Addr /\ pool.kind = "tcp"
    BY <2>2, ReloadNames
  <2> QED BY <2>1, <2>3, AddEffect DEF QuietLists
<1>2. CASE \E k \in First(reload.drop) : RemoveBackend(backends[1][k].addr)
  <2>1. PICK k \in First(reload.drop) : RemoveBackend(backends[1][k].addr)
    BY <1>2
  <2>2. k \in reload.drop
    BY DEF First
  <2>3. backends[1][k].addr \in Addr /\ pool.kind = "tcp"
    BY <2>2, ReloadNames
  <2> QED BY <2>1, <2>3, AddEffect DEF QuietLists
<1> QED BY <1>1, <1>2 DEF ReloadStep

LEMMA RestEffect ==
  ASSUME TypeInv, Rest
  PROVE  task' = task /\ QuietLists
<1>1. task' = task
  BY DEF Rest, Probe, Report, Api, ApiChange, Reload, ReloadStep, Override, Stop, Service, vars
<1>2. ASSUME NEW r, Probe(r) \/ Report(r)
      PROVE  QuietLists
  BY <1>2, ReportEffect DEF Probe, QuietLists, SameLists, lists
<1>3. ASSUME NEW a \in Addr, ApiChange(a)
      PROVE  QuietLists
  BY <1>3, AddEffect DEF ApiChange, QuietLists
<1>4. CASE \/ \E want \in Wanted : Reload(want)
           \/ Override \/ Stop \/ (\E a \in Addr : Service(a)) \/ UNCHANGED vars
  BY <1>4 DEF Reload, Override, Stop, Service, vars, lists, QuietLists, SameLists
<1> QED BY <1>1, <1>2, <1>3, <1>4, ReloadStepEffect DEF Rest, Api

-----------------------------------------------------------------------------
(* The typing is an invariant.                                             *)

LEMMA NextKinds ==
  ASSUME [Next]_vars
  PROVE  Serve \/ (\E c \in Client : Handle(c)) \/ Rest
BY DEF Next, Rest

LEMMA PoolKept ==
  ASSUME [Next]_vars, algo \in Algorithm
  PROVE  pool' = pool /\ algo' \in Algorithm
<1>1. CASE Serve
  BY <1>1 DEF Serve, AcceptFails, Reject, Admit, Arrive, Handshake, HandshakeFails, settings
<1>2. ASSUME NEW c \in Client, Handle(c)
      PROVE  pool' = pool /\ algo' = algo
  <2>1. CASE \/ Snapshot(c) \/ ReadHead(c) \/ BadHead(c) \/ Pick(c) \/ GiveUp(c)
             \/ Dial(c) \/ DialFails(c) \/ Finish(c)
    BY <2>1 DEF Snapshot, ReadHead, BadHead, Pick, GiveUp, Dial, DialFails, Finish, settings
  <2>2. CASE \/ Leave(c) \/ OpenSession(c) \/ Upload(c) \/ UploadFails(c)
             \/ UploadBreaks(c) \/ Respond(c) \/ ResponseFails(c)
    BY <2>2 DEF Leave, OpenSession, Upload, UploadFails, UploadBreaks, Respond,
                ResponseFails, settings
  <2> QED BY <1>2, <2>1, <2>2 DEF Handle
<1>3. CASE Rest
  BY <1>3 DEF Rest, Probe, Report, Api, ApiChange, Reload, ReloadStep, Override, Stop,
              Service, vars, settings
<1> QED BY <1>1, <1>2, <1>3, NextKinds

LEMMA ListsEffectHolds ==
  ASSUME TypeInv, BacklogOK, [Next]_vars
  PROVE  ListsEffect
<1>1. CASE Serve
  BY <1>1, ServeEffect DEF SameLists, ListsEffect
<1>2. ASSUME NEW c \in Client, Handle(c)
      PROVE  ListsEffect
  <2>1. TaskEffect(c)
    BY <1>2, HandleEffect
  <2> QED BY <2>1 DEF TaskEffect, Started, Picked, GivenUp, Opened, Spent, Advanced, Ended,
                      SetsTarget, SameLists, ListsEffect
<1>3. CASE Rest
  BY <1>3, RestEffect DEF QuietLists, SameLists, ListsEffect
<1> QED BY <1>1, <1>2, <1>3, NextKinds

LEMMA CheckersStep ==
  ASSUME TypeInv, [Next]_vars, pool' = pool
  PROVE  CheckersOK'
<1>0. Routes' = Routes
  BY DEF Routes
<1>1. CASE checker' = checker
  BY <1>0, <1>1 DEF TypeInv, CheckersOK
<1>2. ASSUME NEW r, Probe(r)
      PROVE  CheckersOK'
  <2> DEFINE up == Answers(backends[r][Watched(r)].addr)
             ans == IF up THEN "ok" ELSE "failed"
  <2>1. r \in Routes /\ checker' = [checker EXCEPT ![r].answer = ans]
    BY <1>2 DEF Probe, Checks, TypeInv, CheckersOK
  <2> HIDE DEF up
  <2>2. ans \in {"ok", "failed"}
    OBVIOUS
  <2> HIDE DEF ans
  <2> QED BY <1>0, <2>1, <2>2 DEF TypeInv, CheckersOK
<1>3. ASSUME NEW r, Report(r)
      PROVE  CheckersOK'
  <2> DEFINE n == Len(pool.routes[r].backends)
             next == (checker[r].at % n) + 1
  <2>1. /\ r \in Routes /\ pool.routes[r].backends # <<>>
        /\ checker' = [checker EXCEPT ![r].answer = "none", ![r].at = next]
    BY <1>3 DEF Report, Checks, TypeInv, CheckersOK
  <2>2. pool.routes[r].backends \in Seq(Addr) /\ checker[r].at \in Nat
    BY <2>1, PoolShape DEF TypeInv, CheckersOK
  <2>3. n \in Nat \ {0} /\ DOMAIN pool.routes[r].backends = 1 .. n
    BY <2>1, <2>2
  <2> HIDE DEF n
  <2>4. next \in Nat /\ next \in 1 .. n
    BY <2>2, <2>3
  <2> HIDE DEF next
  <2> QED BY <1>0, <2>1, <2>3, <2>4 DEF TypeInv, CheckersOK
<1>4. CASE Serve
  BY <1>1, <1>4 DEF Serve, AcceptFails, Reject, Admit, Arrive, Handshake, HandshakeFails
<1>5. ASSUME NEW c \in Client, Handle(c)
      PROVE  checker' = checker
  BY <1>5 DEF Handle, Snapshot, ReadHead, BadHead, Pick, GiveUp, Dial, DialFails, Finish,
         Leave, OpenSession, Upload, UploadFails, UploadBreaks, Respond, ResponseFails
<1>6. CASE Api \/ (\E a \in Addr : Service(a)) \/ UNCHANGED vars
  BY <1>1, <1>6 DEF Api, ApiChange, Reload, ReloadStep, Override, Stop, Service, vars
<1> QED BY <1>1, <1>2, <1>3, <1>4, <1>5, <1>6, NextKinds DEF Rest

LEMMA ReloadKept ==
  ASSUME TypeInv, [Next]_vars, pool' = pool, Grown
  PROVE  ReloadOK'
<1>0. /\ Routes' = Routes
      /\ pool.kind = "tcp" => DOMAIN backends[1] \subseteq DOMAIN backends'[1]
  BY PoolShape DEF Routes, Grown, TypeInv
<1>1. CASE reload' = reload
  BY <1>0, <1>1, ReloadNames DEF TypeInv, ReloadOK, Reloading
<1>2. ASSUME NEW want \in Wanted, Reload(want)
      PROVE  ReloadOK'
  <2>1. pool.kind = "tcp" /\ reload' = Plan(want) /\ want \in Seq(Addr)
    BY <1>2, PoolAssumption DEF Reload
  <2>2. listed[1] \subseteq DOMAIN backends[1] /\ DOMAIN backends[1] \subseteq Nat
    <3>1. 1 \in Routes
      BY <2>1, PoolShape DEF TypeInv
    <3>2. backends[1] \in Seq(Object) /\ listed[1] \subseteq DOMAIN backends[1]
      BY <3>1 DEF TypeInv, ListsOK, RouteOK
    <3> QED BY <3>2
  <2> DEFINE add == {i \in DOMAIN want : want[i] \notin Addresses}
             drop == {k \in listed[1] : backends[1][k].addr \notin Range(want)}
  <2>3. /\ reload' = [want |-> want, add |-> add, drop |-> drop]
        /\ add \subseteq DOMAIN want /\ DOMAIN want \subseteq Nat
        /\ drop \subseteq DOMAIN backends[1] /\ drop \subseteq Nat
    BY <2>1, <2>2 DEF Plan
  <2> HIDE DEF add, drop
  <2> QED BY <1>0, <2>1, <2>3 DEF ReloadOK
<1>3. CASE ReloadStep
  <2>1. \/ \E i : reload' = [reload EXCEPT !.add = @ \ {i}]
        \/ \E k : reload' = [reload EXCEPT !.drop = @ \ {k}]
    BY <1>3 DEF ReloadStep
  <2>2. /\ reload' \in [want : Seq(Addr), add : SUBSET Nat, drop : SUBSET Nat]
        /\ reload'.want = reload.want
        /\ reload'.add \subseteq reload.add /\ reload'.drop \subseteq reload.drop
    BY <2>1 DEF TypeInv, ReloadOK
  <2> QED BY <1>0, <2>2, ReloadNames DEF TypeInv, ReloadOK, Reloading
<1>4. CASE Serve
  BY <1>1, <1>4 DEF Serve, AcceptFails, Reject, Admit, Arrive, Handshake, HandshakeFails
<1>5. ASSUME NEW c \in Client, Handle(c)
      PROVE  reload' = reload
  BY <1>5 DEF Handle, Snapshot, ReadHead, BadHead, Pick, GiveUp, Dial, DialFails, Finish,
         Leave, OpenSession, Upload, UploadFails, UploadBreaks, Respond, ResponseFails
<1>6. CASE \/ \E r \in RouteNumber : Probe(r) \/ Report(r)
           \/ \E a \in Addr : ApiChange(a) \/ Service(a)
           \/ Override \/ Stop \/ UNCHANGED vars
  BY <1>1, <1>6 DEF Probe, Report, ApiChange, Override, Stop, Service, vars
<1> QED BY <1>1, <1>2, <1>3, <1>4, <1>5, <1>6, NextKinds DEF Rest, Api


LEMMA TasksStep ==
  ASSUME TypeInv, BacklogOK, [Next]_vars, pool' = pool, Grown
  PROVE  TasksTyped'
<1>0. /\ Holding = {"pick", "dial", "open", "upload", "response"}
      /\ Chosen = {"dial", "open", "upload", "response"}
      /\ Routes' = Routes
      /\ \A r \in Routes : DOMAIN backends[r] \subseteq DOMAIN backends'[r]
  BY DEF Holding, Chosen, Grown, Routes
<1>1. ASSUME NEW c \in Client, task'[c] = task[c]
      PROVE  HoldsOK(task[c])'
  <2> DEFINE t == task[c]
  <2>1. HoldsOK(t)
    BY DEF TypeInv, TasksTyped
  <2>2. t' = t
    BY <1>1
  <2>3. HoldsOK(t)'
    BY <1>0, <2>1, <2>2 DEF HoldsOK
  <2> QED BY <2>3
<1>2. CASE Serve
  <2>1. task' \in [Client -> Tasks] /\ \A c \in Client : Attended(c)
    BY <1>2, ServeEffect
  <2>2. ASSUME NEW c \in Client, task'[c].pc \in {"queued", "handshake", "accepted", "closed"}
        PROVE  HoldsOK(task[c])'
    BY <1>0, <2>2 DEF HoldsOK
  <2> QED BY <1>1, <2>1, <2>2 DEF Attended, TasksTyped
<1>3. ASSUME NEW c \in Client, Handle(c)
      PROVE  TasksTyped'
  <2> DEFINE t == task[c]
             u == task'[c]
  <2>1. TaskEffect(c) /\ task' \in [Client -> Tasks] /\ \A d \in Client : d # c => task'[d] = task[d]
    BY <1>3, HandleEffect DEF OnlyTask
  <2>2. HoldsOK(t) /\ t \in Tasks /\ u \in Tasks
    BY <2>1 DEF TypeInv, TasksTyped
  <2>3. ASSUME Started(c)
        PROVE  HoldsOK(t)'
    <3>1. PICK r \in Routes :
            /\ u.route = r /\ u.snap = listed[r] /\ u.pc = "pick"
            /\ u.tries = IF listed[r] = {} THEN 1 ELSE Cardinality(listed[r])
      BY <2>3 DEF Started
    <3>2. listed[r] \subseteq DOMAIN backends[r] /\ u.tries \in Nat
      BY <3>1, ListFinite DEF TypeInv, ListsOK, RouteOK
    <3>3. listed[r] \subseteq DOMAIN backends'[r]
      BY <1>0, <3>2
    <3> QED BY <1>0, <3>1, <3>2, <3>3 DEF HoldsOK
  <2>4. ASSUME t.pc \in Holding, SameChoice(c)
        PROVE  u.route \in Routes /\ u.snap \subseteq DOMAIN backends'[u.route]
    BY <1>0, <2>2, <2>4 DEF HoldsOK, SameChoice
  <2>5. ASSUME Picked(c)
        PROVE  HoldsOK(t)'
    <3>1. /\ t.pc = "pick" /\ u.pc = "dial" /\ SameChoice(c) /\ u.tries = t.tries /\ t.tries > 0
          /\ u.target \in Healthy(backends[t.route], t.snap)
      BY <2>5 DEF Picked, At
    <3>2. t.tries \in Nat \ {0} /\ u.target \in u.snap
      BY <2>2, <3>1, HealthyFits DEF HoldsOK, SameChoice
    <3> QED BY <1>0, <2>4, <3>1, <3>2 DEF HoldsOK
  <2>6. ASSUME GivenUp(c) \/ Ended(c)
        PROVE  HoldsOK(t)'
    BY <1>0, <2>6 DEF GivenUp, Ended, HoldsOK
  <2>7. ASSUME Opened(c) \/ Advanced(c)
        PROVE  HoldsOK(t)'
    <3>1. /\ t.pc \in Chosen /\ u.pc \in Chosen /\ SameChoice(c)
          /\ u.tries = t.tries /\ u.target = t.target
      BY <1>0, <2>7 DEF Opened, Advanced, At, SameTry
    <3>2. u.tries \in Nat \ {0} /\ u.target \in u.snap
      BY <2>2, <3>1 DEF HoldsOK, SameChoice
    <3> QED BY <1>0, <2>4, <3>1, <3>2 DEF HoldsOK
  <2>8. ASSUME Spent(c)
        PROVE  HoldsOK(t)'
    <3>1. t.pc \in Chosen /\ u.pc = "pick" /\ SameChoice(c) /\ u.tries = t.tries - 1
      BY <1>0, <2>8 DEF Spent
    <3>2. u.tries \in Nat
      BY <2>2, <3>1 DEF HoldsOK
    <3> QED BY <1>0, <2>4, <3>1, <3>2 DEF HoldsOK
  <2>9. HoldsOK(t)'
    BY <2>1, <2>3, <2>5, <2>6, <2>7, <2>8 DEF TaskEffect
  <2> QED BY <1>1, <2>1, <2>9 DEF TasksTyped
<1>4. CASE Rest
  BY <1>1, <1>4, RestEffect DEF TypeInv, TasksTyped
<1> QED BY <1>2, <1>3, <1>4, NextKinds

LEMMA TypeStep ==
  ASSUME TypeInv, BacklogOK, [Next]_vars
  PROVE  TypeInv' /\ pool' = pool /\ Grown
<1>1. pool' = pool /\ algo' \in Algorithm
  BY PoolKept DEF TypeInv
<1>2. ListsOK' /\ Grown
  BY <1>1, ListsEffectHolds, ListsStep DEF TypeInv
<1>3. CheckersOK' /\ ReloadOK' /\ TasksTyped'
  BY <1>1, <1>2, CheckersStep, ReloadKept, TasksStep
<1> QED BY <1>1, <1>2, <1>3 DEF TypeInv

LEMMA TypeInit ==
  ASSUME Init
  PROVE  TypeInv
<1>1. pool \in Pool /\ algo \in Algorithm
  BY PoolAssumption DEF Init
<1>2. \A r \in Routes : /\ pool.routes[r].backends \in Seq(Addr)
                        /\ Len(pool.routes[r].backends) <= MaxObjects
  BY <1>1, PoolShape
<1>3. ListsOK
  <2>1. DOMAIN backends = Routes /\ DOMAIN listed = Routes
    BY DEF Init, Routes
  <2>2. ASSUME NEW r \in Routes
        PROVE  RouteOK(r)
    <3> DEFINE addrs == pool.routes[r].backends
    <3>1. addrs \in Seq(Addr) /\ Len(addrs) <= MaxObjects /\ Len(addrs) \in Nat
      BY <1>2
    <3>2. backends[r] = ObjectsOf(addrs) /\ listed[r] = DOMAIN addrs
      BY DEF Init, Routes
    <3> HIDE DEF addrs
    <3>3. \A a \in Addr : NewBackend(a) \in Object
      BY DEF NewBackend, Object
    <3>4. /\ ObjectsOf(addrs) \in Seq(Object) /\ DOMAIN ObjectsOf(addrs) = DOMAIN addrs
          /\ Len(ObjectsOf(addrs)) = Len(addrs)
      <4>1. \A k \in DOMAIN addrs : NewBackend(addrs[k]) \in Object
        BY <3>1, <3>3
      <4>2. DOMAIN addrs = 1 .. Len(addrs)
        BY <3>1
      <4>3. ObjectsOf(addrs) \in [1 .. Len(addrs) -> Object]
        BY <4>1, <4>2 DEF ObjectsOf
      <4> QED BY <3>1, <4>2, <4>3
    <3>5. Len(pool.routes[r].backends) = Len(addrs)
      BY DEF addrs
    <3> QED BY <3>1, <3>2, <3>4, <3>5 DEF RouteOK
  <2> QED BY <2>1, <2>2 DEF ListsOK
<1>4. CheckersOK
  <2>1. checker = [r \in Routes |-> [at |-> 1, answer |-> "none"]]
    BY DEF Init, Routes
  <2>2. \A r \in Routes : pool.routes[r].backends # <<>> => 1 \in DOMAIN pool.routes[r].backends
    BY <1>2
  <2> QED BY <2>1, <2>2 DEF CheckersOK
<1>5. ReloadOK
  BY DEF Init, NoReload, ReloadOK, Reloading
<1>6. TasksTyped
  <2>1. task = [c \in Client |-> IdleTask]
    BY DEF Init
  <2>2. IdleTask \in Tasks /\ IdleTask.pc = "idle"
    BY DEF IdleTask, Tasks, Pc
  <2>3. HoldsOK(IdleTask)
    BY <2>2 DEF HoldsOK, Holding, Chosen
  <2> QED BY <2>1, <2>2, <2>3 DEF TasksTyped
<1> QED BY <1>1, <1>3, <1>4, <1>5, <1>6 DEF TypeInv

LEMMA TypeInvHolds ==
  ASSUME IsFiniteSet(Client)
  PROVE  Spec => [](CountInv /\ TypeInv)
<1>1. Init => TypeInv
  BY TypeInit
<1>2. CountInv /\ TypeInv /\ [Next]_vars => TypeInv'
  BY TypeStep DEF CountInv
<1> QED BY <1>1, <1>2, CountInvHolds, PTL DEF Spec

-----------------------------------------------------------------------------
(* A refused client.  Every try that is spent marks its target unhealthy,  *)
(* so as long as nothing turns healthy the unhealthy objects of the        *)
(* snapshot and the tries left make up the snapshot.  The target of a try  *)
(* in progress is not counted: a checker may have marked it already, and   *)
(* the try will be spent on it all the same.                               *)

Unhealthy(c) == {k \in task[c].snap : ~backends[task[c].route][k].healthy}
Trying(c) == IF At(c, "pick") THEN {} ELSE {task[c].target}
Seeking == {"pick", "dial", "upload", "response"}

ChoiceOK(c) ==
  /\ task[c].pc \in Seeking =>
       /\ steady[c] \subseteq task[c].snap \ Unhealthy(c)
       /\ ~revived[c] => Cardinality(Unhealthy(c) \ Trying(c)) + task[c].tries
                           >= Cardinality(task[c].snap)
  /\ At(c, "refused") => steady[c] = {} \/ revived[c]

ChoiceInv == \A c \in Client : ChoiceOK(c)

\* What the history remembers of a task that goes on choosing.
LEMMA ChoosesOn ==
  ASSUME HNext, TypeInv, NEW c \in Client, ChoiceOK(c),
         task[c].pc \in Seeking, task'[c].pc \in Seeking, SameChoice(c)
  PROVE  /\ steady'[c] \subseteq task'[c].snap \ Unhealthy(c)'
         /\ ~revived'[c] => /\ Unhealthy(c) \subseteq Unhealthy(c)'
                            /\ Cardinality(Unhealthy(c) \ Trying(c)) + task[c].tries
                                 >= Cardinality(task[c].snap)
         /\ IsFiniteSet(task[c].snap)
<1>1. ~Begins(c) /\ Choosing(c)
  BY DEF Begins, Choosing, Seeking, At
<1>2. steady'[c] = steady[c] \cap Sound(c)'
  BY <1>1 DEF HNext
<1>3. Sound(c)' \subseteq task'[c].snap \ Unhealthy(c)'
  BY DEF Sound, Unhealthy
<1>4. revived'[c] = (revived[c] \/ Revives(c) \/ (Goes(c, "refused") /\ revived[c]))
  BY <1>1 DEF HNext
<1>5. ASSUME ~revived'[c]
      PROVE  /\ Unhealthy(c) \subseteq Unhealthy(c)'
             /\ Cardinality(Unhealthy(c) \ Trying(c)) + task[c].tries
                  >= Cardinality(task[c].snap)
  <2>1. ~revived[c] /\ ~Revives(c)
    BY <1>4, <1>5
  <2>2. Unhealthy(c) \subseteq Unhealthy(c)'
    BY <2>1 DEF Revives, Unhealthy, SameChoice
  <2> QED BY <2>1, <2>2 DEF ChoiceOK
<1>6. IsFiniteSet(task[c].snap)
  <2>1. task[c].route \in Routes /\ task[c].snap \subseteq DOMAIN backends[task[c].route]
    BY DEF TypeInv, TasksTyped, HoldsOK, Holding, Chosen, Seeking
  <2> QED BY <2>1, ListFinite DEF TypeInv
<1> QED BY <1>2, <1>3, <1>5, <1>6

LEMMA MoreUnhealthy ==
  ASSUME NEW S, NEW T, NEW snap, IsFiniteSet(snap), S \subseteq T, T \subseteq snap
  PROVE  /\ Cardinality(S) \in Nat /\ Cardinality(T) \in Nat
         /\ Cardinality(snap) \in Nat /\ Cardinality(S) <= Cardinality(T)
<1>1. IsFiniteSet(T)
  BY FS_Subset
<1> QED BY <1>1, FS_Subset, FS_CardinalityType

LEMMA SameChoiceOK ==
  ASSUME HNext, TypeInv, NEW c \in Client, ChoiceOK(c), task'[c] = task[c]
  PROVE  ChoiceOK(c)'
<1>1. CASE task[c].pc \in Seeking
  <2> DEFINE S == Unhealthy(c) \ Trying(c)
             T == Unhealthy(c)' \ Trying(c)'
             snap == task[c].snap
  <2>1. task'[c].pc \in Seeking /\ SameChoice(c) /\ Trying(c)' = Trying(c)
    BY <1>1 DEF SameChoice, Trying, At
  <2>2. /\ steady'[c] \subseteq task'[c].snap \ Unhealthy(c)'
        /\ ~revived'[c] => /\ Unhealthy(c) \subseteq Unhealthy(c)'
                           /\ Cardinality(S) + task[c].tries >= Cardinality(snap)
        /\ IsFiniteSet(snap)
    BY <1>1, <2>1, ChoosesOn
  <2>3. ASSUME ~revived'[c]
        PROVE  Cardinality(T) + task'[c].tries >= Cardinality(task'[c].snap)
    <3>1. S \subseteq T
      BY <2>1, <2>2, <2>3
    <3>2. T \subseteq snap /\ task'[c].snap = snap /\ task'[c].tries = task[c].tries
      BY DEF Unhealthy
    <3>3. task[c].tries \in Int
      BY DEF TypeInv, TasksTyped, Tasks
    <3> HIDE DEF S, T, snap
    <3>4. /\ Cardinality(S) \in Nat /\ Cardinality(T) \in Nat
          /\ Cardinality(snap) \in Nat /\ Cardinality(S) <= Cardinality(T)
      BY <2>2, <3>1, <3>2, MoreUnhealthy
    <3>5. Cardinality(S) + task[c].tries >= Cardinality(snap)
      BY <2>2, <2>3
    <3> QED BY <3>2, <3>3, <3>4, <3>5
  <2>4. ~At(c, "refused")'
    BY <2>1 DEF At, Seeking
  <2> QED BY <2>2, <2>3, <2>4 DEF ChoiceOK
<1>2. CASE At(c, "refused")
  <2>1. steady'[c] = {}
    BY <1>2 DEF HNext, Begins, Choosing, Goes, At
  <2>2. task'[c].pc \notin Seeking
    BY <1>2 DEF At, Seeking
  <2> QED BY <2>1, <2>2 DEF ChoiceOK
<1>3. CASE task[c].pc \notin Seeking /\ ~At(c, "refused")
  BY <1>3 DEF ChoiceOK, At
<1> QED BY <1>1, <1>2, <1>3

LEMMA EffectChoiceOK ==
  ASSUME HNext, TypeInv, NEW c \in Client, ChoiceOK(c), TaskEffect(c)
  PROVE  ChoiceOK(c)'
<1> DEFINE t == task[c]
           u == task'[c]
           snap == t.snap
           S == Unhealthy(c) \ Trying(c)
           T == Unhealthy(c)' \ Trying(c)'
<1>0. /\ Seeking = {"pick", "dial", "upload", "response"}
      /\ ListsOK /\ HoldsOK(t) /\ t.tries \in Int
  BY DEF Seeking, TypeInv, TasksTyped, Tasks
<1>1. ASSUME u.pc \notin Seeking, u.pc # "refused"
      PROVE  ChoiceOK(c)'
  BY <1>1 DEF ChoiceOK, At
<1>2. CASE Opened(c) \/ Ended(c)
  BY <1>0, <1>1, <1>2 DEF Opened, Ended
<1>3. CASE Started(c)
  <2>1. u.pc = "pick" /\ Begins(c)
    BY <1>3 DEF Started, Begins
  <2>2. steady'[c] = Sound(c)'
    BY <2>1 DEF HNext
  <2>3. steady'[c] \subseteq u.snap \ Unhealthy(c)'
    BY <2>2 DEF Sound, Unhealthy
  <2>4. PICK r \in Routes : /\ u.snap = listed[r]
                            /\ u.tries = IF listed[r] = {} THEN 1 ELSE Cardinality(listed[r])
    BY <1>3 DEF Started
  <2>5. listed[r] \subseteq DOMAIN backends[r]
    BY <1>0 DEF ListsOK, RouteOK
  <2>6. IsFiniteSet(u.snap) /\ Cardinality(u.snap) \in Nat
    BY <1>0, <2>4, <2>5, ListFinite
  <2>7. u.tries >= Cardinality(u.snap)
    BY <2>4, <2>6, FS_EmptySet
  <2>8. T \subseteq u.snap
    BY DEF Unhealthy
  <2> HIDE DEF T
  <2>9. Cardinality(T) \in Nat
    BY <2>6, <2>8, MoreUnhealthy
  <2>10. u.tries \in Int
    BY <2>4, <2>6
  <2>11. Cardinality(T) + u.tries >= Cardinality(u.snap)
    BY <2>6, <2>7, <2>9, <2>10
  <2> QED BY <2>1, <2>3, <2>11 DEF ChoiceOK, At, T
<1>4. ASSUME t.pc \in Seeking, u.pc \in Seeking, SameChoice(c)
      PROVE  /\ steady'[c] \subseteq u.snap \ Unhealthy(c)'
             /\ ~revived'[c] => /\ Unhealthy(c) \subseteq Unhealthy(c)'
                                /\ Cardinality(S) + t.tries >= Cardinality(snap)
             /\ IsFiniteSet(snap) /\ u.snap = snap
             /\ T \subseteq snap /\ S \subseteq snap
  BY <1>4, ChoosesOn DEF SameChoice, Unhealthy
<1>5. ASSUME t.pc \in Seeking, u.pc \in Seeking, SameChoice(c), u.tries = t.tries,
             ~revived'[c] => S \subseteq T
      PROVE  ChoiceOK(c)'
  <2>1. ASSUME ~revived'[c]
        PROVE  Cardinality(T) + u.tries >= Cardinality(u.snap)
    <3>1. /\ S \subseteq T /\ T \subseteq snap /\ u.snap = snap /\ IsFiniteSet(snap)
          /\ Cardinality(S) + t.tries >= Cardinality(snap)
      BY <1>4, <1>5, <2>1
    <3> HIDE DEF S, T, snap
    <3>2. /\ Cardinality(S) \in Nat /\ Cardinality(T) \in Nat
          /\ Cardinality(snap) \in Nat /\ Cardinality(S) <= Cardinality(T)
      BY <3>1, MoreUnhealthy
    <3> QED BY <1>0, <1>5, <3>1, <3>2
  <2> QED BY <1>0, <1>4, <1>5, <2>1 DEF ChoiceOK, At
<1>6. CASE Picked(c)
  <2>1. /\ t.pc = "pick" /\ u.pc = "dial" /\ SameChoice(c) /\ u.tries = t.tries
        /\ u.target \in Healthy(backends[t.route], t.snap) /\ backends' = backends
    BY <1>6 DEF Picked, At, SameLists
  <2>2. Unhealthy(c)' = Unhealthy(c) /\ u.target \notin Unhealthy(c)
    BY <2>1 DEF Unhealthy, Healthy, SameChoice
  <2>3. Trying(c) = {} /\ Trying(c)' = {u.target}
    BY <2>1 DEF Trying, At
  <2>4. S \subseteq T
    BY <2>2, <2>3
  <2> QED BY <1>0, <1>5, <2>1, <2>4
<1>7. CASE Advanced(c)
  <2>1. /\ t.pc \in {"dial", "upload"} /\ u.pc \in {"upload", "response"} /\ SameChoice(c)
        /\ u.tries = t.tries /\ u.target = t.target
    BY <1>7 DEF Advanced, At, SameTry
  <2>2. Trying(c)' = Trying(c)
    BY <2>1 DEF Trying, At
  <2>3. t.pc \in Seeking /\ u.pc \in Seeking
    BY <1>0, <2>1
  <2>4. ~revived'[c] => S \subseteq T
    BY <1>4, <2>1, <2>2, <2>3
  <2> QED BY <1>5, <2>1, <2>3, <2>4
<1>8. CASE Spent(c)
  <2>1. /\ t.pc \in {"dial", "upload", "response"} /\ u.pc = "pick" /\ SameChoice(c)
        /\ u.tries = t.tries - 1
    BY <1>8 DEF Spent
  <2>2. Trying(c) = {t.target} /\ Trying(c)' = {}
    BY <2>1 DEF Trying, At
  <2>3. t.target \in Unhealthy(c)'
    <3>1. t.pc \in Chosen /\ t.target \in t.snap
      BY <1>0, <2>1 DEF HoldsOK, Chosen
    <3>2. PICK b : SetsTarget(c, SetHealthy(b, FALSE)) /\ b \in Object
      <4>1. Target(c) \in Object
        BY <3>1, Held
      <4>2. Released(Target(c)) \in Object
        BY <4>1, ObjectOperations DEF Object
      <4> QED BY <1>8, <4>1, <4>2 DEF Spent
    <3>3. ~SetHealthy(b, FALSE).healthy
      BY <3>2, ObjectOperations DEF Object
    <3>4. backends'[t.route][t.target] = SetHealthy(b, FALSE)
      BY <1>0, <3>2, ObjectSet DEF SetsTarget, SetsObject
    <3> QED BY <2>1, <3>1, <3>3, <3>4 DEF Unhealthy, SameChoice
  <2>4. ASSUME ~revived'[c]
        PROVE  Cardinality(T) + u.tries >= Cardinality(u.snap)
    <3>1. /\ S \cup {t.target} \subseteq T /\ t.target \notin S /\ T \subseteq snap
          /\ u.snap = snap /\ IsFiniteSet(snap)
          /\ Cardinality(S) + t.tries >= Cardinality(snap)
      BY <1>0, <1>4, <2>1, <2>2, <2>3, <2>4
    <3> HIDE DEF S, T, snap
    <3>2. S \subseteq S \cup {t.target} /\ S \cup {t.target} \subseteq snap
      BY <3>1
    <3>3. IsFiniteSet(S)
      BY <3>1, <3>2, FS_Subset
    <3>4. Cardinality(S \cup {t.target}) = Cardinality(S) + 1
      BY <3>1, <3>3, FS_AddElement
    <3>5. /\ Cardinality(S) \in Nat /\ Cardinality(T) \in Nat /\ Cardinality(snap) \in Nat
          /\ Cardinality(S \cup {t.target}) <= Cardinality(T)
      BY <3>1, <3>2, MoreUnhealthy
    <3> QED BY <1>0, <2>1, <3>1, <3>4, <3>5
  <2> QED BY <1>0, <1>4, <2>1, <2>4 DEF ChoiceOK, At
<1>9. CASE GivenUp(c)
  <2>1. /\ t.pc = "pick" /\ u.pc = "refused"
        /\ t.tries = 0 \/ Healthy(backends[t.route], t.snap) = {}
    BY <1>9 DEF GivenUp, At
  <2>2. steady'[c] = steady[c] /\ (revived[c] => revived'[c])
    <3>1. ~Begins(c) /\ ~Choosing(c) /\ Goes(c, "refused")
      BY <2>1 DEF Begins, Choosing, Goes, At
    <3> QED BY <3>1 DEF HNext
  <2>3. /\ steady[c] \subseteq snap \ Unhealthy(c)
        /\ ~revived[c] => Cardinality(Unhealthy(c)) + t.tries >= Cardinality(snap)
    BY <1>0, <2>1 DEF ChoiceOK, Trying, At
  <2>4. IsFiniteSet(snap)
    BY <1>0, <2>1, ListFinite DEF HoldsOK, Holding
  <2>5. Unhealthy(c) \subseteq snap
    BY DEF Unhealthy
  <2>6. ASSUME t.tries = 0, ~revived[c]
        PROVE  Unhealthy(c) = snap
    <3> DEFINE H == Unhealthy(c)
    <3>1. H \subseteq snap /\ IsFiniteSet(snap)
      BY <2>4, <2>5
    <3> HIDE DEF H, snap
    <3>2. Cardinality(H) \in Nat /\ Cardinality(snap) \in Nat /\ Cardinality(H) <= Cardinality(snap)
      BY <3>1, MoreUnhealthy
    <3>3. Cardinality(H) >= Cardinality(snap)
      BY <2>3, <2>6, <3>2 DEF H
    <3>4. H = snap
      BY <3>1, <3>2, <3>3, FS_Subset
    <3> QED BY <3>4 DEF H
  <2>7. ASSUME Healthy(backends[t.route], t.snap) = {}
        PROVE  Unhealthy(c) = snap
    BY <2>7 DEF Healthy, Unhealthy
  <2>8. steady[c] = {} \/ revived[c]
    BY <2>1, <2>3, <2>6, <2>7
  <2> QED BY <1>0, <2>1, <2>2, <2>8 DEF ChoiceOK, At
<1> QED BY <1>2, <1>3, <1>6, <1>7, <1>8, <1>9 DEF TaskEffect

LEMMA ChoiceStep ==
  ASSUME CountInv, TypeInv, ChoiceInv, HNext
  PROVE  ChoiceInv'
<1> SUFFICES ASSUME NEW c \in Client
             PROVE  ChoiceOK(c)'
  BY DEF ChoiceInv
<1>1. ChoiceOK(c) /\ BacklogOK /\ [Next]_vars
  BY DEF ChoiceInv, CountInv, HNext
<1>2. CASE task'[c] = task[c]
  BY <1>1, <1>2, SameChoiceOK
<1>3. CASE Serve
  <2>1. Attended(c)
    BY <1>1, <1>3, ServeEffect
  <2>2. CASE task'[c].pc \in {"queued", "handshake", "accepted", "closed"}
    BY <2>2 DEF ChoiceOK, Seeking, At
  <2> QED BY <1>2, <2>1, <2>2 DEF Attended
<1>4. ASSUME NEW d \in Client, Handle(d)
      PROVE  ChoiceOK(c)'
  <2>1. TaskEffect(d) /\ OnlyTask(d)
    BY <1>4, HandleEffect
  <2> QED BY <1>1, <1>2, <2>1, EffectChoiceOK DEF OnlyTask
<1>5. CASE Rest
  BY <1>2, <1>5, RestEffect
<1> QED BY <1>1, <1>3, <1>4, <1>5, NextKinds

LEMMA HistoryOfSpec == HSpec => Spec
<1>1. HInit => Init
  BY DEF HInit
<1>2. [HNext]_<<vars, history>> => [Next]_vars
  BY DEF HNext
<1> QED BY <1>1, <1>2, PTL DEF HSpec, Spec

\* A client is told that there is no healthy backend only if none of those in
\* its snapshot was healthy and could be dialled all the time, or one that had
\* failed came back meanwhile: for any number of clients and backends, and
\* whatever other tasks, the checkers and the API do to the same objects
\* between two of its tries (tcp.rs and http.rs, handle).
THEOREM RefusalsAreJustified ==
  ASSUME IsFiniteSet(Client)
  PROVE  HSpec => []RefusedForReason
<1>1. HInit => ChoiceInv
  BY IdleIsTask DEF HInit, Init, ChoiceInv, ChoiceOK, Seeking, At
<1>2. CountInv /\ TypeInv /\ ChoiceInv /\ [HNext]_<<vars, history>> => ChoiceInv'
  <2>1. ASSUME ChoiceInv, UNCHANGED <<vars, history>>
        PROVE  ChoiceInv'
    BY <2>1 DEF vars, history, lists, ChoiceInv, ChoiceOK, Unhealthy, Trying, At
  <2> QED BY <2>1, ChoiceStep
<1>3. ChoiceInv => RefusedForReason
  BY DEF ChoiceInv, ChoiceOK, RefusedForReason
<1> QED BY <1>1, <1>2, <1>3, HistoryOfSpec, TypeInvHolds, PTL DEF HSpec

-----------------------------------------------------------------------------
(* Counting modulo the width of the counter.                               *)

LEMMA DivisionIsUnique ==
  ASSUME NEW W \in Nat \ {0}, NEW p \in Int, NEW q \in Int,
         NEW x \in 0 .. W - 1, NEW y \in 0 .. W - 1, p * W + x = q * W + y
  PROVE  x = y
BY SMT

Residue(x, W) == x % W

LEMMA Remainder ==
  ASSUME NEW W \in Nat \ {0}, NEW x \in Nat
  PROVE  Residue(x, W) \in 0 .. W - 1 /\ \E q \in Int : x = q * W + Residue(x, W)
<1>1. /\ x = (x \div W) * W + (x % W) /\ x \div W \in Int
      /\ x % W \in 0 .. W - 1
  BY SMT
<1> QED BY <1>1 DEF Residue

LEMMA SameResidue ==
  ASSUME NEW W \in Nat \ {0}, NEW x \in Nat, NEW y \in Nat
  PROVE  Residue(x, W) = Residue(y, W) <=> \E q \in Int : x = y + q * W
<1> DEFINE mx == Residue(x, W)
           my == Residue(y, W)
<1>1. /\ mx \in 0 .. W - 1 /\ \E q \in Int : x = q * W + mx
      /\ my \in 0 .. W - 1 /\ \E q \in Int : y = q * W + my
  BY Remainder
<1> HIDE DEF mx, my
<1>2. PICK dx \in Int : x = dx * W + mx
  BY <1>1
<1>3. PICK dy \in Int : y = dy * W + my
  BY <1>1
<1>4. ASSUME mx = my
      PROVE  \E q \in Int : x = y + q * W
  <2>1. dx - dy \in Int /\ x = y + (dx - dy) * W
    BY <1>1, <1>2, <1>3, <1>4
  <2> QED BY <2>1
<1>5. ASSUME NEW q \in Int, x = y + q * W
      PROVE  mx = my
  <2>1. dx * W + mx = (dy + q) * W + my /\ dy + q \in Int
    BY <1>1, <1>2, <1>3, <1>5
  <2> QED BY <1>1, <2>1, DivisionIsUnique
<1> QED BY <1>4, <1>5 DEF mx, my

LEMMA ResidueOf ==
  ASSUME NEW W \in Nat \ {0}, NEW x \in Nat
  PROVE  Residue(x, W) \in Nat /\ \E q \in Int : Residue(x, W) = x + q * W
<1> DEFINE m == Residue(x, W)
<1>1. m \in 0 .. W - 1 /\ \E q \in Int : x = q * W + m
  BY Remainder
<1> HIDE DEF m
<1>2. PICK d \in Int : x = d * W + m
  BY <1>1
<1>3. m \in Nat /\ -d \in Int /\ m = x + (-d) * W
  BY <1>1, <1>2
<1> QED BY <1>3 DEF m

\* A connection more, or less, on an object and on its counter; and one less
\* on the counter with one more upload.
LEMMA OneMore ==
  ASSUME NEW W \in Nat \ {0}, NEW a \in Nat, NEW u \in Nat, NEW n \in Nat,
         Residue(a + u, W) = Residue(n, W)
  PROVE  Residue(Residue(a + 1, W) + u, W) = Residue(n + 1, W)
<1> DEFINE b == Residue(a + 1, W)
<1>1. a + u \in Nat /\ a + 1 \in Nat
  OBVIOUS
<1>2. PICK p \in Int : a + u = n + p * W
  BY <1>1, SameResidue
<1>3. b \in Nat /\ \E q \in Int : b = (a + 1) + q * W
  BY <1>1, ResidueOf
<1> HIDE DEF b
<1>4. PICK q \in Int : b = (a + 1) + q * W
  BY <1>3
<1>5. b + u = (n + 1) + (p + q) * W /\ p + q \in Int /\ b + u \in Nat /\ n + 1 \in Nat
  BY <1>2, <1>3, <1>4
<1>6. Residue(b + u, W) = Residue(n + 1, W)
  <2> DEFINE x == b + u
             y == n + 1
             r == p + q
  <2>1. x \in Nat /\ y \in Nat /\ r \in Int /\ x = y + r * W
    BY <1>5
  <2> HIDE DEF x, y, r
  <2>2. Residue(x, W) = Residue(y, W)
    BY <2>1, SameResidue
  <2> QED BY <2>2 DEF x, y
<1> QED BY <1>6 DEF b

LEMMA OneLess ==
  ASSUME NEW W \in Nat \ {0}, NEW a \in Nat, NEW u \in Nat, NEW n \in Nat \ {0},
         Residue(a + u, W) = Residue(n, W)
  PROVE  Residue(Residue(a + (W - 1), W) + u, W) = Residue(n - 1, W)
<1> DEFINE b == Residue(a + (W - 1), W)
<1>1. a + u \in Nat /\ a + (W - 1) \in Nat
  OBVIOUS
<1>2. PICK p \in Int : a + u = n + p * W
  BY <1>1, SameResidue
<1>3. b \in Nat /\ \E q \in Int : b = (a + (W - 1)) + q * W
  BY <1>1, ResidueOf
<1> HIDE DEF b
<1>4. PICK q \in Int : b = (a + (W - 1)) + q * W
  BY <1>3
<1>5. /\ b + u = (n - 1) + (p + q + 1) * W /\ p + q + 1 \in Int
      /\ b + u \in Nat /\ n - 1 \in Nat
  BY <1>2, <1>3, <1>4
<1>6. Residue(b + u, W) = Residue(n - 1, W)
  <2> DEFINE x == b + u
             y == n - 1
             r == p + q + 1
  <2>1. x \in Nat /\ y \in Nat /\ r \in Int /\ x = y + r * W
    BY <1>5
  <2> HIDE DEF x, y, r
  <2>2. Residue(x, W) = Residue(y, W)
    BY <2>1, SameResidue
  <2> QED BY <2>2 DEF x, y
<1> QED BY <1>6 DEF b

LEMMA OneMoved ==
  ASSUME NEW W \in Nat \ {0}, NEW a \in Nat, NEW u \in Nat, NEW n \in Nat,
         Residue(a + u, W) = Residue(n, W)
  PROVE  Residue(Residue(a + (W - 1), W) + Residue(u + 1, W), W) = Residue(n, W)
<1> DEFINE b == Residue(a + (W - 1), W)
           v == Residue(u + 1, W)
<1>1. a + u \in Nat /\ a + (W - 1) \in Nat /\ u + 1 \in Nat
  OBVIOUS
<1>2. PICK p \in Int : a + u = n + p * W
  BY <1>1, SameResidue
<1>3. /\ b \in Nat /\ \E q \in Int : b = (a + (W - 1)) + q * W
      /\ v \in Nat /\ \E q \in Int : v = (u + 1) + q * W
  BY <1>1, ResidueOf
<1> HIDE DEF b, v
<1>4. PICK q \in Int : b = (a + (W - 1)) + q * W
  BY <1>3
<1>5. PICK s \in Int : v = (u + 1) + s * W
  BY <1>3
<1>6. b + v = n + (p + q + s + 1) * W /\ p + q + s + 1 \in Int /\ b + v \in Nat
  BY <1>2, <1>3, <1>4, <1>5
<1>7. Residue(b + v, W) = Residue(n, W)
  BY <1>6, SameResidue
<1> QED BY <1>7 DEF b, v

-----------------------------------------------------------------------------
(* The counter of an object, its open connections and its uploads.         *)

UploadsOK ==
  /\ DOMAIN uploads = Routes
  /\ \A r \in Routes :
       /\ uploads[r] \in [1 .. MaxObjects -> Nat]
       /\ \A k \in 1 .. MaxObjects : k \notin DOMAIN backends[r] => uploads[r][k] = 0

Balanced(r, k) ==
  Residue(backends[r][k].active + uploads[r][k], Width)
    = Residue(Cardinality(OpenOn(r, k)), Width)

BalanceInv == UploadsOK /\ \A r \in Routes : \A k \in DOMAIN backends[r] : Balanced(r, k)

UploadReleases(r, k) == \E c \in Client : Releases(c, r, k)

\* The numbers that Balanced compares.
LEMMA BalanceNumbers ==
  ASSUME IsFiniteSet(Client), TypeInv, UploadsOK, NEW r \in Routes, NEW k \in DOMAIN backends[r]
  PROVE  /\ k \in 1 .. MaxObjects /\ backends[r][k] \in Object
         /\ backends[r][k].active \in Nat /\ uploads[r][k] \in Nat
         /\ IsFiniteSet(OpenOn(r, k)) /\ Cardinality(OpenOn(r, k)) \in Nat
         /\ Width \in Nat \ {0}
<1>1. /\ backends[r] \in Seq(Object) /\ Len(backends[r]) <= MaxObjects /\ MaxObjects \in Nat
  BY PoolAssumption DEF TypeInv, ListsOK, RouteOK
<1>2. k \in 1 .. MaxObjects /\ backends[r][k] \in Object
  BY <1>1
<1>3. backends[r][k].active \in Nat /\ uploads[r][k] \in Nat
  BY <1>2 DEF Object, UploadsOK
<1>4. OpenOn(r, k) \subseteq Client
  BY DEF OpenOn
<1>5. IsFiniteSet(OpenOn(r, k)) /\ Cardinality(OpenOn(r, k)) \in Nat
  BY <1>4, FS_Subset, FS_CardinalityType
<1> QED BY <1>2, <1>3, <1>5, WidthAssumption

\* What a step does to the upload counters.
LEMMA UploadsEffect ==
  ASSUME HNext, TypeInv, UploadsOK, NEW r \in Routes, NEW k \in 1 .. MaxObjects
  PROVE  /\ DOMAIN uploads' = Routes /\ DOMAIN uploads'[r] = 1 .. MaxObjects
         /\ UploadReleases(r, k) => uploads'[r][k] = Residue(uploads[r][k] + 1, Width)
         /\ ~UploadReleases(r, k) => uploads'[r][k] = uploads[r][k]
BY DEF HNext, UploadsOK, UploadReleases, Residue

\* A released object exists.
LEMMA ReleasedExists ==
  ASSUME TypeInv, NEW r, NEW k, UploadReleases(r, k)
  PROVE  r \in Routes /\ k \in DOMAIN backends[r]
<1>1. PICK c \in Client : Releases(c, r, k)
  BY DEF UploadReleases
<1>2. task[c].pc \in Chosen /\ task[c].route = r /\ task[c].target = k
  BY <1>1 DEF Releases, At, Chosen
<1> QED BY <1>2, Held

LEMMA UploadsStep ==
  ASSUME HNext, TypeInv, UploadsOK, Grown, pool' = pool
  PROVE  UploadsOK'
<1>1. Routes' = Routes
  BY DEF Routes
<1>2. SUFFICES ASSUME NEW r \in Routes
               PROVE  /\ DOMAIN uploads' = Routes
                      /\ uploads'[r] \in [1 .. MaxObjects -> Nat]
                      /\ \A k \in 1 .. MaxObjects :
                           k \notin DOMAIN backends'[r] => uploads'[r][k] = 0
  <2>1. DOMAIN uploads' = DOMAIN uploads
    BY DEF HNext
  <2> QED BY <1>1, <1>2, <2>1 DEF UploadsOK
<1>3. DOMAIN uploads' = Routes
  BY DEF HNext, UploadsOK
<1>4. uploads'[r] = [k \in 1 .. MaxObjects |->
         IF UploadReleases(r, k) THEN (uploads[r][k] + 1) % Width ELSE uploads[r][k]]
  BY DEF HNext, UploadsOK, UploadReleases
<1>5. ASSUME NEW k \in 1 .. MaxObjects
      PROVE  uploads'[r][k] \in Nat
  <2>1. uploads[r][k] \in Nat /\ Width \in Nat \ {0}
    BY WidthAssumption DEF UploadsOK
  <2>2. (uploads[r][k] + 1) % Width \in Nat
    BY <2>1
  <2> QED BY <1>4, <2>1, <2>2
<1>6. ASSUME NEW k \in 1 .. MaxObjects, k \notin DOMAIN backends'[r]
      PROVE  uploads'[r][k] = 0
  <2>1. k \notin DOMAIN backends[r]
    BY <1>6 DEF Grown
  <2>2. ~UploadReleases(r, k)
    BY <2>1, ReleasedExists
  <2> QED BY <1>4, <2>1, <2>2 DEF UploadsOK
<1>7. uploads'[r] \in [1 .. MaxObjects -> Nat]
  BY <1>4, <1>5
<1> QED BY <1>3, <1>6, <1>7

\* An object that the step leaves alone.
LEMMA LeftAlone ==
  ASSUME HNext, TypeInv, UploadsOK, NEW r \in Routes, NEW k \in 1 .. MaxObjects,
         Balanced(r, k), ~UploadReleases(r, k),
         backends'[r][k].active = backends[r][k].active, OpenOn(r, k)' = OpenOn(r, k)
  PROVE  Balanced(r, k)'
BY UploadsEffect DEF Balanced

LEMMA QuietCounters ==
  ASSUME TypeInv, QuietLists, NEW r \in Routes, NEW k \in DOMAIN backends'[r]
  PROVE  backends'[r][k].active = IF k \in DOMAIN backends[r] THEN backends[r][k].active ELSE 0
<1>0. ListsOK
  BY DEF TypeInv
<1>1. CASE SameLists
  BY <1>1 DEF SameLists
<1>2. ASSUME NEW s, NEW j, NEW b, SetsObject(s, j, b), b.active = backends[s][j].active
      PROVE  backends'[r][k].active = IF k \in DOMAIN backends[r] THEN backends[r][k].active ELSE 0
  <2>1. /\ backends'[r] \in Seq(Object) /\ Len(backends'[r]) = Len(backends[r])
        /\ \A i \in DOMAIN backends[r] :
             backends'[r][i] = IF r = s /\ i = j THEN b ELSE backends[r][i]
    BY <1>0, <1>2, ObjectSet
  <2>2. backends[r] \in Seq(Object)
    BY <1>0 DEF ListsOK, RouteOK
  <2>3. k \in DOMAIN backends[r]
    BY <2>1, <2>2
  <2> QED BY <1>2, <2>1, <2>3
<1>3. ASSUME NEW a \in Addr, AddsObject(a)
      PROVE  backends'[r][k].active = IF k \in DOMAIN backends[r] THEN backends[r][k].active ELSE 0
  <2>1. r = 1 /\ 1 \in Routes
    BY <1>3, PoolShape DEF AddsObject, TypeInv
  <2>2. backends[1] \in Seq(Object)
    BY <1>0, <2>1 DEF ListsOK, RouteOK
  <2>3. backends'[1] = Append(backends[1], NewBackend(a))
    BY <1>0, <1>3, <2>1 DEF AddsObject, ListsOK
  <2>4. NewBackend(a).active = 0
    BY DEF NewBackend
  <2> HIDE DEF NewBackend
  <2>5. \/ k \in DOMAIN backends[1] /\ backends'[1][k] = backends[1][k]
        \/ k \notin DOMAIN backends[1] /\ backends'[1][k] = NewBackend(a)
    BY <2>1, <2>2, <2>3
  <2> QED BY <2>1, <2>4, <2>5
<1>4. ASSUME NEW a \in Addr, Delists(a)
      PROVE  backends'[r][k].active = IF k \in DOMAIN backends[r] THEN backends[r][k].active ELSE 0
  BY <1>4 DEF Delists
<1> QED BY <1>1, <1>2, <1>3, <1>4 DEF QuietLists

\* No connection opens or ends and no upload goes on.
LEMMA BalanceAtRest ==
  ASSUME IsFiniteSet(Client), HNext, TypeInv, TypeInv', BalanceInv, QuietLists,
         \A c \in Client : Attended(c),
         NEW r \in Routes, NEW k \in DOMAIN backends'[r], k \in 1 .. MaxObjects
  PROVE  Balanced(r, k)'
<1>1. ~UploadReleases(r, k)
  BY DEF UploadReleases, Releases, At, Attended
<1>2. OpenOn(r, k)' = OpenOn(r, k)
  BY DEF OpenOn, At, Attended
<1>3. CASE k \in DOMAIN backends[r]
  <2>1. backends'[r][k].active = backends[r][k].active
    BY <1>3, QuietCounters
  <2> QED BY <1>1, <1>2, <1>3, <2>1, LeftAlone DEF BalanceInv
<1>4. CASE k \notin DOMAIN backends[r]
  <2>1. backends'[r][k].active = 0
    BY <1>4, QuietCounters
  <2>2. uploads'[r][k] = 0
    BY <1>1, <1>4, UploadsEffect DEF BalanceInv, UploadsOK
  <2>3. OpenOn(r, k) = {}
    BY <1>4, Held DEF OpenOn, At, Chosen
  <2>4. Cardinality(OpenOn(r, k)') = 0
    BY <1>2, <2>3, FS_EmptySet
  <2> QED BY <2>1, <2>2, <2>4 DEF Balanced
<1> QED BY <1>3, <1>4

\* One task's step.
LEMMA BalanceOfTask ==
  ASSUME IsFiniteSet(Client), HNext, TypeInv, BalanceInv, NEW c \in Client,
         TaskEffect(c), OnlyTask(c),
         NEW r \in Routes, NEW k \in DOMAIN backends[r]
  PROVE  Balanced(r, k)'
<1> DEFINE t == task[c]
           u == task'[c]
           mine == r = t.route /\ k = t.target
           open == Cardinality(OpenOn(r, k))
           a == backends[r][k].active
           n == uploads[r][k]
<1>1. /\ ListsOK /\ UploadsOK /\ Balanced(r, k)
      /\ k \in 1 .. MaxObjects /\ backends[r][k] \in Object /\ a \in Nat /\ n \in Nat
      /\ IsFiniteSet(OpenOn(r, k)) /\ open \in Nat /\ Width \in Nat \ {0}
  BY BalanceNumbers DEF BalanceInv, TypeInv
<1>2. UploadReleases(r, k) <=> mine /\ t.pc = "upload" /\ u.pc \in {"response", "pick"}
  BY DEF UploadReleases, Releases, At, OnlyTask
<1>3. \A d \in Client : d # c => (d \in OpenOn(r, k)' <=> d \in OpenOn(r, k))
  BY DEF OpenOn, At, OnlyTask
<1>4. /\ c \in OpenOn(r, k) <=> mine /\ t.pc = "open"
      /\ c \in OpenOn(r, k)' <=> r = u.route /\ k = u.target /\ u.pc = "open"
  BY DEF OpenOn, At
<1>5. OpenOn(r, k) \subseteq Client /\ OpenOn(r, k)' \subseteq Client
  BY DEF OpenOn
<1>6. ASSUME NEW b, SetsTarget(c, b)
      PROVE  backends'[r][k].active = IF mine THEN b.active ELSE a
  BY <1>1, <1>6, ObjectSet DEF SetsTarget, SetsObject
<1>7. ASSUME mine
      PROVE  LET old == Target(c)
             IN  /\ Connected(old).active = Residue(a + 1, Width)
                 /\ Released(old).active = Residue(a + (Width - 1), Width)
                 /\ SetHealthy(Released(old), FALSE).active = Residue(a + (Width - 1), Width)
                 /\ SetHealthy(old, FALSE).active = a
  <2> DEFINE old == Target(c)
  <2>1. old \in Object /\ old.active = a
    BY <1>1, <1>7 DEF Target
  <2> HIDE DEF old, a
  <2>2. Connected(old).active = Residue(a + 1, Width)
    BY <2>1, ObjectOperations DEF Residue
  <2>3. /\ Released(old) \in Object
        /\ Released(old).active = Residue(a + (Width - 1), Width)
    BY <2>1, ObjectOperations DEF Residue
  <2>4. /\ SetHealthy(Released(old), FALSE).active = Released(old).active
        /\ SetHealthy(old, FALSE).active = old.active
    BY <2>1, <2>3, ObjectOperations
  <2> QED BY <2>1, <2>2, <2>3, <2>4 DEF old
<1>8. ASSUME backends'[r][k].active = a, t.pc # "open" /\ u.pc # "open",
             t.pc # "upload" \/ u.pc \notin {"response", "pick"}
      PROVE  Balanced(r, k)'
  <2>1. OpenOn(r, k)' = OpenOn(r, k)
    BY <1>3, <1>4, <1>5, <1>8
  <2> QED BY <1>1, <1>2, <1>8, <2>1, LeftAlone
<1>9. CASE Started(c) \/ Picked(c) \/ GivenUp(c)
  BY <1>8, <1>9 DEF Started, Picked, GivenUp, At, SameLists
<1>10. CASE Opened(c)
  <2>1. /\ t.pc = "dial" /\ u.pc = "open" /\ u.route = t.route /\ u.target = t.target
        /\ SetsTarget(c, Connected(Target(c)))
    BY <1>10 DEF Opened, At, SameTry, SameChoice
  <2>2. ~UploadReleases(r, k)
    BY <1>2, <2>1
  <2>3. CASE ~mine
    <3>1. OpenOn(r, k)' = OpenOn(r, k)
      BY <1>3, <1>4, <1>5, <2>1, <2>3
    <3>2. backends'[r][k].active = a
      BY <1>6, <2>1, <2>3
    <3> QED BY <1>1, <2>2, <3>1, <3>2, LeftAlone
  <2>4. CASE mine
    <3>1. OpenOn(r, k)' = OpenOn(r, k) \cup {c} /\ c \notin OpenOn(r, k)
      BY <1>3, <1>4, <1>5, <2>1, <2>4
    <3>2. Cardinality(OpenOn(r, k)') = open + 1
      BY <1>1, <3>1, FS_AddElement
    <3>3. backends'[r][k].active = Residue(a + 1, Width)
      BY <1>6, <1>7, <2>1, <2>4
    <3>4. uploads'[r][k] = n
      BY <1>1, <2>2, UploadsEffect
    <3>5. Residue(a + n, Width) = Residue(open, Width)
      BY <1>1 DEF Balanced
    <3> HIDE DEF a, n, open
    <3>6. Residue(Residue(a + 1, Width) + n, Width) = Residue(open + 1, Width)
      BY <1>1, <3>5, OneMore
    <3> QED BY <3>2, <3>3, <3>4, <3>6 DEF Balanced
  <2> QED BY <2>3, <2>4
<1>11. CASE Ended(c)
  <2>1. CASE t.pc = "open" /\ SetsTarget(c, Released(Target(c)))
    <3>1. u.pc \in {"leaving", "closed"} /\ ~UploadReleases(r, k)
      BY <1>2, <1>11, <2>1 DEF Ended
    <3>2. CASE ~mine
      <4>1. OpenOn(r, k)' = OpenOn(r, k)
        BY <1>3, <1>4, <1>5, <2>1, <3>1, <3>2
      <4>2. backends'[r][k].active = a
        BY <1>6, <2>1, <3>2
      <4> QED BY <1>1, <3>1, <4>1, <4>2, LeftAlone
    <3>3. CASE mine
      <4>1. OpenOn(r, k)' = OpenOn(r, k) \ {c} /\ c \in OpenOn(r, k)
        BY <1>3, <1>4, <1>5, <2>1, <3>1, <3>3
      <4>2. Cardinality(OpenOn(r, k)') = open - 1 /\ open # 0
        BY <1>1, <4>1, FS_RemoveElement, FS_EmptySet
      <4>3. backends'[r][k].active = Residue(a + (Width - 1), Width)
        BY <1>6, <1>7, <2>1, <3>3
      <4>4. uploads'[r][k] = n
        BY <1>1, <3>1, UploadsEffect
      <4>5. Residue(a + n, Width) = Residue(open, Width)
        BY <1>1 DEF Balanced
      <4> HIDE DEF a, n, open
      <4>6. Residue(Residue(a + (Width - 1), Width) + n, Width) = Residue(open - 1, Width)
        BY <1>1, <4>2, <4>5, OneLess
      <4> QED BY <4>2, <4>3, <4>4, <4>6 DEF Balanced
    <3> QED BY <3>2, <3>3
  <2>2. CASE t.pc # "open"
    <3>1. u.pc \in {"leaving", "closed"} /\ SameLists
      BY <1>11, <2>2 DEF Ended, At
    <3> QED BY <1>8, <2>2, <3>1 DEF SameLists
  <2> QED BY <1>11, <2>1, <2>2 DEF Ended, At
<1>12. ASSUME t.pc = "upload", u.pc \in {"response", "pick"},
              NEW b, SetsTarget(c, b),
              mine => b.active = Residue(a + (Width - 1), Width)
       PROVE  Balanced(r, k)'
  <2>1. OpenOn(r, k)' = OpenOn(r, k)
    BY <1>3, <1>4, <1>5, <1>12
  <2>2. CASE ~mine
    <3>1. backends'[r][k].active = a /\ ~UploadReleases(r, k)
      BY <1>2, <1>6, <1>12, <2>2
    <3> QED BY <1>1, <2>1, <3>1, LeftAlone
  <2>3. CASE mine
    <3>1. backends'[r][k].active = Residue(a + (Width - 1), Width) /\ UploadReleases(r, k)
      BY <1>2, <1>6, <1>12, <2>3
    <3>2. uploads'[r][k] = Residue(n + 1, Width)
      BY <1>1, <3>1, UploadsEffect
    <3>3. Residue(a + n, Width) = Residue(open, Width)
      BY <1>1 DEF Balanced
    <3> HIDE DEF a, n
    <3>4. Residue(Residue(a + (Width - 1), Width) + Residue(n + 1, Width), Width)
            = Residue(open, Width)
      BY <1>1, <3>3, OneMoved DEF open
    <3> QED BY <2>1, <3>1, <3>2, <3>4 DEF Balanced
  <2> QED BY <2>2, <2>3
<1>13. CASE Advanced(c)
  <2>1. CASE t.pc = "dial" /\ u.pc = "upload" /\ SameLists
    BY <1>8, <2>1 DEF SameLists
  <2>2. CASE t.pc = "upload" /\ u.pc = "response" /\ SetsTarget(c, Released(Target(c)))
    BY <1>12, <1>7, <2>2
  <2> QED BY <1>13, <2>1, <2>2 DEF Advanced, At
<1>14. CASE Spent(c)
  <2>1. CASE t.pc = "upload"
    <3>1. u.pc = "pick" /\ SetsTarget(c, SetHealthy(Released(Target(c)), FALSE))
      BY <1>14, <2>1 DEF Spent, At
    <3> QED BY <1>12, <1>7, <2>1, <3>1
  <2>2. CASE t.pc # "upload"
    <3>1. /\ t.pc \in {"dial", "response"} /\ u.pc = "pick"
          /\ SetsTarget(c, SetHealthy(Target(c), FALSE))
      BY <1>14, <2>2 DEF Spent, At
    <3>2. backends'[r][k].active = a
      BY <1>6, <1>7, <3>1
    <3> QED BY <1>8, <3>1, <3>2
  <2> QED BY <2>1, <2>2
<1> QED BY <1>9, <1>10, <1>11, <1>13, <1>14 DEF TaskEffect

LEMMA BalanceStep ==
  ASSUME IsFiniteSet(Client), CountInv, TypeInv, BalanceInv, HNext
  PROVE  BalanceInv'
<1>1. BacklogOK /\ [Next]_vars
  BY DEF CountInv, HNext
<1>2. TypeInv' /\ pool' = pool /\ Grown /\ Routes' = Routes
  BY <1>1, TypeStep DEF Routes
<1>3. UploadsOK'
  BY <1>2, UploadsStep DEF BalanceInv
<1>4. ASSUME NEW r \in Routes, NEW k \in DOMAIN backends'[r]
      PROVE  Balanced(r, k)'
  <2>1. backends'[r] \in Seq(Object) /\ Len(backends'[r]) <= MaxObjects
    BY <1>2 DEF TypeInv, ListsOK, RouteOK
  <2>2. k \in 1 .. MaxObjects
    BY <2>1, PoolAssumption
  <2>3. ASSUME QuietLists, \A c \in Client : Attended(c)
        PROVE  Balanced(r, k)'
    BY <1>2, <2>2, <2>3, BalanceAtRest
  <2>4. CASE Serve
    BY <1>1, <2>3, <2>4, ServeEffect DEF QuietLists
  <2>5. CASE Rest
    BY <2>3, <2>5, RestEffect DEF Attended
  <2>6. ASSUME NEW c \in Client, Handle(c)
        PROVE  Balanced(r, k)'
    <3>1. TaskEffect(c) /\ OnlyTask(c)
      BY <2>6, HandleEffect
    <3>2. k \in DOMAIN backends[r]
      <4>1. \/ SameLists \/ \E s, j, b : SetsObject(s, j, b)
        BY <3>1 DEF TaskEffect, Started, Picked, GivenUp, Opened, Spent, Advanced, Ended,
                    SetsTarget
      <4>2. CASE SameLists
        BY <4>2 DEF SameLists
      <4>3. ASSUME NEW s, NEW j, NEW b, SetsObject(s, j, b)
            PROVE  k \in DOMAIN backends[r]
        <5>1. ListsOK /\ backends[r] \in Seq(Object)
          BY DEF TypeInv, ListsOK, RouteOK
        <5>2. backends'[r] \in Seq(Object) /\ Len(backends'[r]) = Len(backends[r])
          BY <4>3, <5>1, ObjectSet
        <5> QED BY <5>1, <5>2
      <4> QED BY <4>1, <4>2, <4>3
    <3> QED BY <3>1, <3>2, BalanceOfTask
  <2> QED BY <1>1, <2>4, <2>5, <2>6, NextKinds
<1> QED BY <1>2, <1>3, <1>4 DEF BalanceInv

LEMMA BalanceInit ==
  ASSUME HInit
  PROVE  BalanceInv
<1>1. DOMAIN backends = Routes
  BY DEF HInit, Init, Routes
<1>2. UploadsOK
  BY <1>1, PoolAssumption DEF HInit, UploadsOK
<1>3. ASSUME NEW r \in Routes, NEW k \in DOMAIN backends[r]
      PROVE  Balanced(r, k)
  <2>1. backends[r][k].active = 0
    BY <1>3 DEF HInit, Init, Routes, ObjectsOf, NewBackend
  <2>2. backends[r] \in Seq(Object) /\ Len(backends[r]) <= MaxObjects
    BY TypeInit DEF HInit, TypeInv, ListsOK, RouteOK
  <2>3. k \in 1 .. MaxObjects
    BY <2>2, PoolAssumption
  <2>4. uploads[r][k] = 0
    BY <1>1, <2>3 DEF HInit
  <2>5. OpenOn(r, k) = {}
    BY IdleIsTask DEF HInit, Init, OpenOn, At
  <2>6. Cardinality(OpenOn(r, k)) = 0
    BY <2>5, FS_EmptySet
  <2> QED BY <2>1, <2>4, <2>6 DEF Balanced
<1> QED BY <1>2, <1>3 DEF BalanceInv

\* What a backend reports as its active connections, and what the HTTP/2
\* uploads took off it without having added, are the connections open on it,
\* modulo the width of the counter: for any number of clients, objects and
\* routes, and for every width, so also when fetch_sub has wrapped below zero
\* (lib.rs, Backend::connect and Backend::release; http.rs, h2_bridge).
THEOREM BackendCountersBalance ==
  ASSUME IsFiniteSet(Client)
  PROVE  HSpec => []BackendCountsBalance
<1>1. HInit => BalanceInv
  BY BalanceInit
<1>2. CountInv /\ TypeInv /\ BalanceInv /\ [HNext]_<<vars, history>> => BalanceInv'
  <2>1. ASSUME BalanceInv, UNCHANGED <<vars, history>>
        PROVE  BalanceInv'
    <3>1. backends' = backends /\ uploads' = uploads /\ task' = task /\ pool' = pool
      BY <2>1 DEF vars, lists, history
    <3>2. \A r, k : Balanced(r, k)' <=> Balanced(r, k)
      BY <3>1 DEF Balanced, OpenOn, At
    <3>3. Routes' = Routes
      BY <3>1 DEF Routes
    <3> QED BY <2>1, <3>1, <3>2, <3>3 DEF BalanceInv, UploadsOK
  <2> QED BY <2>1, BalanceStep
<1>3. TypeInv /\ BalanceInv => BackendCountsBalance
  BY DEF TypeInv, ListsOK, BalanceInv, Balanced, Residue, BackendCountsBalance
<1> QED BY <1>1, <1>2, <1>3, HistoryOfSpec, TypeInvHolds, PTL DEF HSpec

-----------------------------------------------------------------------------
(* A reload.  As long as nobody else changes the list, what the file wants *)
(* is listed or still to be added, what is listed is wanted or still to be *)
(* removed, and nothing wanted is to be removed.                           *)

Missing == {reload.want[i] : i \in reload.add}
Superfluous == {backends[1][k].addr : k \in reload.drop}

Settling ==
  /\ Range(reload.want) \subseteq Addresses \cup Missing
  /\ Addresses \subseteq Range(reload.want) \cup Superfluous
  /\ Superfluous \cap Range(reload.want) = {}

SettleInv == Reloading /\ calm => Settling

LEMMA AddressesAfter ==
  ASSUME TypeInv, Grown, pool.kind = "tcp"
  PROVE  /\ \A a \in Addr : AddBackend(a) => Addresses' = Addresses \cup {a}
         /\ \A a \in Addr : RemoveBackend(a) => Addresses' = Addresses \ {a}
         /\ listed' = listed => Addresses' = Addresses
<1>1. /\ 1 \in Routes /\ listed[1] \subseteq DOMAIN backends[1]
      /\ backends[1] \in Seq(Object)
      /\ DOMAIN backends = Routes /\ DOMAIN listed = Routes
  BY PoolShape DEF TypeInv, ListsOK, RouteOK
<1>2. listed' = listed => Addresses' = Addresses
  BY <1>1 DEF Grown, Addresses
<1>3. ASSUME NEW a \in Addr, RemoveBackend(a)
      PROVE  Addresses' = Addresses \ {a}
  <2>1. backends' = backends /\ listed'[1] = {k \in listed[1] : backends[1][k].addr # a}
    BY <1>1, <1>3 DEF RemoveBackend
  <2> QED BY <2>1 DEF Addresses
<1>4. ASSUME NEW a \in Addr, AddBackend(a)
      PROVE  Addresses' = Addresses \cup {a}
  <2>1. CASE a \in Addresses
    BY <1>2, <1>4, <2>1 DEF AddBackend, lists
  <2>2. CASE a \notin Addresses
    <3> DEFINE n == Len(backends[1]) + 1
    <3>1. /\ backends'[1] = Append(backends[1], NewBackend(a))
          /\ listed'[1] = listed[1] \cup {n}
      BY <1>1, <1>4, <2>2 DEF AddBackend
    <3>2. NewBackend(a).addr = a
      BY DEF NewBackend
    <3>3. backends'[1][n] = NewBackend(a)
      BY <1>1, <3>1
    <3>4. \A k \in listed[1] : backends'[1][k].addr = backends[1][k].addr
      BY <1>1 DEF Grown
    <3>5. backends'[1][n].addr = a
      BY <3>2, <3>3
    <3> HIDE DEF n
    <3>6. Addresses' = {backends'[1][k].addr : k \in listed[1]} \cup {backends'[1][n].addr}
      BY <3>1 DEF Addresses
    <3> QED BY <3>4, <3>5, <3>6 DEF Addresses
  <2> QED BY <2>1, <2>2
<1> QED BY <1>2, <1>3, <1>4

LEMMA ReloadStepSettles ==
  ASSUME TypeInv, Grown, Settling, ReloadStep
  PROVE  Settling' /\ reload'.want = reload.want
<1> DEFINE addrOf(k) == backends[1][k].addr
           wanted == Range(reload.want)
<1>1. ReloadOK /\ reload.want \in Seq(Addr)
  BY DEF TypeInv, ReloadOK
<1>2. \A k \in reload.drop : backends'[1][k].addr = addrOf(k)
  BY ReloadNames DEF Grown
<1>3. ASSUME NEW i \in First(reload.add), AddBackend(reload.want[i]),
             reload' = [reload EXCEPT !.add = @ \ {i}]
      PROVE  Settling' /\ reload'.want = reload.want
  <2>1. i \in reload.add
    BY DEF First
  <2>2. reload.want[i] \in Addr /\ pool.kind = "tcp" /\ i \in DOMAIN reload.want
    BY <2>1, ReloadNames
  <2>3. Addresses' = Addresses \cup {reload.want[i]}
    BY <1>3, <2>2, AddressesAfter
  <2>4. /\ reload'.want = reload.want /\ reload'.drop = reload.drop
        /\ reload'.add = reload.add \ {i}
    BY <1>1, <1>3 DEF ReloadOK
  <2>5. reload.want[i] \in wanted
    BY <2>2 DEF Range
  <2>6. Superfluous' = Superfluous
    BY <1>2, <2>4 DEF Superfluous
  <2>7. Missing \subseteq Missing' \cup {reload.want[i]}
    BY <2>4 DEF Missing
  <2> QED BY <2>3, <2>4, <2>5, <2>6, <2>7 DEF Settling
<1>4. ASSUME reload.add = {}, NEW k \in First(reload.drop), RemoveBackend(addrOf(k)),
             reload' = [reload EXCEPT !.drop = @ \ {k}]
      PROVE  Settling' /\ reload'.want = reload.want
  <2>1. k \in reload.drop
    BY DEF First
  <2>2. addrOf(k) \in Addr /\ pool.kind = "tcp"
    BY <2>1, ReloadNames
  <2>3. Addresses' = Addresses \ {addrOf(k)}
    BY <1>4, <2>2, AddressesAfter
  <2>4. /\ reload'.want = reload.want /\ reload'.add = {}
        /\ reload'.drop = reload.drop \ {k}
    BY <1>1, <1>4 DEF ReloadOK
  <2>5. addrOf(k) \notin wanted
    BY <2>1 DEF Settling, Superfluous
  <2>6. Superfluous' \subseteq Superfluous /\ Superfluous \subseteq Superfluous' \cup {addrOf(k)}
    BY <1>2, <2>4 DEF Superfluous
  <2>7. Missing = {}
    BY <1>4 DEF Missing
  <2> QED BY <2>3, <2>4, <2>5, <2>6, <2>7 DEF Settling
<1> QED BY <1>3, <1>4 DEF ReloadStep

\* Who changes the plan of a reload.
LEMMA PlanChanges ==
  ASSUME [Next]_vars, reload' # reload
  PROVE  ReloadStep \/ \E want \in Wanted : Reload(want)
<1>1. ~Serve
  BY DEF Serve, AcceptFails, Reject, Admit, Arrive, Handshake, HandshakeFails
<1>2. ASSUME NEW c \in Client, Handle(c)
      PROVE  FALSE
  BY <1>2 DEF Handle, Snapshot, ReadHead, BadHead, Pick, GiveUp, Dial, DialFails, Finish,
         Leave, OpenSession, Upload, UploadFails, UploadBreaks, Respond, ResponseFails
<1>3. CASE Rest
  BY <1>3 DEF Rest, Probe, Report, Api, ApiChange, Override, Stop, Service, vars
<1> QED BY <1>1, <1>2, <1>3, NextKinds

LEMMA SettleStep ==
  ASSUME TypeInv, BacklogOK, SettleInv, HNext
  PROVE  SettleInv'
<1>1. [Next]_vars /\ (calm' <=> (~Reloading \/ (calm /\ (reload' # reload \/ listed' = listed))))
  BY DEF HNext
<1>2. TypeInv' /\ pool' = pool /\ Grown
  BY <1>1, TypeStep
<1> SUFFICES ASSUME Reloading', calm'
             PROVE  Settling'
  BY DEF SettleInv
<1>3. CASE ReloadStep
  <2>1. Reloading
    BY <1>3 DEF ReloadStep, First, Reloading
  <2>2. Settling
    BY <1>1, <2>1 DEF SettleInv
  <2> QED BY <1>2, <1>3, <2>2, ReloadStepSettles
<1>4. ASSUME NEW want \in Wanted, Reload(want)
      PROVE  Settling'
  <2>1. /\ pool.kind = "tcp" /\ reload' = Plan(want) /\ listed' = listed /\ backends' = backends
    BY <1>4 DEF Reload, lists
  <2>2. Addresses' = Addresses
    BY <2>1 DEF Addresses
  <2>3. /\ reload'.want = want
        /\ reload'.add = {i \in DOMAIN want : want[i] \notin Addresses}
        /\ reload'.drop = {k \in listed[1] : backends[1][k].addr \notin Range(want)}
    BY <2>1 DEF Plan
  <2>4. Range(want) \subseteq Addresses \cup Missing'
    BY <2>3 DEF Missing, Range
  <2>5. Addresses \subseteq Range(want) \cup Superfluous'
    BY <2>1, <2>3 DEF Addresses, Superfluous
  <2>6. Superfluous' \cap Range(want) = {}
    BY <2>1, <2>3 DEF Superfluous
  <2> QED BY <2>2, <2>3, <2>4, <2>5, <2>6 DEF Settling
<1>5. CASE reload' = reload
  <2>1. Reloading
    BY <1>5 DEF Reloading
  <2>2. listed' = listed /\ Settling
    BY <1>1, <1>5, <2>1 DEF SettleInv
  <2>3. Addresses' = Addresses
    BY <1>2, <2>1, <2>2, AddressesAfter DEF TypeInv, ReloadOK
  <2>4. Superfluous' = Superfluous
    BY <1>2, <1>5, ReloadNames DEF Superfluous, Grown
  <2>5. Missing' = Missing /\ reload'.want = reload.want
    BY <1>5 DEF Missing
  <2> QED BY <2>2, <2>3, <2>4, <2>5 DEF Settling
<1> QED BY <1>1, <1>3, <1>4, <1>5, PlanChanges

\* A reload that no other API call interferes with leaves exactly the
\* addresses of the file on the list, for every file and every list, also when
\* an address occurs in either more than once (server.rs, api_reload).
THEOREM ReloadsSettle ==
  ASSUME IsFiniteSet(Client)
  PROVE  HSpec => ReloadSettles
<1>1. HInit => SettleInv
  BY DEF HInit, Init, SettleInv, Reloading, NoReload
<1>2. CountInv /\ TypeInv /\ SettleInv /\ [HNext]_<<vars, history>> => SettleInv'
  <2>1. ASSUME SettleInv, UNCHANGED <<vars, history>>
        PROVE  SettleInv'
    BY <2>1 DEF vars, lists, history, SettleInv, Settling, Missing, Superfluous, Addresses,
                Reloading
  <2> QED BY <2>1, SettleStep DEF CountInv
<1>3. CountInv /\ TypeInv /\ SettleInv /\ [HNext]_<<vars, history>> =>
        [Reloading /\ ~Reloading' /\ calm => Addresses' = Range(reload.want)]_<<vars, history>>
  <2> SUFFICES ASSUME CountInv, TypeInv, SettleInv, HNext, Reloading, ~Reloading', calm
               PROVE  Addresses' = Range(reload.want)
    OBVIOUS
  <2>1. [Next]_vars /\ reload' # reload
    BY DEF HNext, Reloading
  <2>2. ReloadStep
    BY <2>1, PlanChanges DEF Reload
  <2>3. Grown
    BY <2>1, TypeStep DEF CountInv
  <2>4. Settling' /\ reload'.want = reload.want
    BY <2>2, <2>3, ReloadStepSettles DEF SettleInv
  <2>5. Missing' = {} /\ Superfluous' = {}
    BY DEF Reloading, Missing, Superfluous
  <2> QED BY <2>4, <2>5 DEF Settling
<1> QED BY <1>1, <1>2, <1>3, HistoryOfSpec, TypeInvHolds, PTL DEF HSpec, ReloadSettles
=============================================================================
