---------------------------- MODULE Agent_proofs ----------------------------
(***************************************************************************)
(* Theorems about modules Agent and AgentContents, for every set of        *)
(* callers, pushed configurations and verifier.                            *)
(***************************************************************************)
EXTENDS AgentContents, TLAPS

USE VersionAssumption, AgentAssumption, NoneIsNoOutcome

-----------------------------------------------------------------------------
(* Typing, with what each program point of apply_config knows.             *)

\* Between the version gate and the decision.
Accepting == {"apply", "load_verifier", "begin_verify", "verify", "store", "rollback"}

CallOK ==
  \A a \in Caller :
    /\ call[a].pc # "idle" => call[a].new \in Pushes /\ started
    /\ call[a].pc \in Accepting => call[a].new.version > call[a].snap

TypeInv == TypeOK /\ CallOK

LEMMA EmptyConfigType == EmptyConfig(Self, Home, Hostname, 0) \in Config
BY DEF EmptyConfig, Config, Version

LEMMA IdleCallType == IdleCall \in Call /\ IdleCall.pc = "idle"
BY DEF IdleCall, Call, Version

LEMMA ConfigFields ==
  ASSUME NEW c \in Config
  PROVE  c.version \in Version /\ c.version \in Nat
BY DEF Config, Version

LEMMA OutcomeType ==
  ASSUME NEW n \in Version, NEW v \in BOOLEAN, NEW s \in Version
  PROVE  [new |-> n, verified |-> v, active |-> s] \in Outcome
BY DEF Outcome

\* What an apply answers, by how it ended.
LEMMA Answers ==
  ASSUME NEW a \in Caller, call[a].new.version \in Version, call[a].snap \in Version,
         Refuse(a) \/ Rollback(a) \/ Commit(a)
  PROVE  /\ reply' \in Outcome
         /\ reply'.new = call[a].new.version
         /\ reply'.verified => call[a].pc = "commit"
         /\ call[a].pc = "commit" => reply'.verified
         /\ reply'.active = IF call[a].pc = "commit" THEN call[a].new.version
                                                    ELSE call[a].snap
<1>1. CASE Commit(a)
  BY <1>1, OutcomeType DEF Commit, Return
<1>2. CASE Refuse(a) \/ Rollback(a)
  <2>1. /\ reply' = [new |-> call[a].new.version, verified |-> FALSE, active |-> call[a].snap]
        /\ call[a].pc # "commit"
    BY <1>2 DEF Refuse, Rollback, Return
  <2>2. reply' \in Outcome
    BY <2>1, OutcomeType
  <2>3. reply'.verified = FALSE
    BY <2>1
  <2> QED BY <2>1, <2>2, <2>3
<1> QED BY <1>1, <1>2

\* A step of one caller leaves the other calls alone.
LEMMA CallUpdate ==
  ASSUME TypeOK, CallOK, NEW a \in Caller, NEW k \in Call, call' = [call EXCEPT ![a] = k],
         UNCHANGED started,
         k.pc # "idle" => k.new \in Pushes /\ started,
         k.pc \in Accepting => k.new.version > k.snap
  PROVE  /\ call' \in [Caller -> Call] /\ CallOK'
         /\ \A b \in Caller : call'[b] = IF b = a THEN k ELSE call[b]
<1>1. call \in [Caller -> Call]
  BY DEF TypeOK
<1>2. \A b \in Caller : call'[b] = IF b = a THEN k ELSE call[b]
  BY <1>1
<1> QED BY <1>1, <1>2 DEF CallOK

\* Where a step of a takes its call.
LEMMA StepCall ==
  ASSUME TypeInv, NEW a \in Caller, Step(a)
  PROVE  /\ call' \in [Caller -> Call] /\ CallOK' /\ UNCHANGED <<started, verify>>
         /\ \A b \in Caller \ {a} : call'[b] = call[b]
         /\ call'[a].pc # "idle" => call'[a].new = call[a].new
         /\ ~ Snapshot(a) /\ call'[a].pc # "idle" => call'[a].snap = call[a].snap
<1> USE DEF TypeInv
<1>1. call \in [Caller -> Call] /\ call[a] \in Call /\ UNCHANGED <<started, verify>>
  BY DEF TypeOK, Step, Snapshot, Refuse, Apply, LoadVerifier, BeginVerify, Verify, Store,
         Commit, Rollback
<1>2. call[a].pc # "idle" => call[a].new \in Pushes /\ started
  BY DEF CallOK
<1>3. ASSUME NEW k \in Call, call' = [call EXCEPT ![a] = k],
             k.pc # "idle" => k.new = call[a].new /\ call[a].pc # "idle"
                              /\ (~ Snapshot(a) => k.snap = call[a].snap),
             k.pc \in Accepting => k.new.version > k.snap
      PROVE  /\ call' \in [Caller -> Call] /\ CallOK'
             /\ \A b \in Caller \ {a} : call'[b] = call[b]
             /\ call'[a].pc # "idle" => call'[a].new = call[a].new
             /\ ~ Snapshot(a) /\ call'[a].pc # "idle" => call'[a].snap = call[a].snap
  <2>1. /\ call' \in [Caller -> Call] /\ CallOK'
        /\ \A b \in Caller : call'[b] = IF b = a THEN k ELSE call[b]
    BY <1>1, <1>2, <1>3, CallUpdate
  <2> QED BY <1>3, <2>1
<1>4. CASE Snapshot(a)
  <2> DEFINE k == [call[a] EXCEPT !.snap = current.version,
                      !.pc = IF IsStrictlyNewerThan(call[a].new, current) THEN "apply" ELSE "refuse"]
  <2>1. current.version \in Version
    BY ConfigFields DEF TypeOK
  <2>2. /\ k \in Call /\ k.new = call[a].new /\ k.snap = current.version
        /\ k.pc = IF IsStrictlyNewerThan(call[a].new, current) THEN "apply" ELSE "refuse"
    BY <1>1, <2>1 DEF Call
  <2>3. call' = [call EXCEPT ![a] = k] /\ call[a].pc = "snapshot"
    BY <1>4 DEF Snapshot
  <2> HIDE DEF k
  <2>4. k.pc \in Accepting => k.new.version > k.snap
    BY <2>2 DEF Accepting, IsStrictlyNewerThan
  <2> QED BY <1>1, <1>3, <1>4, <2>2, <2>3, <2>4
<1>5. CASE Apply(a) \/ LoadVerifier(a) \/ BeginVerify(a) \/ Verify(a) \/ Store(a)
  <2>1. PICK pc \in Accepting \cup {"commit"} :
          Goto(a, pc) /\ call[a].pc \in Accepting
    BY <1>5 DEF Apply, LoadVerifier, BeginVerify, Verify, Store, Accepting
  <2> DEFINE k == [call[a] EXCEPT !.pc = pc]
  <2>2. k \in Call /\ k.new = call[a].new /\ k.snap = call[a].snap /\ k.pc = pc
    BY <1>1 DEF Call, Accepting
  <2>3. call' = [call EXCEPT ![a] = k]
    BY <2>1 DEF Goto
  <2> HIDE DEF k
  <2>4. call[a].new.version > call[a].snap /\ call[a].pc # "idle"
    BY <2>1 DEF CallOK, Accepting
  <2> QED BY <1>1, <1>3, <2>2, <2>3, <2>4
<1>6. CASE Refuse(a) \/ Commit(a) \/ Rollback(a)
  <2>1. call' = [call EXCEPT ![a] = IdleCall]
    BY <1>6 DEF Refuse, Commit, Rollback, Return
  <2>2. IdleCall.pc \notin Accepting
    BY IdleCallType DEF Accepting
  <2> QED BY <1>1, <1>3, <2>1, <2>2, IdleCallType
<1> QED BY <1>4, <1>5, <1>6 DEF Step

LEMMA StepType ==
  ASSUME TypeInv, NEW a \in Caller, Step(a)
  PROVE  TypeInv'
<1> USE DEF TypeInv
<1>1. call[a] \in Call /\ (call[a].pc # "idle" => call[a].new \in Config)
  BY DEF TypeOK, CallOK
<1>2. current' \in Config /\ applyState' \in ApplyState
  BY <1>1 DEF Step, Snapshot, Refuse, Apply, LoadVerifier, BeginVerify, Verify, Store,
         Commit, Rollback, TypeOK, ApplyState
<1>3. reply' \in Outcome \cup {None}
  <2>1. CASE Refuse(a) \/ Commit(a) \/ Rollback(a)
    <3>1. call[a].new.version \in Version /\ call[a].snap \in Version
      BY <1>1, <2>1, ConfigFields DEF Refuse, Commit, Rollback, Call
    <3> QED BY <2>1, <3>1, Answers
  <2>2. CASE ~ (Refuse(a) \/ Commit(a) \/ Rollback(a))
    BY <2>2 DEF Step, Snapshot, Apply, LoadVerifier, BeginVerify, Verify, Store, TypeOK
  <2> QED BY <2>1, <2>2
<1>4. /\ call' \in [Caller -> Call] /\ CallOK' /\ UNCHANGED <<started, verify>>
  BY StepCall
<1>5. \A b \in Caller : call'[b].pc # "idle" => call'[b].new \in Pushes /\ started'
  BY <1>4 DEF CallOK
<1> QED BY <1>2, <1>3, <1>4, <1>5 DEF TypeOK

LEMMA TypeInit == Init => TypeInv
BY EmptyConfigType, IdleCallType
   DEF Init, TypeInv, TypeOK, CallOK, ApplyState, Accepting

LEMMA BeginType ==
  ASSUME TypeInv, NEW a \in Caller, NEW c \in Pushes, Begin(a, c)
  PROVE  TypeInv'
<1> USE DEF TypeInv
<1> DEFINE k == [pc |-> "snapshot", new |-> c, snap |-> 0]
<1>1. k \in Call /\ k.new = c /\ k.pc = "snapshot"
  BY DEF Call, Version
<1>2. call' = [call EXCEPT ![a] = k] /\ started /\ UNCHANGED started
  BY DEF Begin
<1>3. k.pc \notin Accepting
  BY <1>1 DEF Accepting
<1> HIDE DEF k
<1>4. call' \in [Caller -> Call] /\ CallOK'
  BY <1>1, <1>2, <1>3, CallUpdate
<1> QED BY <1>4 DEF Begin, TypeOK, ApplyState

LEMMA TypeStep == TypeInv /\ [Next]_vars => TypeInv'
<1> SUFFICES ASSUME TypeInv, [Next]_vars PROVE TypeInv'
  OBVIOUS
<1>1. ASSUME NEW c \in Starts, Register(c)
      PROVE  TypeInv'
  BY <1>1 DEF TypeInv, Register, TypeOK, CallOK
<1>2. CASE SetVerify
  BY <1>2 DEF TypeInv, SetVerify, TypeOK, CallOK
<1>3. ASSUME NEW a \in Caller, Step(a) \/ \E c \in Pushes : Begin(a, c)
      PROVE  TypeInv'
  BY <1>3, StepType, BeginType
<1>4. CASE Crash
  BY <1>4, EmptyConfigType, IdleCallType
     DEF TypeInv, Crash, TypeOK, CallOK, ApplyState, Accepting
<1>5. CASE UNCHANGED vars
  BY <1>5 DEF vars, TypeInv, TypeOK, CallOK
<1> QED BY <1>1, <1>2, <1>3, <1>4, <1>5 DEF Next

\* The agent's state is always well typed; every apply in flight carries the
\* validated configuration it was called with.
THEOREM TypeCorrect == Spec => []TypeOK
<1>1. TypeInv => TypeOK
  BY DEF TypeInv
<1> QED BY <1>1, TypeInit, TypeStep, PTL DEF Spec

-----------------------------------------------------------------------------
(* Any number of callers.                                                  *)

\* With any number of concurrent callers, an apply that does not increase the
\* active version was overtaken by another commit after its snapshot.
THEOREM ApplyOnlyOvertaken == Spec => ApplyOvertaken
<1>1. TypeInv => \A a \in Caller : Store(a) =>
        \/ IsStrictlyNewerThan(call[a].new, current)
        \/ current.version # call[a].snap
  BY DEF TypeInv, CallOK, Store, IsStrictlyNewerThan, Accepting
<1> QED BY <1>1, TypeInit, TypeStep, PTL DEF Spec, ApplyOvertaken

-----------------------------------------------------------------------------
(* A single caller.                                                        *)

\* What the only call in flight knows about the active configuration.
SnapshotHolds ==
  /\ \A a \in Caller :
       /\ call[a].pc \in Accepting \cup {"refuse"} => call[a].snap = current.version
       /\ call[a].pc = "refuse" => ~ IsStrictlyNewerThan(call[a].new, current)
       /\ call[a].pc = "commit" => current = call[a].new
  /\ ~ started => current = EmptyConfig(Self, Home, Hostname, 0) /\ reply = None
                  /\ \A a \in Caller : call[a].pc = "idle"

LEMMA SnapshotInit == Init => SnapshotHolds
BY IdleCallType DEF Init, SnapshotHolds, Accepting

LEMMA SnapshotStep ==
  ASSUME \A a, b \in Caller : a = b
  PROVE  TypeInv /\ SnapshotHolds /\ [Next]_vars => SnapshotHolds'
<1> SUFFICES ASSUME TypeInv, SnapshotHolds, [Next]_vars PROVE SnapshotHolds'
  OBVIOUS
<1>1. ASSUME NEW c \in Starts, Register(c)
      PROVE  SnapshotHolds'
  BY <1>1 DEF Register, SnapshotHolds, Accepting
<1>2. CASE SetVerify
  BY <1>2 DEF SetVerify, SnapshotHolds
<1>3. ASSUME NEW a \in Caller, NEW c \in Pushes, Begin(a, c)
      PROVE  SnapshotHolds'
  <2>1. call' = [call EXCEPT ![a] = [pc |-> "snapshot", new |-> c, snap |-> 0]]
        /\ UNCHANGED <<started, current, reply>> /\ started
    BY <1>3 DEF Begin
  <2>2. call'[a].pc = "snapshot"
    BY <2>1 DEF TypeInv, TypeOK
  <2>3. \A b \in Caller : call'[b].pc = "snapshot"
    BY <2>2
  <2> QED BY <2>1, <2>3 DEF SnapshotHolds, Accepting
<1>4. ASSUME NEW a \in Caller, Step(a)
      PROVE  SnapshotHolds'
  <2>1. call \in [Caller -> Call] /\ call[a] \in Call /\ started /\ UNCHANGED started
    <3>1. call[a].pc # "idle"
      BY <1>4 DEF Step, Snapshot, Refuse, Apply, LoadVerifier, BeginVerify, Verify, Store,
         Commit, Rollback
    <3> QED BY <1>4, <3>1, StepCall DEF TypeInv, TypeOK, CallOK
  <2>2. /\ call'[a].pc \in Accepting \cup {"refuse"} => call'[a].snap = current'.version
        /\ call'[a].pc = "refuse" => ~ IsStrictlyNewerThan(call'[a].new, current')
        /\ call'[a].pc = "commit" => current' = call'[a].new
    <3>1. CASE Snapshot(a)
      <4>1. /\ call'[a].snap = current.version /\ call'[a].new = call[a].new
            /\ call'[a].pc = IF IsStrictlyNewerThan(call[a].new, current) THEN "apply" ELSE "refuse"
        BY <2>1, <3>1 DEF Snapshot, Call
      <4>2. UNCHANGED current
        BY <3>1 DEF Snapshot
      <4> QED BY <4>1, <4>2 DEF IsStrictlyNewerThan
    <3>2. CASE Apply(a) \/ LoadVerifier(a) \/ BeginVerify(a) \/ Verify(a)
      <4>1. PICK pc \in Accepting : Goto(a, pc) /\ call[a].pc \in Accepting
        BY <3>2 DEF Apply, LoadVerifier, BeginVerify, Verify, Accepting
      <4>2. call'[a].pc = pc /\ call'[a].snap = call[a].snap
        BY <2>1, <4>1 DEF Goto, Call
      <4>3. UNCHANGED current
        BY <3>2 DEF Apply, LoadVerifier, BeginVerify, Verify
      <4> QED BY <4>1, <4>2, <4>3 DEF SnapshotHolds, Accepting
    <3>3. CASE Store(a)
      BY <2>1, <3>3 DEF Store, Goto, Call, Accepting
    <3>4. CASE Refuse(a) \/ Commit(a) \/ Rollback(a)
      <4>1. call'[a] = IdleCall
        BY <2>1, <3>4 DEF Refuse, Commit, Rollback, Return
      <4> QED BY <4>1, IdleCallType DEF Accepting
    <3> QED BY <1>4, <3>1, <3>2, <3>3, <3>4 DEF Step
  <2> QED BY <2>1, <2>2 DEF SnapshotHolds
<1>5. CASE Crash
  BY <1>5, IdleCallType DEF Crash, SnapshotHolds, Accepting
<1>6. CASE UNCHANGED vars
  BY <1>6 DEF vars, SnapshotHolds
<1> QED BY <1>1, <1>2, <1>3, <1>4, <1>5, <1>6 DEF Next

\* A step of the only caller is a step of ConfigReplica, or none.
LEMMA ReplicaStep ==
  ASSUME \A a, b \in Caller : a = b, TypeInv, SnapshotHolds, [Next]_vars
  PROVE  [Replica!Next]_<<current, reply>>
<1>1. ASSUME NEW c \in Starts, Register(c)
      PROVE  Replica!Next
  <2>1. Replica!Pull(c) /\ UNCHANGED reply /\ c \in Config
    BY <1>1 DEF Register, SnapshotHolds, Replica!Pull, Replica!Placeholder,
         EmptyConfig, Replica!EmptyConfig
  <2> QED BY <2>1 DEF Replica!Next, Config, Replica!Config, Version, Replica!Version
<1>2. ASSUME NEW a \in Caller, Refuse(a) \/ Rollback(a) \/ Commit(a)
      PROVE  Replica!Next
  <2>1. /\ call[a].new.version \in Version /\ call[a].snap \in Version
        /\ current.version = IF call[a].pc = "commit" THEN call[a].new.version ELSE call[a].snap
    <3>1. call[a].new \in Config /\ call[a].snap \in Version
      BY <1>2 DEF Refuse, Rollback, Commit, TypeInv, TypeOK, CallOK, Call
    <3> QED BY <1>2, <3>1, ConfigFields DEF Refuse, Rollback, Commit, SnapshotHolds, Accepting
  <2>2. PICK o \in Outcome :
          /\ o.active = current.version /\ reply' = o
          /\ o.verified => o.new = current.version
    BY <1>2, <2>1, Answers
  <2>3. Replica!Answer(o) /\ o \in Replica!Outcome
    BY <2>2 DEF Replica!Answer, Replica!Outcome, Outcome, Replica!Version, Version
  <2>4. UNCHANGED current
    BY <1>2 DEF Refuse, Rollback, Commit
  <2> QED BY <2>3, <2>4 DEF Replica!Next
<1>3. ASSUME NEW a \in Caller, Store(a)
      PROVE  Replica!Next
  <2>1. call[a].new \in Pushes /\ call[a].new.version > call[a].snap
        /\ call[a].snap = current.version
    BY <1>3 DEF Store, TypeInv, CallOK, SnapshotHolds, Accepting
  <2>2. call[a].new \in Config /\ call[a].new.valid
    BY <2>1
  <2>3. Replica!Commit(call[a].new) /\ UNCHANGED reply
    BY <1>3, <2>1, <2>2 DEF Store, Replica!Commit, Replica!IsStrictlyNewerThan
  <2>4. call[a].new \in Replica!Config
    BY <2>2 DEF Config, Replica!Config, Version, Replica!Version
  <2> QED BY <2>3, <2>4 DEF Replica!Next
<1>4. ASSUME NEW a \in Caller,
             \/ Snapshot(a) \/ Apply(a) \/ LoadVerifier(a) \/ BeginVerify(a) \/ Verify(a)
             \/ \E c \in Pushes : Begin(a, c)
      PROVE  UNCHANGED <<current, reply>>
  BY <1>4 DEF Snapshot, Apply, LoadVerifier, BeginVerify, Verify, Begin
<1>5. CASE SetVerify \/ UNCHANGED vars
  BY <1>5 DEF SetVerify, vars
<1>6. CASE Crash
  BY <1>6 DEF Crash, Replica!Next, Replica!Restart, Replica!Placeholder, EmptyConfig,
       Replica!EmptyConfig
<1> QED BY <1>1, <1>2, <1>3, <1>4, <1>5, <1>6 DEF Next, Step

\* With one caller, every behaviour of the agent is one that ConfigReplica
\* allows: only validated, strictly newer configurations replace the active
\* one, and each answer names the version that is active.
THEOREM AgentImplementsReplica ==
  ASSUME \A a, b \in Caller : a = b
  PROVE  Spec => ImplementsReplica
<1>1. Init => Replica!Init
  BY DEF Init, Replica!Init, Replica!Placeholder, EmptyConfig, Replica!EmptyConfig
<1>2. TypeInv /\ SnapshotHolds /\ [Next]_vars => [Replica!Next]_<<current, reply>>
  BY ReplicaStep
<1>3. TypeInv /\ SnapshotHolds /\ [Next]_vars => SnapshotHolds'
  BY SnapshotStep
<1> QED BY <1>1, <1>2, <1>3, TypeInit, TypeStep, SnapshotInit, PTL
        DEF Spec, ImplementsReplica, Replica!Spec

\* What the answer of an apply says is what apply_state and the active
\* configuration show when it returns.
LEMMA AnswerTellsState ==
  ASSUME TypeInv, SnapshotHolds, NEW a \in Caller, Refuse(a) \/ Rollback(a) \/ Commit(a)
  PROVE  StateTellsOutcome'
<1>1. /\ call[a].new \in Config /\ call[a].snap \in Version
      /\ call[a].new.version \in Version /\ call[a].new.version \in Nat
      /\ current.version \in Nat /\ UNCHANGED current
  <2>1. call[a].new \in Config /\ call[a].snap \in Version
    BY DEF Refuse, Rollback, Commit, TypeInv, TypeOK, CallOK, Call
  <2>2. current \in Config /\ UNCHANGED current
    BY DEF TypeInv, TypeOK, Refuse, Rollback, Commit
  <2> QED BY <2>1, <2>2, ConfigFields
<1>2. /\ reply'.new = call[a].new.version
      /\ reply'.verified => call[a].pc = "commit"
      /\ call[a].pc = "commit" => reply'.verified
      /\ reply' \in Outcome /\ reply'.verified \in BOOLEAN
  <2>1. reply' \in Outcome
    BY <1>1, Answers
  <2> QED BY <1>1, <2>1, Answers DEF Outcome
<1>3. CASE Refuse(a)
  <2>1. applyState' = "idle" /\ call[a].pc = "refuse"
    BY <1>3 DEF Refuse
  <2>2. current'.version >= reply'.new
    BY <1>1, <1>2, <2>1 DEF SnapshotHolds, IsStrictlyNewerThan
  <2> QED BY <1>2, <2>1, <2>2 DEF StateTellsOutcome
<1>4. CASE Rollback(a)
  <2>1. applyState' = "rolled_back" /\ call[a].pc = "rollback"
    BY <1>4 DEF Rollback
  <2>2. current'.version < reply'.new
    BY <1>1, <1>2, <2>1 DEF SnapshotHolds, TypeInv, CallOK, Accepting
  <2> QED BY <1>2, <2>1, <2>2 DEF StateTellsOutcome
<1>5. CASE Commit(a)
  <2>1. applyState' = "committed" /\ call[a].pc = "commit"
    BY <1>5 DEF Commit
  <2>2. current'.version = reply'.new
    BY <1>1, <1>2, <2>1 DEF SnapshotHolds
  <2> QED BY <1>2, <2>1, <2>2 DEF StateTellsOutcome
<1> QED BY <1>3, <1>4, <1>5

LEMMA StateStep ==
  ASSUME \A a, b \in Caller : a = b
  PROVE  TypeInv /\ SnapshotHolds /\ StateTellsOutcome /\ [Next]_vars => StateTellsOutcome'
<1> SUFFICES ASSUME TypeInv, SnapshotHolds, StateTellsOutcome, [Next]_vars
             PROVE  StateTellsOutcome'
  OBVIOUS
<1>1. ASSUME NEW c \in Starts, Register(c)
      PROVE  StateTellsOutcome'
  BY <1>1 DEF Register, SnapshotHolds, StateTellsOutcome
<1>2. CASE SetVerify \/ UNCHANGED vars
  BY <1>2 DEF SetVerify, vars, StateTellsOutcome, InFlight
<1>3. ASSUME NEW a \in Caller, Refuse(a) \/ Rollback(a) \/ Commit(a)
      PROVE  StateTellsOutcome'
  BY <1>3, AnswerTellsState
<1>4. ASSUME NEW a \in Caller, NEW k, k.pc # "idle", call' = [call EXCEPT ![a] = k]
      PROVE  StateTellsOutcome'
  <2>1. call'[a] = k
    BY <1>4 DEF TypeInv, TypeOK
  <2> QED BY <1>4, <2>1 DEF StateTellsOutcome, InFlight
<1>5. ASSUME NEW a \in Caller, NEW c \in Pushes, Begin(a, c)
      PROVE  StateTellsOutcome'
  <2> DEFINE k == [pc |-> "snapshot", new |-> c, snap |-> 0]
  <2>1. k.pc # "idle" /\ call' = [call EXCEPT ![a] = k]
    BY <1>5 DEF Begin
  <2> QED BY <1>4, <2>1
<1>6. ASSUME NEW a \in Caller,
             Snapshot(a) \/ Apply(a) \/ LoadVerifier(a) \/ BeginVerify(a) \/ Verify(a) \/ Store(a)
      PROVE  StateTellsOutcome'
  <2>1. call \in [Caller -> Call] /\ call[a] \in Call
    BY DEF TypeInv, TypeOK
  <2>2. call'[a].pc # "idle"
    BY <1>6, <2>1 DEF Snapshot, Apply, LoadVerifier, BeginVerify, Verify, Store, Goto, Call
  <2> QED BY <2>2 DEF StateTellsOutcome, InFlight
<1>7. CASE Crash
  BY <1>7 DEF Crash, StateTellsOutcome
<1> QED BY <1>1, <1>2, <1>3, <1>5, <1>6, <1>7 DEF Next, Step

\* With one caller, apply_state tells between applies how the last one ended,
\* and which of the two configurations is active.
THEOREM StateIsTruthful ==
  ASSUME \A a, b \in Caller : a = b
  PROVE  Spec => []StateTellsOutcome
<1>1. Init => StateTellsOutcome
  BY DEF Init, StateTellsOutcome
<1>2. TypeInv /\ SnapshotHolds /\ [Next]_vars => SnapshotHolds'
  BY SnapshotStep
<1>3. TypeInv /\ SnapshotHolds /\ StateTellsOutcome /\ [Next]_vars => StateTellsOutcome'
  BY StateStep
<1> QED BY <1>1, <1>2, <1>3, TypeInit, TypeStep, SnapshotInit, PTL DEF Spec

-----------------------------------------------------------------------------
(* What is committed.                                                      *)

\* A configuration that apply_state calls committed was pushed, so it passed
\* DeviceConfig::validate.
CommittedIsValid == applyState = "committed" => current \in Pushes /\ current.valid

\* While a call is in flight the state tells of no earlier one; the call about
\* to commit has stored its configuration.
CommitInv ==
  /\ ~ started => applyState = "idle"
  /\ \A a \in Caller : call[a].pc # "idle" => applyState # "committed"
  /\ \A a \in Caller : call[a].pc = "commit" => current = call[a].new
  /\ applyState = "committed" => current \in Pushes

LEMMA CommitStep ==
  ASSUME \A a, b \in Caller : a = b, TypeInv, CommitInv, [Next]_vars
  PROVE  CommitInv'
<1>1. ASSUME NEW c \in Starts, Register(c) PROVE CommitInv'
  <2>1. \A a \in Caller : call[a].pc = "idle" BY <1>1 DEF Register, TypeInv, CallOK
  <2>2. QED BY <1>1, <2>1 DEF Register, CommitInv
<1>2. CASE SetVerify \/ UNCHANGED vars BY <1>2 DEF SetVerify, vars, CommitInv
<1>3. ASSUME NEW a \in Caller, NEW c \in Pushes, Begin(a, c) PROVE CommitInv'
  <2>1. call'[a].pc = "snapshot" /\ started' /\ applyState' = "validating"
    BY <1>3 DEF Begin, TypeInv, TypeOK
  <2>2. QED BY <2>1 DEF CommitInv
<1>4. ASSUME NEW a \in Caller, Step(a) PROVE CommitInv'
  <2>1. /\ call[a] \in Call /\ call[a].pc # "idle" /\ call[a].new \in Pushes /\ started
        /\ call \in [Caller -> Call]
    BY <1>4 DEF TypeInv, TypeOK, CallOK, Step, Snapshot, Refuse, Apply, LoadVerifier,
                BeginVerify, Verify, Store, Commit, Rollback
  <2>2. started' BY <1>4, <2>1, StepCall
  <2>3. CASE Snapshot(a) \/ LoadVerifier(a) \/ Verify(a)
    <3>1. applyState' = applyState /\ applyState # "committed"
      BY <2>1, <2>3 DEF CommitInv, Snapshot, LoadVerifier, Verify
    <3>2. CASE Snapshot(a) BY <2>1, <2>2, <3>1, <3>2 DEF CommitInv, Snapshot, Call
    <3>3. CASE LoadVerifier(a) BY <2>1, <2>2, <3>1, <3>3 DEF CommitInv, LoadVerifier, Goto, Call
    <3>4. CASE Verify(a) BY <2>1, <2>2, <3>1, <3>4 DEF CommitInv, Verify, Goto, Call
    <3>5. QED BY <2>3, <3>2, <3>3, <3>4
  <2>4. CASE Apply(a) \/ BeginVerify(a)
    <3>1. CASE Apply(a) BY <2>1, <2>2, <3>1 DEF CommitInv, Apply, Goto, Call
    <3>2. CASE BeginVerify(a) BY <2>1, <2>2, <3>2 DEF CommitInv, BeginVerify, Goto, Call
    <3>3. QED BY <2>4, <3>1, <3>2
  <2>5. CASE Store(a)
    <3>1. /\ applyState' = applyState /\ applyState # "committed"
          /\ current' = call[a].new /\ call'[a].new = call[a].new
      BY <2>1, <2>5 DEF CommitInv, Store, Goto, Call
    <3>2. QED BY <2>2, <3>1 DEF CommitInv
  <2>6. CASE Refuse(a) \/ Rollback(a) \/ Commit(a)
    <3>1. call'[a].pc = "idle"
      BY <2>1, <2>6, IdleCallType DEF Refuse, Rollback, Commit, Return
    <3>2. applyState' # "committed" \/ (call[a].pc = "commit" /\ current' = current)
      BY <2>6 DEF Refuse, Rollback, Commit
    <3>3. applyState' = "committed" => current' \in Pushes BY <2>1, <3>2 DEF CommitInv
    <3>4. QED BY <2>2, <3>1, <3>3 DEF CommitInv
  <2>7. QED BY <1>4, <2>3, <2>4, <2>5, <2>6 DEF Step
<1>5. CASE Crash BY <1>5, IdleCallType DEF Crash, CommitInv
<1>6. QED BY <1>1, <1>2, <1>3, <1>4, <1>5 DEF Next

\* With one caller, and whatever the startup pull returned, apply_state says
\* "committed" of validated pushes only (agent.rs, apply_config takes a
\* ValidatedConfig).
THEOREM CommitsAreValidated ==
  ASSUME \A a, b \in Caller : a = b
  PROVE  Spec => []CommittedIsValid
<1>1. Init => CommitInv BY IdleCallType DEF Init, CommitInv
<1>2. CommitInv => CommittedIsValid BY DEF CommitInv, CommittedIsValid
<1>3. TypeInv /\ CommitInv /\ [Next]_vars => CommitInv' BY CommitStep
<1>4. QED BY <1>1, <1>2, <1>3, TypeInit, TypeStep, PTL DEF Spec
-----------------------------------------------------------------------------
(* What DeviceConfig::validate accepts.                                    *)

LEMMA NoneIsNoPart == None \notin Errors /\ None \notin Nat
BY ContentsAssumption

\* A key passes iff it has 44 characters of the alphabet that hold 32 bytes.
LEMMA KeyPasses ==
  ASSUME NEW k \in Check!Key
  PROVE  ~ Check!TunnelFails(k) <=> k = [chars |-> 44, foreign |-> FALSE, bytes |-> 32]
<1>1. ~ Check!TunnelFails(k) <=> k.chars = 44 /\ ~ k.foreign /\ k.bytes = 32
  <2>1. k.bytes \in Nat \cup {None} BY DEF Check!Key
  <2>2. CASE k.chars # 44
    BY <2>2, NoneIsNoPart DEF Check!TunnelFails, Check!KeyError, Check!KeyChars, Errors
  <2>3. CASE k.chars = 44 /\ k.foreign
    BY <2>3, NoneIsNoPart DEF Check!TunnelFails, Check!KeyError, Check!KeyChars, Errors
  <2>4. CASE k.chars = 44 /\ ~ k.foreign /\ k.bytes = None
    BY <2>4, NoneIsNoPart DEF Check!TunnelFails, Check!KeyError, Check!KeyChars, Errors
  <2>5. CASE k.chars = 44 /\ ~ k.foreign /\ k.bytes # None
    BY <2>5, NoneIsNoPart DEF Check!TunnelFails, Check!KeyError, Check!KeyChars, Check!KeyBytes, Errors
  <2>6. QED BY <2>2, <2>3, <2>4, <2>5
<1>2. k = [chars |-> k.chars, foreign |-> k.foreign, bytes |-> k.bytes] BY DEF Check!Key
<1>3. k.foreign \in BOOLEAN BY DEF Check!Key
<1>4. QED BY <1>1, <1>2, <1>3

LEMMA InterfacePasses ==
  ASSUME NEW x \in Check!Iface
  PROVE  ~ Check!InterfaceFails(x) <=>
           x.named /\ TRUE \notin {x.unspecified[a] : a \in DOMAIN x.unspecified}
<1>1. \A a \in DOMAIN x.unspecified : x.unspecified[a] \in BOOLEAN BY DEF Check!Iface
<1>2. QED BY <1>1 DEF Check!InterfaceFails

LEMMA RulePasses ==
  ASSUME NEW x \in Check!Rule
  PROVE  ~ Check!RuleFails(x) <=> x \in 1 .. Check!MaxPort \cup {None}
<1>1. Check!MaxPort \in Nat BY DEF Check!MaxPort
<1>2. CASE x = None BY <1>2 DEF Check!RuleFails
<1>3. CASE x \in 0 .. Check!MaxPort BY <1>1, <1>3, NoneIsNoPart DEF Check!RuleFails
<1>4. QED BY <1>2, <1>3 DEF Check!Rule

LEMMA ClassPasses == ASSUME NEW x \in Check!Class PROVE ~ Check!ClassFails(x) <=> x \in 0 .. 63
BY DEF Check!ClassFails, Check!Class

\* The kinds of parts of a configuration.
LEMMA PartsTyped ==
  ASSUME NEW c \in Check!Content
  PROVE  /\ \A i \in DOMAIN c.interfaces : c.interfaces[i] \in Check!Iface
         /\ \A i \in DOMAIN c.tunnels : c.tunnels[i] \in Check!Key
         /\ \A i \in DOMAIN c.ports : c.ports[i] \in Check!Rule
         /\ \A i \in DOMAIN c.dscps : c.dscps[i] \in Check!Class
BY DEF Check!Content, Check!Tunnel

\* validate() returns no error exactly when every interface has a name and real
\* addresses, every key holds 32 bytes, every port is in 1 .. MaxPort and every
\* DSCP value below 64, whichever part comes first (crates/sdwan-core/src/lib.rs,
\* DeviceConfig::validate).
THEOREM ValidIsWellFormed ==
  ASSUME NEW c \in Check!Content
  PROVE  Check!Verdict(c) = None <=> Check!WellFormed(c)
<1>1. Check!Verdict(c) = None <=>
        /\ \A i \in DOMAIN c.interfaces : ~ Check!InterfaceFails(c.interfaces[i])
        /\ \A i \in DOMAIN c.tunnels : ~ Check!TunnelFails(c.tunnels[i])
        /\ \A i \in DOMAIN c.ports : ~ Check!RuleFails(c.ports[i])
        /\ \A i \in DOMAIN c.dscps : ~ Check!ClassFails(c.dscps[i])
  BY NoneIsNoPart DEF Check!Verdict, Check!Some, Errors
<1>2. (\A i \in DOMAIN c.interfaces : ~ Check!InterfaceFails(c.interfaces[i])) <=>
        \A i \in DOMAIN c.interfaces :
          c.interfaces[i].named /\ TRUE \notin {c.interfaces[i].unspecified[a] :
                                                  a \in DOMAIN c.interfaces[i].unspecified}
  BY PartsTyped, InterfacePasses
<1>3. (\A i \in DOMAIN c.tunnels : ~ Check!TunnelFails(c.tunnels[i])) <=>
        \A i \in DOMAIN c.tunnels :
          c.tunnels[i] = [chars |-> 44, foreign |-> FALSE, bytes |-> 32]
  BY PartsTyped, KeyPasses
<1>4. (\A i \in DOMAIN c.ports : ~ Check!RuleFails(c.ports[i])) <=>
        \A i \in DOMAIN c.ports : c.ports[i] \in 1 .. Check!MaxPort \cup {None}
  BY PartsTyped, RulePasses
<1>5. (\A i \in DOMAIN c.dscps : ~ Check!ClassFails(c.dscps[i])) <=>
        \A i \in DOMAIN c.dscps : c.dscps[i] \in 0 .. 63
  BY PartsTyped, ClassPasses
<1>6. QED BY <1>1, <1>2, <1>3, <1>4, <1>5 DEF Check!WellFormed

\* With one caller, whatever was pulled, rolled back or pushed in between, a
\* configuration that apply_state calls committed is well formed part by part
\* (agent.rs, apply_config; ValidatedConfig in lib.rs).
THEOREM CommitsAreWellFormed ==
  ASSUME \A a, b \in Caller : a = b
  PROVE  Spec => []CommittedIsWellFormed
<1>1. CommittedIsValid => CommittedIsWellFormed
  BY ContentsAssumption, ValidIsWellFormed DEF CommittedIsValid, CommittedIsWellFormed
<1>2. Spec => []CommittedIsValid
  BY CommitsAreValidated
<1>3. QED BY <1>1, <1>2, PTL
=============================================================================
