--------------------------- MODULE Settings_proofs ---------------------------
(***************************************************************************)
(* Theorems about module Settings, for any clients, requests and number of *)
(* restarts.                                                               *)
(***************************************************************************)
EXTENDS Settings, WellFoundedInduction, TLAPS

-----------------------------------------------------------------------------
(* What is known of a request: the fields a handler changes or keeps, and  *)
(* the change it is about to save.                                         *)

JobOK(j) ==
  /\ "pc" \in DOMAIN j /\ "op" \in DOMAIN j /\ "body" \in DOMAIN j
  /\ "target" \in DOMAIN j /\ "read" \in DOMAIN j /\ "ok" \in DOMAIN j
  /\ j.pc = "save" => j.rev \in Nat

JobsOK == job = [r \in Request |-> job[r]] /\ \A r \in Request : JobOK(job[r])

LEMMA SetJob ==
  ASSUME JobsOK, NEW r \in Request, NEW j, JobOK(j), job' = [job EXCEPT ![r] = j]
  PROVE  JobsOK'
BY DEF JobsOK

LEMMA IdleOK == JobOK(Idle) /\ Idle.pc = "idle"
BY DEF JobOK, Idle

\* How an answered request looks, and one whose change is in memory.
Answered(r, ok) == [Becomes(r, "answered") EXCEPT !.ok = ok]
Saving(r)       == [Becomes(r, "save") EXCEPT !.rev = hist.rev + 1]

LEMMA AnsweredOK ==
  ASSUME NEW r, NEW ok PROVE JobOK(Answered(r, ok)) /\ Answered(r, ok).pc = "answered"
BY DEF Answered, Becomes, JobOK, Idle

LEMMA SavingOK ==
  ASSUME NEW r, hist.rev \in Nat
  PROVE  JobOK(Saving(r)) /\ Saving(r).pc = "save" /\ Saving(r).rev = hist.rev + 1
BY DEF Saving, Becomes, JobOK, Idle

\* Most steps change neither the stores' versions nor the pool, and no request
\* begins or ends a merge or comes to a save.
Aside == UNCHANGED <<hist, fileHist, acked, over, overFile, live, raced>>
Quiet(r) ==
  /\ Aside
  /\ \/ UNCHANGED job
     \/ \E j : /\ JobOK(j) /\ j.pc \notin {"save", "merge"} /\ job[r].pc # "merge"
               /\ job' = [job EXCEPT ![r] = j]

LEMMA AnswerQuiet ==
  ASSUME NEW r \in Request, NEW ok, Answer(r, ok), job[r].pc # "merge", Aside
  PROVE  Quiet(r)
<1>1. job' = [job EXCEPT ![r] = Answered(r, ok)] BY DEF Answer, Answered
<1>2. QED BY <1>1, AnsweredOK DEF Quiet

LEMMA SendQuiet ==
  ASSUME NEW c, NEW r \in Request, NEW op, NEW body, NEW target, Send(c, r, op, body, target)
  PROVE  Quiet(r)
<1> DEFINE j == [Idle EXCEPT !.pc = "sent", !.from = c, !.op = op, !.body = body, !.target = target,
                             !.read = cache[c].rules]
<1>1. JobOK(j) /\ j.pc = "sent" BY DEF JobOK, Idle
<1>2. job' = [job EXCEPT ![r] = j] /\ job[r].pc = "idle" BY DEF Send
<1>3. Aside BY DEF Send, Aside, storeVars, poolVars
<1> HIDE DEF j
<1>4. QED BY <1>1, <1>2, <1>3 DEF Quiet

\* What a client does by itself, and answers that arrive.
Aloof(r) == AnswerStep(r) \/ \E c \in Client : Click(c, r) \/ Mount(c, r)

LEMMA ReadQuiet ==
  ASSUME NEW r \in Request, NEW c, NEW op, Read(r, c, op), Aside, job[r].pc # "merge"
  PROVE  Quiet(r)
<1> DEFINE j == [Idle EXCEPT !.pc = "show", !.from = c, !.op = op, !.read = mem[ListOf(op)]]
<1>1. JobOK(j) /\ j.pc = "show" BY DEF JobOK, Idle
<1>2. job' = [job EXCEPT ![r] = j] BY DEF Read
<1> HIDE DEF j
<1>3. QED BY <1>1, <1>2 DEF Quiet

LEMMA ClientQuiet ==
  ASSUME JobsOK, NEW r \in Request, Aloof(r) PROVE Quiet(r)
<1>1. ASSUME NEW c \in Client, Click(c, r) PROVE Quiet(r)
  BY <1>1, SendQuiet
     DEF Click, NewLabel, RenameLabel, DeleteLabel, SaveConfig, CreatePolicy, DeletePolicy, ToggleInstall,
         RunScript, EditRule
<1>2. ASSUME NEW c \in Client, Mount(c, r) PROVE Quiet(r)
  BY <1>2, ReadQuiet DEF Mount, Aside, storeVars, poolVars
<1>3. CASE Refetch(r)
  BY <1>3, ReadQuiet DEF Refetch, Aside, storeVars, poolVars
<1>4. CASE Show(r) \/ Dismiss(r)
  <2>1. job' = [job EXCEPT ![r] = Idle] /\ job[r].pc \in {"answered", "show"}
    BY <1>4 DEF Show, Dismiss, Done
  <2>2. Aside BY <1>4 DEF Show, Dismiss, Aside, storeVars, poolVars
  <2>3. QED BY <2>1, <2>2, IdleOK DEF Quiet
<1>5. QED BY <1>1, <1>2, <1>3, <1>4 DEF Aloof, AnswerStep

LEMMA LocalQuiet ==
  ASSUME NEW c \in Client, Local(c) PROVE Aside /\ UNCHANGED job
BY DEF Local, ListRules, LoadActions, AddButton, RemoveButton, SaveActions, Aside, storeVars, poolVars

\* The parts of a step.
LEMMA Steps ==
  ASSUME [Next]_settingsVars
  PROVE  \/ \E r \in Request : HandlerStep(r) \/ Aloof(r)
         \/ \E c \in Client : Local(c)
         \/ Restart \/ UNCHANGED settingsVars
BY DEF Next, Aloof

\* A change of labels or policies: the memory is new, its request goes on to
\* save.
Edit(r) ==
  /\ hist'.rev = hist.rev + 1 /\ UNCHANGED <<fileHist, acked, over, overFile, live, raced>>
  /\ job' = [job EXCEPT ![r] = Saving(r)] /\ job[r].pc = "sent"

LEMMA EditOrQuiet ==
  ASSUME NEW r \in Request, PutLabels(r) \/ PutPolicies(r) \/ SetInstalled(r)
  PROVE  Edit(r) \/ Quiet(r)
<1>1. job[r].pc = "sent" /\ UNCHANGED <<fileHist, acked, over, overFile, live, raced>>
  BY DEF PutLabels, PutPolicies, SetInstalled, At, poolVars
<1>2. (\E s, d : Changed(r, s, d)) \/ Refuse(r)
  BY DEF PutLabels, PutPolicies, SetInstalled
<1>3. ASSUME NEW s, NEW d, Changed(r, s, d) PROVE Edit(r)
  BY <1>1, <1>3 DEF Changed, Edit, Saving
<1>4. ASSUME Refuse(r) PROVE Quiet(r)
  BY <1>1, <1>4, AnswerQuiet DEF Refuse, Aside
<1>5. QED BY <1>2, <1>3, <1>4

LEMMA OthersQuiet ==
  ASSUME JobsOK, NEW r \in Request,
         SaveFails(r) \/ CopyRules(r) \/ WriteRules(r)
  PROVE  Quiet(r)
<1>1. CASE SaveFails(r)
  BY <1>1, AnswerQuiet DEF SaveFails, Aside, storeVars, poolVars
<1>2. CASE CopyRules(r)
  <2> DEFINE j == [job[r] EXCEPT !.pc = "write_fw", !.read = fw]
  <2>1. Aside /\ job[r].pc = "sent" BY <1>2 DEF CopyRules, Aside, storeVars, poolVars
  <2>2. Answer(r, FALSE) \/ job' = [job EXCEPT ![r] = j] BY <1>2 DEF CopyRules, JobsOK
  <2>3. JobOK(j) /\ j.pc = "write_fw" BY DEF JobsOK, JobOK
  <2> HIDE DEF j
  <2>4. QED BY <2>1, <2>2, <2>3, AnswerQuiet DEF Quiet
<1>3. CASE WriteRules(r)
  BY <1>3, AnswerQuiet DEF WriteRules, Aside, storeVars, poolVars
<1>4. QED BY <1>1, <1>2, <1>3

LEMMA JobsKept ==
  ASSUME JobsOK, hist.rev \in Nat, [Next]_settingsVars PROVE JobsOK'
<1>1. ASSUME NEW r \in Request, Quiet(r) PROVE JobsOK' BY <1>1, SetJob DEF Quiet, JobsOK
<1>2. ASSUME NEW r \in Request, NEW ok, Answer(r, ok) PROVE JobsOK'
  BY <1>2, AnsweredOK, SetJob DEF Answer, Answered
<1>3. ASSUME NEW r \in Request, NEW pc, pc # "save", Proceed(r, pc) PROVE JobsOK'
  <2> DEFINE j == [job[r] EXCEPT !.pc = pc]
  <2>1. JobOK(j) BY <1>3 DEF JobsOK, JobOK
  <2>2. job' = [job EXCEPT ![r] = j] BY <1>3 DEF Proceed, JobsOK
  <2> HIDE DEF j
  <2>3. QED BY <2>1, <2>2, SetJob
<1>4. ASSUME NEW r \in Request, HandlerStep(r) PROVE JobsOK'
  <2>1. CASE PutLabels(r) \/ PutPolicies(r) \/ SetInstalled(r)
    BY <1>1, <2>1, EditOrQuiet, SavingOK, SetJob DEF Edit
  <2>2. CASE SaveFails(r) \/ CopyRules(r) \/ WriteRules(r) BY <1>1, <2>2, OthersQuiet
  <2>3. CASE Save(r) \/ SavePool(r) BY <1>2, <2>3 DEF Save, SavePool
  <2>4. CASE PutPool(r) \/ MergePool(r) BY <1>2, <1>3, <2>4 DEF PutPool, MergePool
  <2>5. QED BY <1>4, <2>1, <2>2, <2>3, <2>4 DEF HandlerStep
<1>5. CASE Restart
  <2> DEFINE j(r) == Becomes(r, "answered")
  <2>1. \A r \in Request : JobOK(j(r)) BY DEF Becomes, JobOK, Idle
  <2>2. job' = [r \in Request |-> IF job[r].pc \in {"idle", "answered", "show"} THEN job[r] ELSE j(r)]
    BY <1>5 DEF Restart
  <2> HIDE DEF j
  <2>3. QED BY <2>1, <2>2 DEF JobsOK
<1>6. CASE UNCHANGED settingsVars BY <1>6 DEF settingsVars, JobsOK
<1>7. ASSUME NEW c \in Client, Local(c) PROVE JobsOK'
  BY <1>7, LocalQuiet DEF JobsOK
<1>8. QED BY <1>1, <1>4, <1>5, <1>6, <1>7, ClientQuiet, Steps

-----------------------------------------------------------------------------
(* The file of labels and policies.                                        *)

\* The change a request is about to save is in memory; memory is not behind
\* the file, nor the file behind what was answered.
SavedInv ==
  /\ JobsOK
  /\ hist.rev \in Nat /\ fileHist.rev \in Nat /\ acked \in Nat
  /\ \A r \in Request : job[r].pc = "save" => job[r].rev <= hist.rev
  /\ AckedIsSaved

LEMMA SavedKept == ASSUME SavedInv, [Next]_settingsVars PROVE SavedInv'
<1>1. JobsOK' BY JobsKept DEF SavedInv
<1>2. ASSUME NEW r \in Request, Quiet(r) PROVE SavedInv'
  BY <1>1, <1>2 DEF Quiet, Aside, SavedInv, AckedIsSaved, JobsOK
<1>3. ASSUME NEW r \in Request, Edit(r) PROVE SavedInv'
  <2>1. Saving(r).pc = "save" /\ Saving(r).rev = hist.rev + 1 BY SavingOK DEF SavedInv
  <2>2. \A d \in Request : job'[d] = job[d] \/ job'[d].rev = hist.rev + 1
    BY <1>3, <2>1 DEF Edit, SavedInv, JobsOK
  <2>3. \A d \in Request : job'[d].pc = "save" => job'[d].rev <= hist.rev + 1
    BY <2>2 DEF SavedInv, JobsOK, JobOK
  <2>4. QED BY <1>1, <1>3, <2>3 DEF Edit, SavedInv, AckedIsSaved
<1>4. ASSUME NEW r \in Request, Save(r) PROVE SavedInv'
  <2>1. job[r].rev <= hist.rev /\ job[r].rev \in Nat BY <1>4 DEF Save, SavedInv, JobsOK, JobOK
  <2>2. job' = [job EXCEPT ![r] = Answered(r, TRUE)] BY <1>4 DEF Save, Answer, Answered
  <2>3. hist' = hist /\ fileHist' = hist /\ acked' = IF job[r].rev > acked THEN job[r].rev ELSE acked
    BY <1>4 DEF Save, Acknowledged
  <2>4. Answered(r, TRUE).pc = "answered" BY AnsweredOK
  <2>5. \A d \in Request : job'[d].pc = "save" => job'[d].rev <= hist.rev
    BY <2>2, <2>4 DEF SavedInv, JobsOK
  <2>6. QED BY <1>1, <2>1, <2>3, <2>5 DEF SavedInv, AckedIsSaved
<1>5. ASSUME NEW r \in Request, SavePool(r) \/ PutPool(r) \/ MergePool(r) PROVE SavedInv'
  <2>1. UNCHANGED <<hist, fileHist, acked>> BY <1>5 DEF SavePool, PutPool, MergePool, storeVars
  <2>2. \A d \in Request : job'[d] = job[d] \/ job'[d].pc # "save"
    <3>1. ASSUME NEW ok, Answer(r, ok) PROVE \A d \in Request : job'[d] = job[d] \/ job'[d].pc # "save"
      BY <3>1, AnsweredOK DEF Answer, Answered, SavedInv, JobsOK
    <3>2. ASSUME NEW pc, pc # "save", Proceed(r, pc)
          PROVE  \A d \in Request : job'[d] = job[d] \/ job'[d].pc # "save"
      BY <3>2 DEF Proceed, SavedInv, JobsOK, JobOK
    <3>3. QED BY <1>5, <3>1, <3>2 DEF SavePool, PutPool, MergePool
  <2>3. QED BY <1>1, <2>1, <2>2 DEF SavedInv, AckedIsSaved
<1>6. CASE Restart
  <2>1. \A r \in Request : job'[r].pc # "save" BY <1>6 DEF Restart, Becomes, Idle
  <2>2. hist' = fileHist /\ fileHist' = fileHist /\ acked' = acked BY <1>6 DEF Restart
  <2>3. QED BY <1>1, <2>1, <2>2 DEF SavedInv, AckedIsSaved
<1>7. CASE UNCHANGED settingsVars
  BY <1>1, <1>7 DEF settingsVars, storeVars, SavedInv, AckedIsSaved
<1>8. ASSUME NEW r \in Request, HandlerStep(r) PROVE SavedInv'
  BY <1>2, <1>3, <1>4, <1>5, <1>8, EditOrQuiet, OthersQuiet DEF HandlerStep, SavedInv
<1>9. ASSUME NEW r \in Request, Aloof(r) PROVE SavedInv'
  BY <1>2, <1>9, ClientQuiet DEF SavedInv
<1>10. ASSUME NEW c \in Client, Local(c) PROVE SavedInv'
  BY <1>1, <1>10, LocalQuiet DEF Aside, SavedInv, AckedIsSaved
<1>11. QED BY <1>6, <1>7, <1>8, <1>9, <1>10, Steps

LEMMA InitSaved == Init => SavedInv
<1> SUFFICES ASSUME Init PROVE SavedInv OBVIOUS
<1>1. JobsOK /\ \A r \in Request : job[r].pc = "idle" BY IdleOK DEF Init, JobsOK
<1>2. QED BY <1>1 DEF Init, SavedInv, AckedIsSaved

\* A change of labels or policies that was answered with success is in the
\* file, in its own version or a later one, for any interleaving of handlers,
\* failed saves and restarts (server.rs, api_labels_put, save_path_policy).
THEOREM AnsweredIsOnDisk == Spec => []AckedIsSaved
<1>1. SavedInv => AckedIsSaved BY DEF SavedInv
<1>2. QED BY <1>1, InitSaved, SavedKept, PTL DEF Spec

-----------------------------------------------------------------------------
(* The pool's settings.                                                    *)

\* An override on top of another is one on top of the configuration.
LEMMA OverrideTwice ==
  ASSUME NEW base, NEW o, NEW p
  PROVE  Overridden(Overridden(base, o), p) = Overridden(base, Overridden(o, p))
BY DEF Overridden

Merging(r) == job[r].pc = "merge"

\* Unless two requests overlapped, at most one is between its two changes, and
\* the pool runs with what is stored, with that request's override on top.
PoolInv ==
  ~ raced =>
    /\ \A r, d \in Request : Merging(r) /\ Merging(d) => r = d
    /\ (\A r \in Request : ~ Merging(r)) => live = Overridden(Configured, over)
    /\ \A r \in Request : Merging(r) =>
         live = Overridden(Overridden(Configured, over), job[r].body)

LEMMA PoolKept == ASSUME SavedInv, PoolInv, [Next]_settingsVars PROVE PoolInv'
<1>1. ASSUME UNCHANGED <<over, live, raced>>,
             \A r \in Request : /\ Merging(r)' <=> Merging(r)
                                /\ Merging(r) => job'[r].body = job[r].body
      PROVE  PoolInv'
  <2> SUFFICES ASSUME ~ raced PROVE PoolInv' BY <1>1 DEF PoolInv
  <2>1. \A r, d \in Request : Merging(r)' /\ Merging(d)' => r = d
    BY <1>1 DEF PoolInv, Merging
  <2>2. (\A r \in Request : ~ Merging(r)') => live' = Overridden(Configured, over')
    BY <1>1 DEF PoolInv, Merging
  <2>3. ASSUME NEW r \in Request, Merging(r)'
        PROVE  live' = Overridden(Overridden(Configured, over'), job'[r].body)
    BY <1>1, <2>3 DEF PoolInv, Merging
  <2> QED BY <2>1, <2>2, <2>3 DEF PoolInv
<1>2. ASSUME NEW r \in Request, Quiet(r) PROVE PoolInv'
  BY <1>1, <1>2 DEF Quiet, Aside, Merging, SavedInv, JobsOK
<1>3. ASSUME NEW r \in Request, Edit(r) PROVE PoolInv'
  BY <1>1, <1>3, SavingOK DEF Edit, Merging, SavedInv, JobsOK
<1>4. ASSUME NEW r \in Request, Save(r) \/ SavePool(r) PROVE PoolInv'
  <2>1. UNCHANGED <<over, live, raced>> /\ ~ Merging(r) /\ Answer(r, TRUE)
    BY <1>4 DEF Save, SavePool, poolVars, Merging
  <2>2. job' = [job EXCEPT ![r] = Answered(r, TRUE)] BY <2>1 DEF Answer, Answered
  <2>3. QED BY <1>1, <2>1, <2>2, AnsweredOK DEF Merging, SavedInv, JobsOK
<1>5. ASSUME NEW r \in Request, PutPool(r) PROVE PoolInv'
  <2>1. CASE Misnamed(job[r].body)
    <3>1. UNCHANGED <<over, live, raced>> /\ ~ Merging(r) /\ Answer(r, FALSE)
      BY <1>5, <2>1 DEF PutPool, At, Merging
    <3>2. job' = [job EXCEPT ![r] = Answered(r, FALSE)] BY <3>1 DEF Answer, Answered
    <3>3. QED BY <1>1, <3>1, <3>2, AnsweredOK DEF Merging, SavedInv, JobsOK
  <2>2. CASE ~ Misnamed(job[r].body)
    <3> SUFFICES ASSUME ~ raced' PROVE PoolInv' BY DEF PoolInv
    <3>1. ~ raced /\ \A d \in Request : ~ Merging(d) BY <1>5, <2>2 DEF PutPool, Merging
    <3>2. live = Overridden(Configured, over) BY <3>1 DEF PoolInv
    <3>3. live' = Overridden(live, job[r].body) /\ over' = over BY <1>5, <2>2 DEF PutPool
    <3>4. \A d \in Request : /\ Merging(d)' <=> d = r
                             /\ job'[r].body = job[r].body
      BY <1>5, <2>2, <3>1 DEF PutPool, Proceed, Merging, SavedInv, JobsOK, JobOK
    <3>5. QED BY <3>2, <3>3, <3>4 DEF PoolInv
  <2>3. QED BY <2>1, <2>2
<1>6. ASSUME NEW r \in Request, MergePool(r) PROVE PoolInv'
  <2> SUFFICES ASSUME ~ raced' PROVE PoolInv' BY DEF PoolInv
  <2>1. Merging(r) /\ ~ raced BY <1>6 DEF MergePool, Merging
  <2>2. \A d \in Request : ~ Merging(d)'
    BY <1>6, <2>1 DEF MergePool, Proceed, Merging, PoolInv, SavedInv, JobsOK, JobOK
  <2>3. live = Overridden(Overridden(Configured, over), job[r].body) BY <2>1 DEF PoolInv
  <2>4. live' = live /\ over' = Overridden(over, job[r].body) BY <1>6 DEF MergePool
  <2>5. live' = Overridden(Configured, over') BY <2>3, <2>4, OverrideTwice
  <2>6. QED BY <2>2, <2>5 DEF PoolInv
<1>7. CASE Restart
  <2>1. \A r \in Request : ~ Merging(r)' BY <1>7 DEF Restart, Merging, Becomes, Idle
  <2>2. live' = Overridden(Configured, over') BY <1>7 DEF Restart
  <2>3. QED BY <2>1, <2>2 DEF PoolInv
<1>8. CASE UNCHANGED settingsVars
  BY <1>1, <1>8 DEF settingsVars, poolVars, Merging
<1>9. ASSUME NEW r \in Request, HandlerStep(r) PROVE PoolInv'
  BY <1>2, <1>3, <1>4, <1>5, <1>6, <1>9, EditOrQuiet, OthersQuiet DEF HandlerStep, SavedInv
<1>10. ASSUME NEW r \in Request, Aloof(r) PROVE PoolInv'
  BY <1>2, <1>10, ClientQuiet DEF SavedInv
<1>11. ASSUME NEW c \in Client, Local(c) PROVE PoolInv'
  BY <1>1, <1>11, LocalQuiet DEF Aside, Merging
<1>12. QED BY <1>7, <1>8, <1>9, <1>10, <1>11, Steps

\* Unless two requests for the pool overlapped, it runs with what is stored for
\* it over what is configured, for any requests, failures and restarts
\* (server.rs, api_pool_config_put; overrides applied at start).
THEOREM PoolRunsStored == Spec => []LiveIsStored
<1>1. Init => PoolInv BY IdleOK DEF Init, PoolInv, Merging
<1>2. PoolInv => LiveIsStored BY DEF PoolInv, LiveIsStored, Merging
<1>3. QED BY <1>1, <1>2, InitSaved, SavedKept, PoolKept, PTL DEF Spec

-----------------------------------------------------------------------------
(* Induction and recursion over numbers, with sets in the place of         *)
(* predicates.                                                             *)

LEMMA LeastOf ==
  ASSUME NEW T \in SUBSET Nat, T # {}
  PROVE  \E n \in T : \A m \in T : n <= m
<1> DEFINE R == {p \in Nat \X Nat : p[1] < p[2]}
<1>1. IsWellFoundedOn(R, Nat)
  BY NatLessThanWellFounded DEF OpToRel
<1> HIDE DEF R
<1>2. PICK n \in T : \A m \in T : ~ (<<m, n>> \in R)
  BY <1>1, WFMin
<1>3. ASSUME NEW m \in T PROVE n <= m
  <2>1. m \in Nat /\ n \in Nat /\ ~ (<<m, n>> \in R)
    BY <1>2
  <2>2. ~ (m < n)
    BY <2>1 DEF R
  <2> QED BY <2>1, <2>2
<1> QED BY <1>3

LEMMA FirstIsIn ==
  ASSUME NEW T \in SUBSET Nat, T # {}
  PROVE  FirstOf(T) \in T /\ \A m \in T : FirstOf(T) <= m
BY LeastOf DEF FirstOf

LEMMA Induction ==
  ASSUME NEW T, 0 \in T, \A n \in Nat : n \in T => n + 1 \in T
  PROVE  \A n \in Nat : n \in T
<1> SUFFICES ASSUME Nat \ T # {} PROVE FALSE
  OBVIOUS
<1>1. PICK n \in Nat \ T : \A m \in Nat \ T : n <= m
  BY LeastOf
<1>2. n # 0 /\ n - 1 \in Nat /\ n - 1 + 1 = n
  BY <1>1
<1>3. n - 1 \in T
  BY <1>1, <1>2
<1> QED BY <1>1, <1>2, <1>3

\* A function can be defined by its value at 0 and the step D.
Starts(g, z)   == g[0] = z
Follows(g, D, i) == g[i + 1] = D[<<i, g[i]>>]
Upto(n, S, z, D) ==
  {g \in [0 .. n -> S] : Starts(g, z) /\ \A i \in 0 .. n - 1 : Follows(g, D, i)}

Recurs(g, z, D) == Starts(g, z) /\ \A n \in Nat : Follows(g, D, n)

LEMMA RecursionExists ==
  ASSUME NEW S, NEW z \in S, NEW D \in [Nat \X S -> S]
  PROVE  \E g \in [Nat -> S] : Recurs(g, z, D)
<1> DEFINE T == {n \in Nat : Upto(n, S, z, D) # {}}
<1>1. \A n \in Nat : n \in T
  <2>1. 0 \in T
    <3>1. [i \in 0 .. 0 |-> z] \in Upto(0, S, z, D)
      BY DEF Upto, Starts
    <3> QED BY <3>1
  <2>2. ASSUME NEW n \in Nat, n \in T PROVE n + 1 \in T
    <3>1. PICK g \in Upto(n, S, z, D) : TRUE
      BY <2>2
    <3> DEFINE h == [i \in 0 .. n + 1 |-> IF i = n + 1 THEN D[<<n, g[n]>>] ELSE g[i]]
    <3>2. g \in [0 .. n -> S] /\ g[0] = z /\ \A i \in 0 .. n - 1 : g[i + 1] = D[<<i, g[i]>>]
      BY <3>1 DEF Upto, Starts, Follows
    <3>3. n \in 0 .. n /\ g[n] \in S /\ D[<<n, g[n]>>] \in S
      BY <3>2
    <3>4. h \in [0 .. n + 1 -> S]
      BY <3>2, <3>3
    <3>5. h[0] = z
      BY <3>2
    <3>6. ASSUME NEW i \in 0 .. (n + 1) - 1
          PROVE  h[i + 1] = D[<<i, h[i]>>]
      <4>1. CASE i = n
        <5>1. h[n + 1] = D[<<n, g[n]>>] /\ h[n] = g[n]
          BY <3>3
        <5> QED BY <4>1, <5>1
      <4>2. CASE i # n
        <5>1. i \in 0 .. n - 1 /\ i + 1 \in 0 .. n + 1 /\ i + 1 # n + 1 /\ i # n + 1 /\ i \in 0 .. n + 1
          BY <4>2
        <5>2. h[i + 1] = g[i + 1] /\ h[i] = g[i]
          BY <5>1
        <5> QED BY <3>2, <5>1, <5>2
      <4> QED BY <4>1, <4>2
    <3> HIDE DEF h
    <3>7. h \in Upto(n + 1, S, z, D)
      BY <3>4, <3>5, <3>6 DEF Upto, Starts, Follows
    <3> QED BY <3>7
  <2> HIDE DEF T
  <2> QED BY <2>1, <2>2, Induction
<1>2. ASSUME NEW m \in Nat, NEW n \in Nat, NEW g \in Upto(m, S, z, D), NEW h \in Upto(n, S, z, D)
      PROVE  \A i \in Nat : i <= m /\ i <= n => g[i] = h[i]
  <2> DEFINE U == {i \in Nat : i <= m /\ i <= n => g[i] = h[i]}
  <2>1. 0 \in U
    BY DEF Upto, Starts
  <2>2. ASSUME NEW i \in Nat, i \in U PROVE i + 1 \in U
    <3> SUFFICES ASSUME i + 1 <= m, i + 1 <= n PROVE g[i + 1] = h[i + 1]
      OBVIOUS
    <3>1. i \in 0 .. m - 1 /\ i \in 0 .. n - 1 /\ g[i] = h[i]
      BY <2>2
    <3> QED BY <3>1 DEF Upto, Follows
  <2> HIDE DEF U
  <2>3. \A i \in Nat : i \in U
    BY <2>1, <2>2, Induction
  <2> QED BY <2>3 DEF U
<1> DEFINE pick(n) == CHOOSE g : g \in Upto(n, S, z, D)
           G == [n \in Nat |-> pick(n)[n]]
<1>3. \A n \in Nat : pick(n) \in Upto(n, S, z, D)
  BY <1>1
<1> HIDE DEF T, pick
<1>4. G \in [Nat -> S]
  <2>1. ASSUME NEW n \in Nat PROVE pick(n)[n] \in S
    <3>1. pick(n) \in [0 .. n -> S] /\ n \in 0 .. n
      BY <1>3 DEF Upto
    <3> QED BY <3>1
  <2> QED BY <2>1
<1>5. G[0] = z
  BY <1>3 DEF Upto, Starts
<1>6. ASSUME NEW n \in Nat PROVE G[n + 1] = D[<<n, G[n]>>]
  <2>1. n + 1 \in Nat /\ n \in 0 .. (n + 1) - 1
    OBVIOUS
  <2>2. pick(n + 1)[n + 1] = D[<<n, pick(n + 1)[n]>>]
    BY <1>3, <2>1 DEF Upto, Follows
  <2>3. pick(n + 1)[n] = pick(n)[n]
    BY <1>2, <1>3, <2>1
  <2> QED BY <2>1, <2>2, <2>3
<1>7. Recurs(G, z, D) BY <1>5, <1>6 DEF Recurs, Starts, Follows
<1> QED BY <1>4, <1>7

-----------------------------------------------------------------------------
(* Lists, and the recursive functions of the models.                       *)

\* What a list holds after an entry is appended, replaced or removed.
LEMMA AppendElements ==
  ASSUME NEW X, NEW s \in Seq(X), NEW x \in X
  PROVE  /\ Append(s, x) \in Seq(X)
         /\ Elements(Append(s, x)) = Elements(s) \cup {x}
<1>1. Append(s, x) \in Seq(X) /\ Len(Append(s, x)) = Len(s) + 1
  OBVIOUS
<1>2. \A i \in 1 .. Len(s) : Append(s, x)[i] = s[i]
  OBVIOUS
<1>3. Append(s, x)[Len(s) + 1] = x
  OBVIOUS
<1>4. DOMAIN Append(s, x) = DOMAIN s \cup {Len(s) + 1} /\ DOMAIN s = 1 .. Len(s)
  OBVIOUS
<1> QED BY <1>1, <1>2, <1>3, <1>4 DEF Elements

LEMMA RemoveElements ==
  ASSUME NEW X, NEW s \in Seq(X), NEW i \in DOMAIN s
  PROVE  /\ RemoveAt(s, i) \in Seq(X)
         /\ \A x : x # s[i] => (x \in Elements(RemoveAt(s, i)) <=> x \in Elements(s))
<1> DEFINE r == RemoveAt(s, i)
           u == SubSeq(s, 1, i - 1)
           v == SubSeq(s, i + 1, Len(s))
<1>0. i \in 1 .. Len(s) /\ Len(s) \in Nat
  OBVIOUS
<1>1. u \in Seq(X) /\ Len(u) = i - 1 /\ \A j \in 1 .. i - 1 : u[j] = s[j]
  BY <1>0
<1>2. v \in Seq(X) /\ Len(v) = Len(s) - i /\ \A j \in 1 .. Len(s) - i : v[j] = s[i + j]
  <2>1. i + 1 \in 1 .. Len(s) + 1 BY <1>0
  <2> QED BY <1>0, <2>1
<1> HIDE DEF u, v
<1>3. r = u \o v
  BY DEF RemoveAt, u, v
<1>4. r \in Seq(X) /\ Len(r) = Len(s) - 1
  BY <1>0, <1>1, <1>2, <1>3
<1>5. \A j \in 1 .. Len(s) - 1 : r[j] = IF j < i THEN s[j] ELSE s[j + 1]
  BY <1>0, <1>1, <1>2, <1>3
<1> HIDE DEF r
<1>d. DOMAIN r = 1 .. Len(s) - 1 /\ DOMAIN s = 1 .. Len(s)
  BY <1>0, <1>4
<1>6. ASSUME NEW j \in DOMAIN r PROVE r[j] \in Elements(s)
  <2>1. j \in DOMAIN s /\ j + 1 \in DOMAIN s BY <1>0, <1>d
  <2>2. r[j] = s[j] \/ r[j] = s[j + 1] BY <1>5, <1>d
  <2> QED BY <2>1, <2>2 DEF Elements
<1>7. \A j \in DOMAIN s : j # i => s[j] \in Elements(r)
  <2> SUFFICES ASSUME NEW j \in DOMAIN s, j # i PROVE s[j] \in Elements(r)
    OBVIOUS
  <2>1. CASE j < i
    <3>1. j \in 1 .. Len(s) - 1 /\ j \in DOMAIN r /\ r[j] = s[j] BY <1>0, <1>d, <1>5, <2>1
    <3> QED BY <3>1 DEF Elements
  <2>2. CASE ~ (j < i)
    <3>1. j - 1 \in 1 .. Len(s) - 1 /\ j - 1 \in DOMAIN r /\ ~ (j - 1 < i) /\ j - 1 + 1 = j
      BY <1>0, <1>d, <2>2
    <3>2. r[j - 1] = s[j] BY <1>5, <3>1
    <3> QED BY <3>1, <3>2 DEF Elements
  <2> QED BY <2>1, <2>2
<1>8. \A x : x # s[i] => (x \in Elements(r) <=> x \in Elements(s))
  BY <1>6, <1>7 DEF Elements
<1> QED BY <1>4, <1>8 DEF r

LEMMA ReplaceElements ==
  ASSUME NEW X, NEW s \in Seq(X), NEW i \in DOMAIN s, NEW x \in X
  PROVE  /\ [s EXCEPT ![i] = x] \in Seq(X)
         /\ \A y : y # s[i] /\ y # x =>
              (y \in Elements([s EXCEPT ![i] = x]) <=> y \in Elements(s))
<1> DEFINE r == [s EXCEPT ![i] = x]
<1>1. r \in Seq(X) OBVIOUS
<1>2. DOMAIN r = DOMAIN s /\ \A j \in DOMAIN s : r[j] = IF j = i THEN x ELSE s[j] OBVIOUS
<1> HIDE DEF r
<1>3. \A y : y # s[i] /\ y # x => (y \in Elements(r) <=> y \in Elements(s))
  BY <1>2 DEF Elements
<1> QED BY <1>1, <1>3 DEF r

\* Powers of two are what their equations say.
LEMMA Pow2Values ==
  /\ Pow2 \in [Nat -> Nat \ {0}]
  /\ Pow2[0] = 1
  /\ \A n \in Nat : Pow2[n + 1] = 2 * Pow2[n]
<1> DEFINE S == Nat \ {0}
           D == [x \in Nat \X S |-> 2 * x[2]]
<1>1. D \in [Nat \X S -> S] /\ 1 \in S
  OBVIOUS
<1>2. \A n \in Nat, k \in S : D[<<n, k>>] = 2 * k
  OBVIOUS
<1> HIDE DEF D, S
<1>3. PICK g \in [Nat -> S] : Recurs(g, 1, D)
  BY <1>1, RecursionExists
<1>4. g[0] = 1 /\ \A n \in Nat : g[n + 1] = 2 * g[n]
  BY <1>2, <1>3 DEF Recurs, Starts, Follows
<1>5. ASSUME NEW n \in Nat PROVE g[n] = IF n = 0 THEN 1 ELSE 2 * g[n - 1]
  <2>1. CASE n = 0 BY <1>4, <2>1
  <2>2. CASE n # 0
    <3>1. n - 1 \in Nat /\ n - 1 + 1 = n BY <2>2
    <3>2. g[n - 1 + 1] = 2 * g[n - 1] BY <1>4, <3>1
    <3> QED BY <2>2, <3>1, <3>2
  <2> QED BY <2>1, <2>2
<1>6. g = [n \in Nat |-> IF n = 0 THEN 1 ELSE 2 * g[n - 1]]
  BY <1>3, <1>5
<1>7. Pow2 = [n \in Nat |-> IF n = 0 THEN 1 ELSE 2 * Pow2[n - 1]]
  BY <1>6 DEF Pow2
<1>8. \A n \in Nat : Pow2[n] = IF n = 0 THEN 1 ELSE 2 * Pow2[n - 1]
  BY <1>7
<1>9. Pow2[0] = 1 /\ \A n \in Nat : Pow2[n + 1] = 2 * Pow2[n]
  <2>1. \A n \in Nat : n + 1 \in Nat /\ n + 1 # 0 /\ n + 1 - 1 = n
    OBVIOUS
  <2> QED BY <1>8, <2>1
<1> DEFINE U == {n \in Nat : Pow2[n] \in Nat \ {0}}
<1>10. 0 \in U BY <1>9
<1>11. \A n \in Nat : n \in U => n + 1 \in U BY <1>9
<1> HIDE DEF U
<1>12. \A n \in Nat : n \in U BY <1>10, <1>11, Induction
<1>13. \A n \in Nat : Pow2[n] \in Nat \ {0} BY <1>12 DEF U
<1>14. Pow2 \in [Nat -> Nat \ {0}]
  BY <1>7, <1>13
<1> QED BY <1>9, <1>14

\* The policies of another name, and no others.
LEMMA WithoutKeeps ==
  ASSUME NEW X, NEW ps \in Seq(X), NEW n
  PROVE  /\ Without(ps, n) \in Seq(X)
         /\ Elements(Without(ps, n)) = {e \in Elements(ps) : e.name # n}
<1> DEFINE S == Seq(X)
           last == Len(ps)
           L == 0 .. last
           next(i, s) == IF i + 1 \in DOMAIN ps /\ ps[i + 1].name # n THEN Append(s, ps[i + 1]) ELSE s
           D == [x \in Nat \X S |-> next(x[1], x[2])]
<1>0. last \in Nat /\ DOMAIN ps = 1 .. last /\ \A i \in 1 .. last : ps[i] \in X
  OBVIOUS
<1>a. \A s \in S, x \in X : Append(s, x) \in S /\ Elements(Append(s, x)) = Elements(s) \cup {x}
  BY AppendElements
<1>b. <<>> \in S /\ Elements(<<>>) = {}
  BY DEF Elements
<1> HIDE DEF last
<1>1. D \in [Nat \X S -> S]
  BY <1>0, <1>a
<1>2. \A i \in Nat, s \in S : D[<<i, s>>] = next(i, s)
  OBVIOUS
<1> HIDE DEF D, S
<1>3. PICK g \in [Nat -> S] : Recurs(g, <<>>, D)
  BY <1>1, <1>b, RecursionExists
<1>4. g[0] = <<>> /\ \A i \in Nat : g[i + 1] = next(i, g[i])
  BY <1>2, <1>3 DEF Recurs, Starts, Follows
<1> DEFINE step(h, i) == IF i = 0 THEN <<>>
                         ELSE IF ps[i].name = n THEN h[i - 1] ELSE Append(h[i - 1], ps[i])
           h == [i \in L |-> g[i]]
           kept == CHOOSE k : k = [i \in L |-> step(k, i)]
<1>5. ASSUME NEW i \in L PROVE h[i] = step(h, i)
  <2>1. CASE i = 0 BY <1>4, <2>1
  <2>2. CASE i # 0
    <3>1. i - 1 \in L /\ i - 1 \in Nat /\ i - 1 + 1 = i /\ i \in DOMAIN ps BY <1>0, <2>2
    <3>2. g[i - 1 + 1] = next(i - 1, g[i - 1]) BY <1>4, <3>1
    <3>3. h[i] = g[i] /\ h[i - 1] = g[i - 1] BY <3>1
    <3> QED BY <2>2, <3>1, <3>2, <3>3
  <2> QED BY <2>1, <2>2
<1>6. h = [i \in L |-> step(h, i)]
  BY <1>5
<1> HIDE DEF h
<1>7. kept = [i \in L |-> step(kept, i)]
  <2> HIDE DEF L
  <2> QED BY <1>6
<1>8. Without(ps, n) = kept[last]
  BY DEF Without, last
<1> HIDE DEF kept
<1>9. \A i \in L : kept[i] = step(kept, i)
  BY <1>7
<1> DEFINE First(i) == {ps[j] : j \in 1 .. i}
           Good(s, i) == s \in S /\ Elements(s) = {e \in First(i) : e.name # n}
           T == {i \in Nat : i <= last => Good(kept[i], i)}
<1>10. 0 \in T
  <2>1. kept[0] = <<>> /\ First(0) = {} BY <1>0, <1>9
  <2> QED BY <2>1, <1>b
<1>11. ASSUME NEW i \in Nat, i \in T, i + 1 <= last PROVE Good(kept[i + 1], i + 1)
  <2>1. Good(kept[i], i)
    BY <1>0, <1>11
  <2>2. i + 1 \in L /\ i + 1 # 0 /\ i + 1 - 1 = i /\ i + 1 \in 1 .. last /\ ps[i + 1] \in X
    BY <1>0, <1>11
  <2>3. kept[i + 1] = IF ps[i + 1].name = n THEN kept[i] ELSE Append(kept[i], ps[i + 1])
    BY <1>9, <2>2
  <2>4. First(i + 1) = First(i) \cup {ps[i + 1]}
    BY <2>2
  <2> HIDE DEF First
  <2>5. CASE ps[i + 1].name = n BY <2>1, <2>3, <2>4, <2>5
  <2>6. CASE ps[i + 1].name # n
    <3>1. kept[i + 1] \in S /\ Elements(kept[i + 1]) = Elements(kept[i]) \cup {ps[i + 1]}
      BY <1>a, <2>1, <2>2, <2>3, <2>6
    <3> QED BY <2>1, <2>4, <2>6, <3>1
  <2> QED BY <2>5, <2>6
<1> HIDE DEF Good
<1>12. \A i \in Nat : i \in T => i + 1 \in T
  BY <1>11
<1> HIDE DEF T
<1>13. \A i \in Nat : i \in T BY <1>10, <1>12, Induction
<1>14. Good(kept[last], last) BY <1>0, <1>13 DEF T
<1>15. Elements(ps) = First(last)
  BY <1>0 DEF Elements
<1> QED BY <1>8, <1>14, <1>15 DEF Good, S

-----------------------------------------------------------------------------
(* A masked comparison of addresses is one bit by bit.                     *)

LEMMA DivMod ==
  ASSUME NEW n \in Nat, NEW d \in Nat \ {0}
  PROVE  /\ n \div d \in Nat /\ n % d \in 0 .. d - 1
         /\ n = d * (n \div d) + (n % d)
  OBVIOUS

LEMMA DivUnique ==
  ASSUME NEW n \in Nat, NEW d \in Nat \ {0}, NEW a \in Nat, NEW s \in 0 .. d - 1,
         n = d * a + s
  PROVE  n \div d = a
<1> DEFINE q == n \div d
           r == n % d
<1>1. q \in Nat /\ r \in 0 .. d - 1 /\ d * a + s = d * q + r
  BY DivMod
<1> HIDE DEF q, r
<1>2. \A x, y \in Nat : x < y => d * x + d <= d * y
  <2> SUFFICES ASSUME NEW x \in Nat, NEW y \in Nat, x < y PROVE d * x + d <= d * y
    OBVIOUS
  <2> DEFINE k == y - x - 1
  <2>1. k \in Nat /\ y = x + 1 + k OBVIOUS
  <2> HIDE DEF k
  <2>2. d * y = d * x + d + d * k /\ d * k \in Nat BY <2>1
  <2>3. d * x \in Nat OBVIOUS
  <2> QED BY <2>2, <2>3
<1>3. ~ (a < q) /\ ~ (q < a)
  <2>1. d * a \in Nat /\ d * q \in Nat BY <1>1
  <2>2. a < q => d * a + d <= d * q BY <1>1, <1>2
  <2>3. q < a => d * q + d <= d * a BY <1>1, <1>2
  <2> QED BY <1>1, <2>1, <2>2, <2>3
<1> QED BY <1>1, <1>3 DEF q

LEMMA DivTwice ==
  ASSUME NEW n \in Nat, NEW d \in Nat \ {0}
  PROVE  n \div (2 * d) = (n \div d) \div 2
<1> DEFINE q == n \div d
           r == n % d
           a == q \div 2
           b == q % 2
<1>1. q \in Nat /\ r \in 0 .. d - 1 /\ n = d * q + r
  BY DivMod
<1>2. a \in Nat /\ b \in 0 .. 1 /\ q = 2 * a + b
  BY <1>1
<1> HIDE DEF q, r, a, b
<1> DEFINE s == d * b + r
<1>3. d * b = IF b = 0 THEN 0 ELSE d
  BY <1>2
<1>4. s \in 0 .. 2 * d - 1
  BY <1>1, <1>2, <1>3
<1>5. n = (2 * d) * a + s
  BY <1>1, <1>2
<1> HIDE DEF s
<1>6. 2 * d \in Nat \ {0}
  OBVIOUS
<1>7. n \div (2 * d) = a
  BY <1>2, <1>4, <1>5, <1>6, DivUnique
<1> QED BY <1>7 DEF a, q

\* What is left of an address without its last j bits.
Top(n, j) == n \div Pow2[j]

LEMMA TopIsNat == ASSUME NEW n \in Nat, NEW j \in Nat PROVE Top(n, j) \in Nat
<1>1. Pow2[j] \in Nat \ {0} BY Pow2Values
<1> QED BY <1>1, DivMod DEF Top

LEMMA TopSplits ==
  ASSUME NEW n \in Nat, NEW j \in Nat
  PROVE  Bit(n, j) \in 0 .. 1 /\ Top(n, j) = 2 * Top(n, j + 1) + Bit(n, j)
<1>1. Pow2[j] \in Nat \ {0} /\ Pow2[j + 1] = 2 * Pow2[j]
  BY Pow2Values
<1>2. Top(n, j + 1) = Top(n, j) \div 2
  BY <1>1, DivTwice DEF Top
<1>3. Top(n, j) \in Nat
  BY TopIsNat
<1>4. Bit(n, j) = Top(n, j) % 2
  BY DEF Bit, Top
<1> HIDE DEF Top
<1>5. \A q \in Nat : q = 2 * (q \div 2) + (q % 2) /\ q % 2 \in 0 .. 1
  OBVIOUS
<1> QED BY <1>2, <1>3, <1>4, <1>5

LEMMA TopOfAll ==
  ASSUME NEW w \in Nat, NEW n \in 0 .. Pow2[w] - 1
  PROVE  Top(n, w) = 0
<1>1. Pow2[w] \in Nat \ {0} BY Pow2Values
<1>2. n \in Nat /\ 0 \in Nat /\ n = Pow2[w] * 0 + n BY <1>1
<1> QED BY <1>1, <1>2, DivUnique DEF Top

LEMMA MaskedIsTop ==
  ASSUME NEW m \in Nat, NEW n \in Nat, NEW bits \in Nat, NEW plen \in Nat, plen <= bits
  PROVE  Masked(m, bits, plen) = Masked(n, bits, plen) <=> Top(m, bits - plen) = Top(n, bits - plen)
<1> DEFINE d == Pow2[bits - plen]
<1>1. bits - plen \in Nat OBVIOUS
<1>2. d \in Nat \ {0} BY <1>1, Pow2Values
<1> HIDE DEF d
<1>3. \A x \in Nat : x \div d \in Nat /\ x - (x % d) = d * (x \div d)
  BY <1>2, DivMod
<1>4. \A x, y \in Nat : d * x = d * y => x = y
  BY <1>2
<1>5. m - (m % d) = n - (n % d) <=> m \div d = n \div d
  BY <1>3, <1>4
<1> QED BY <1>5 DEF Masked, Top, d

\* Two addresses agree without their last k bits exactly when they agree in
\* every higher bit.
LEMMA TopsAreBits ==
  ASSUME NEW w \in Nat, NEW m \in 0 .. Pow2[w] - 1, NEW n \in 0 .. Pow2[w] - 1,
         NEW k \in Nat, k <= w
  PROVE  Top(m, k) = Top(n, k) <=> \A j \in 0 .. w - 1 : j >= k => Bit(m, j) = Bit(n, j)
<1> DEFINE Same(i) == Top(m, i) = Top(n, i)
           SameBits(i) == \A j \in 0 .. w - 1 : j >= i => Bit(m, j) = Bit(n, j)
           T == {i \in Nat : i <= w => (Same(w - i) <=> SameBits(w - i))}
<1>0. m \in Nat /\ n \in Nat
  BY Pow2Values
<1>1. 0 \in T
  <2>1. Same(w) BY TopOfAll
  <2>2. w - 0 = w /\ SameBits(w) OBVIOUS
  <2> QED BY <2>1, <2>2
<1>2. ASSUME NEW i \in Nat, i \in T, i + 1 <= w PROVE Same(w - (i + 1)) <=> SameBits(w - (i + 1))
  <2> DEFINE j == w - (i + 1)
  <2>1. j \in Nat /\ j \in 0 .. w - 1 /\ w - i = j + 1 /\ i <= w
    BY <1>2
  <2>2. Same(j + 1) <=> SameBits(j + 1)
    BY <1>2, <2>1
  <2> HIDE DEF j
  <2>3. /\ Bit(m, j) \in 0 .. 1 /\ Top(m, j) = 2 * Top(m, j + 1) + Bit(m, j)
        /\ Bit(n, j) \in 0 .. 1 /\ Top(n, j) = 2 * Top(n, j + 1) + Bit(n, j)
        /\ Top(m, j + 1) \in Nat /\ Top(n, j + 1) \in Nat
    <3>1. j + 1 \in Nat BY <2>1
    <3>2. \A x, y \in Nat : Bit(x, y) \in 0 .. 1 /\ Top(x, y) = 2 * Top(x, y + 1) + Bit(x, y)
      BY TopSplits
    <3> QED BY <1>0, <2>1, <3>1, <3>2, TopIsNat
  <2>4. Same(j) <=> Same(j + 1) /\ Bit(m, j) = Bit(n, j)
    <3>1. \A a, b \in Nat : \A x, y \in 0 .. 1 : 2 * a + x = 2 * b + y <=> a = b /\ x = y
      OBVIOUS
    <3> QED BY <2>3, <3>1
  <2>5. SameBits(j) <=> SameBits(j + 1) /\ Bit(m, j) = Bit(n, j)
    BY <2>1
  <2>6. Same(j) <=> SameBits(j)
    BY <2>2, <2>4, <2>5
  <2> QED BY <2>6 DEF j
<1> HIDE DEF Same, SameBits
<1>3. \A i \in Nat : i \in T => i + 1 \in T
  BY <1>2
<1> HIDE DEF T
<1>4. \A i \in Nat : i \in T BY <1>1, <1>3, Induction
<1>5. w - k \in Nat /\ w - k <= w /\ w - (w - k) = k OBVIOUS
<1>6. Same(k) <=> SameBits(k) BY <1>4, <1>5 DEF T
<1> QED BY <1>6 DEF Same, SameBits

LEMMA ContainsIsInNetwork ==
  ASSUME NEW c, NEW ip, c # Bad => IsPrefix(c), IsAddress(ip)
  PROVE  CidrContains(c, ip) <=> InNetwork(c, ip)
<1> SUFFICES ASSUME c # Bad, c.family = ip.family, c.plen <= Width[c.family]
             PROVE  CidrContains(c, ip) <=> InNetwork(c, ip)
  BY DEF CidrContains, InNetwork
<1> DEFINE w == Width[c.family]
           k == w - c.plen
<1>1. /\ w \in Nat /\ c.net \in 0 .. Pow2[w] - 1 /\ ip.addr \in 0 .. Pow2[w] - 1
      /\ c.plen \in Nat
  BY WidthAssumption DEF IsPrefix, IsAddress
<1>2. k \in Nat /\ k <= w /\ c.net \in Nat /\ ip.addr \in Nat
  BY <1>1, Pow2Values
<1>3. Masked(c.net, w, c.plen) = Masked(ip.addr, w, c.plen) <=> Top(c.net, k) = Top(ip.addr, k)
  <2> DEFINE a == c.net
             b == ip.addr
             l == c.plen
  <2>1. l <= w /\ a \in Nat /\ b \in Nat /\ w \in Nat /\ l \in Nat BY <1>1, <1>2
  <2> HIDE DEF w, a, b, l
  <2>2. Masked(a, w, l) = Masked(b, w, l) <=> Top(a, w - l) = Top(b, w - l)
    BY <2>1, MaskedIsTop
  <2> QED BY <2>2 DEF a, b, l
<1>4. Top(c.net, k) = Top(ip.addr, k) <=>
        \A j \in 0 .. w - 1 : j >= k => Bit(c.net, j) = Bit(ip.addr, j)
  BY <1>1, <1>2, TopsAreBits
<1> QED BY <1>3, <1>4 DEF CidrContains, InNetwork

\* A policy gives a packet the action of its first rule that agrees with it.
LEMMA FirstMatchWins ==
  ASSUME NEW p, NEW pkt, IsPolicy(p), IsPacket(pkt)
  PROVE  TakesFirstMatch(p, pkt)
<1>1. ASSUME NEW i \in DOMAIN p.rules
      PROVE  Matches(p.rules[i].match, pkt) <=> Agrees(p.rules[i].match, pkt)
  <2> DEFINE m == p.rules[i].match
  <2>1. \A f \in {"src_prefix", "dst_prefix"} : m[f] # None /\ pkt[f] # None =>
          (CidrContains(m[f], pkt[f]) <=> InNetwork(m[f], pkt[f]))
    BY ContainsIsInNetwork DEF IsPolicy, IsPacket
  <2> HIDE DEF m
  <2>2. Matches(m, pkt) <=> Agrees(m, pkt)
    BY <2>1 DEF Matches, Agrees, Fields
  <2> QED BY <2>2 DEF m
<1>2. CASE Hits(p, pkt) = {}
  BY <1>1, <1>2 DEF TakesFirstMatch, Evaluate, Hits
<1>3. CASE Hits(p, pkt) # {}
  <2>1. DOMAIN p.rules \in SUBSET Nat
    <3>1. DOMAIN p.rules = 1 .. Len(p.rules) BY DEF IsPolicy
    <3> QED BY <3>1
  <2>2. Hits(p, pkt) \in SUBSET Nat
    BY <2>1 DEF Hits
  <2> DEFINE i == FirstOf(Hits(p, pkt))
  <2>4. i \in Hits(p, pkt) /\ \A j \in Hits(p, pkt) : i <= j
    BY <1>3, <2>2, FirstIsIn
  <2>5. Evaluate(p, pkt) = p.rules[i].labels
    BY <1>3 DEF Evaluate
  <2> HIDE DEF i
  <2>6. i \in DOMAIN p.rules /\ Agrees(p.rules[i].match, pkt)
    BY <1>1, <2>4 DEF Hits
  <2>7. ASSUME NEW j \in 1 .. i - 1, Agrees(p.rules[j].match, pkt) PROVE FALSE
    <3>1. DOMAIN p.rules = 1 .. Len(p.rules) /\ i \in Nat BY <2>1, <2>6 DEF IsPolicy
    <3>2. j \in DOMAIN p.rules
      <4>1. i \in 1 .. Len(p.rules) BY <2>6, <3>1
      <4>2. \A x \in 1 .. Len(p.rules) : x <= Len(p.rules) OBVIOUS
      <4> QED BY <4>1, <3>1, <2>7
    <3>3. j \in Hits(p, pkt) BY <1>1, <2>7, <3>2 DEF Hits
    <3> QED BY <2>4, <3>1, <3>3
  <2> QED BY <2>5, <2>6, <2>7 DEF TakesFirstMatch
<1> QED BY <1>2, <1>3

-----------------------------------------------------------------------------
(* What the lists hold, and the copies and requests made of them.          *)

\* A policy as it is stored: one that was entered, installed or not.
Stored  == {[p EXCEPT !.installed = b] : p \in Entered, b \in BOOLEAN}
AnyRule == Rule \cup Elements(ConfigRules)
             \cup {r.body.rule : r \in {x \in Script : x.op \in {"fw_add", "fw_update"}}}

StoreOK(st) == st \in [labels : Seq(Named), policies : Seq(Stored)]
CopyOK(t) ==
  /\ t = [labels |-> t.labels, policies |-> t.policies, rules |-> t.rules, buttons |-> t.buttons]
  /\ t.labels \in Seq(Named) /\ t.policies \in Seq(Stored) /\ t.rules \in Seq(AnyRule)

\* A request that names what it is about leaves the rest of the copy it is
\* made of.
SameLabels(ls, copy, target) ==
  \A e : e \notin target => (e \in Elements(ls) <=> e \in Elements(copy))
SamePolicies(ps, copy, target) ==
  \A e : e.name \notin target => (e \in Elements(ps) <=> e \in Elements(copy))
NamesAll(op, body, target, t) ==
  /\ op = "labels" /\ target # {} => SameLabels(body, t.labels, target)
  /\ op = "policies" /\ target # {} => SamePolicies(body, t.policies, target)

RequestOK(op, body) ==
  /\ op = "labels" => body \in Seq(Named)
  /\ op = "policies" => body \in Seq(Stored)
  /\ op = "install" => body.installed \in BOOLEAN
  /\ op \in {"fw_add", "fw_update"} => body.rule \in AnyRule
  /\ op \in {"fw_delete", "fw_update"} => body.index \in Nat \ {0}

\* A handler that copied the rules edits one of them.
WriteOK(j) ==
  /\ j.op \in {"fw_add", "fw_update", "fw_delete"}
  /\ j.read \in Seq(AnyRule)
  /\ j.op # "fw_add" => j.body.index <= Len(j.read)

\* A list that is on its way to a tab.
ShowOK(j) ==
  \/ j.op = "labels" /\ j.read \in Seq(Named)
  \/ j.op \in {"policies", "install"} /\ j.read \in Seq(Stored)

Open(j) == j.pc \in {"sent", "write_fw"}

JobTyped(j) ==
  /\ Open(j) => RequestOK(j.op, j.body)
  /\ j.pc = "write_fw" => WriteOK(j)
  /\ j.pc = "show" => ShowOK(j)

CopiesOK   == cache = [c \in Client |-> cache[c]] /\ \A c \in Client : CopyOK(cache[c])
StoresOK   == StoreOK(mem) /\ StoreOK(file) /\ fw \in Seq(AnyRule)
RequestsOK == \A r \in Request : JobTyped(job[r])

Typed == SavedInv /\ StoresOK /\ CopiesOK /\ RequestsOK

LEMMA EnteredIsStored ==
  /\ \A p \in Policy \cup Scripted("policies") : p \in Stored
  /\ \A p \in Stored : [p EXCEPT !.installed = FALSE] \in Entered
  /\ \A p \in Stored, b \in BOOLEAN :
       [p EXCEPT !.installed = b] \in Stored /\ Uses([p EXCEPT !.installed = b]) = Uses(p)
  /\ \A p \in Entered : IsPolicy(p)
<1> DEFINE As(p, b) == [p EXCEPT !.installed = b]
           E == Policy \cup Scripted("policies")
<1>1. \A p \in E : IsPolicy(p)
  BY RequestAssumption
<1>2. ASSUME NEW p, IsPolicy(p), NEW b \in BOOLEAN
      PROVE  /\ IsPolicy(As(p, b)) /\ As(p, b).name = p.name /\ As(p, b).installed = b
             /\ As(p, b).rules = p.rules /\ As(p, b).default = p.default
             /\ As(p, p.installed) = p
             /\ \A d \in BOOLEAN : As(As(p, b), d) = As(p, d)
  <2>1. p \in [name : {p.name}, rules : {p.rules}, default : {p.default}, installed : BOOLEAN]
    BY <1>2 DEF IsPolicy
  <2>2. /\ As(p, b).name = p.name /\ As(p, b).installed = b
        /\ As(p, b).rules = p.rules /\ As(p, b).default = p.default
        /\ As(p, b) \in [name : {p.name}, rules : {p.rules}, default : {p.default}, installed : BOOLEAN]
    BY <2>1
  <2>3. As(p, p.installed) = p
    BY <2>1
  <2>4. \A d \in BOOLEAN : As(As(p, b), d) = As(p, d)
    BY <2>1
  <2>5. IsPolicy(As(p, b))
    <3> HIDE DEF As
    <3> QED BY <1>2, <2>2 DEF IsPolicy
  <2> QED BY <2>2, <2>3, <2>4, <2>5
<1> HIDE DEF As
<1>3. /\ \A p \in E : As(p, FALSE) \in Entered
      /\ \A q \in Entered : \E p \in E : q = As(p, FALSE)
      /\ \A p \in Entered, b \in BOOLEAN : As(p, b) \in Stored
      /\ \A q \in Stored : \E p \in Entered, b \in BOOLEAN : q = As(p, b)
  <2>1. Entered = {As(p, FALSE) : p \in E}
    BY DEF Entered, As, E
  <2>2. Stored = {As(p, b) : p \in Entered, b \in BOOLEAN}
    BY DEF Stored, As
  <2> HIDE DEF E
  <2>3. /\ \A p \in E : As(p, FALSE) \in Entered
        /\ \A q \in Entered : \E p \in E : q = As(p, FALSE)
    BY <2>1
  <2>4. \A p \in Entered, b \in BOOLEAN : As(p, b) \in Stored
    BY <2>2
  <2>5. \A q \in Stored : \E p \in Entered, b \in BOOLEAN : q = As(p, b)
    BY <2>2
  <2> QED BY <2>3, <2>4, <2>5
<1> HIDE DEF E
<1>4. ASSUME NEW q \in Entered PROVE IsPolicy(q)
  <2>1. PICK p \in E : q = As(p, FALSE) BY <1>3
  <2> QED BY <1>1, <1>2, <2>1
<1>5. ASSUME NEW p \in E PROVE p \in Stored
  <2>1. As(p, FALSE) \in Entered /\ p.installed \in BOOLEAN BY <1>1, <1>3 DEF IsPolicy
  <2>2. As(As(p, FALSE), p.installed) = p BY <1>1, <1>2, <2>1
  <2> QED BY <1>3, <2>1, <2>2
<1>6. ASSUME NEW p \in Entered PROVE As(p, FALSE) = p
  <2>1. PICK q \in E : p = As(q, FALSE) BY <1>3
  <2> QED BY <1>1, <1>2, <2>1
<1>7. ASSUME NEW p \in Stored
      PROVE  /\ As(p, FALSE) \in Entered
             /\ \A b \in BOOLEAN : As(p, b) \in Stored /\ Uses(As(p, b)) = Uses(p)
  <2>1. PICK q \in Entered, d \in BOOLEAN : p = As(q, d) BY <1>3
  <2>2. IsPolicy(q) /\ IsPolicy(p) BY <1>2, <1>4, <2>1
  <2>3. \A b \in BOOLEAN : As(p, b) = As(q, b) BY <1>2, <2>1, <2>2
  <2>4. \A b \in BOOLEAN : Uses(As(p, b)) = Uses(p)
    BY <1>2, <2>2 DEF Uses
  <2> QED BY <1>3, <1>6, <2>3, <2>4
<1> QED BY <1>4, <1>5, <1>7 DEF As, E

\* What a script sends is a list of what scripts enter.
LEMMA ScriptsAreTyped ==
  ASSUME NEW r \in Script
  PROVE  RequestOK(r.op, r.body)
<1>1. ASSUME r.op \in {"labels", "policies"} PROVE r.body \in Seq(Scripted(r.op))
  <2>1. r.body \in Seq(Elements(r.body)) BY <1>1, RequestAssumption
  <2>2. Elements(r.body) \subseteq Scripted(r.op) BY DEF Scripted
  <2> QED BY <2>1, <2>2
<1>2. r.op = "labels" => r.body \in Seq(Named)
  <2>1. Scripted("labels") \subseteq Named BY DEF Named
  <2> QED BY <1>1, <2>1
<1>3. r.op = "policies" => r.body \in Seq(Stored)
  <2>1. Scripted("policies") \subseteq Stored BY EnteredIsStored
  <2> QED BY <1>1, <2>1
<1>4. r.op = "install" => r.body.installed \in BOOLEAN
  BY RequestAssumption
<1>5. r.op \in {"fw_add", "fw_update"} => r.body.rule \in AnyRule
  BY DEF AnyRule
<1>6. r.op \in {"fw_delete", "fw_update"} => r.body.index \in Nat \ {0}
  BY RequestAssumption
<1> QED BY <1>2, <1>3, <1>4, <1>5, <1>6 DEF RequestOK

\* What a click sends is made of its tab's copy and leaves in it what it does not
\* name.
LEMMA ClicksAreTyped ==
  ASSUME CopiesOK, NEW c \in Client, NEW r \in Request, Click(c, r)
  PROVE  \E op, body, target :
           /\ Send(c, r, op, body, target)
           /\ RequestOK(op, body) /\ NamesAll(op, body, target, cache[c])
<1> DEFINE t == cache[c]
           SentOK(op, body, target) == RequestOK(op, body) /\ NamesAll(op, body, target, t)
<1>0. t.labels \in Seq(Named) /\ t.policies \in Seq(Stored) /\ t.rules \in Seq(AnyRule)
  BY DEF CopiesOK, CopyOK
<1> HIDE DEF t
<1>1. ASSUME NEW l \in Label PROVE SentOK("labels", Append(t.labels, l), {l})
  <2>1. l \in Named BY DEF Named
  <2>2. /\ Append(t.labels, l) \in Seq(Named)
        /\ Elements(Append(t.labels, l)) = Elements(t.labels) \cup {l}
    BY <1>0, <2>1, AppendElements
  <2> QED BY <2>2 DEF RequestOK, NamesAll, SameLabels
<1>2. ASSUME NEW i \in DOMAIN t.labels, NEW l \in Label
      PROVE  SentOK("labels", [t.labels EXCEPT ![i] = l], {t.labels[i], l})
  <2>1. l \in Named BY DEF Named
  <2> DEFINE b == [t.labels EXCEPT ![i] = l]
  <2>2. /\ b \in Seq(Named)
        /\ \A y : y # t.labels[i] /\ y # l => (y \in Elements(b) <=> y \in Elements(t.labels))
    BY <1>0, <2>1, ReplaceElements
  <2> HIDE DEF b
  <2>3. SentOK("labels", b, {t.labels[i], l})
    BY <2>2 DEF RequestOK, NamesAll, SameLabels
  <2> QED BY <2>3 DEF b
<1>3. ASSUME NEW i \in DOMAIN t.labels
      PROVE  SentOK("labels", RemoveAt(t.labels, i), {t.labels[i]})
  <2>1. /\ RemoveAt(t.labels, i) \in Seq(Named)
        /\ \A x : x # t.labels[i] => (x \in Elements(RemoveAt(t.labels, i)) <=> x \in Elements(t.labels))
    BY <1>0, RemoveElements
  <2> QED BY <2>1 DEF RequestOK, NamesAll, SameLabels
<1>4. ASSUME NEW p \in Policy PROVE SentOK("policies", Append(t.policies, p), {p.name})
  <2>1. p \in Stored BY EnteredIsStored
  <2>2. /\ Append(t.policies, p) \in Seq(Stored)
        /\ Elements(Append(t.policies, p)) = Elements(t.policies) \cup {p}
    BY <1>0, <2>1, AppendElements
  <2> QED BY <2>2 DEF RequestOK, NamesAll, SamePolicies
<1>5. ASSUME NEW n PROVE SentOK("policies", Without(t.policies, n), {n})
  <2>1. /\ Without(t.policies, n) \in Seq(Stored)
        /\ Elements(Without(t.policies, n)) = {e \in Elements(t.policies) : e.name # n}
    BY <1>0, WithoutKeeps
  <2> QED BY <2>1 DEF RequestOK, NamesAll, SamePolicies
<1>6. ASSUME NEW n, NEW q PROVE SentOK("install", [name |-> n, installed |-> ~ q], {})
  BY DEF RequestOK, NamesAll
<1>7. ASSUME NEW o PROVE SentOK("pool", o, {})
  BY DEF RequestOK, NamesAll
<1>8. ASSUME NEW i \in DOMAIN t.rules
      PROVE  /\ SentOK("fw_delete", [index |-> i], {})
             /\ \A x \in Rule : SentOK("fw_update", [index |-> i, rule |-> x], {})
  <2>1. i \in Nat \ {0} BY <1>0
  <2>2. \A x \in Rule : x \in AnyRule BY DEF AnyRule
  <2> QED BY <2>1, <2>2 DEF RequestOK, NamesAll
<1>9. ASSUME NEW s \in Script PROVE SentOK(s.op, s.body, {})
  BY ScriptsAreTyped DEF NamesAll
<1> HIDE DEF SentOK
<1>a. \E op, body, target : Send(c, r, op, body, target) /\ SentOK(op, body, target)
  <2>1. CASE NewLabel(c, r) BY <1>1, <2>1 DEF NewLabel, t
  <2>2. CASE RenameLabel(c, r) BY <1>2, <2>2 DEF RenameLabel, t
  <2>3. CASE DeleteLabel(c, r) BY <1>3, <2>3 DEF DeleteLabel, t
  <2>4. CASE CreatePolicy(c, r) BY <1>4, <2>4 DEF CreatePolicy, t
  <2>5. CASE DeletePolicy(c, r) BY <1>5, <2>5 DEF DeletePolicy, t
  <2>6. CASE ToggleInstall(c, r) BY <1>6, <2>6 DEF ToggleInstall, t
  <2>7. CASE SaveConfig(c, r) BY <1>7, <2>7 DEF SaveConfig, t
  <2>8. CASE RunScript(c, r) BY <1>9, <2>8 DEF RunScript
  <2>9. CASE EditRule(c, r) BY <1>8, <2>9 DEF EditRule, t
  <2> QED BY <2>1, <2>2, <2>3, <2>4, <2>5, <2>6, <2>7, <2>8, <2>9 DEF Click
<1> QED BY <1>a DEF SentOK, t

\* A click, in the terms of the proofs below: a request whose fields are known.
Sent(c, r, j) ==
  /\ job[r].pc = "idle" /\ job' = [job EXCEPT ![r] = j] /\ JobOK(j) /\ j.pc = "sent"
  /\ RequestOK(j.op, j.body) /\ NamesAll(j.op, j.body, j.target, cache[c])
  /\ j.read = cache[c].rules
  /\ old' = IF ListOf(j.op) \in stale[c] THEN old \cup {r} ELSE old \ {r}
  /\ UNCHANGED <<storeVars, fw, buttons, cache, stale>>

LEMMA ClickSends ==
  ASSUME CopiesOK, NEW c \in Client, NEW r \in Request, Click(c, r)
  PROVE  \E j : Sent(c, r, j)
<1>1. PICK op, body, target :
        /\ Send(c, r, op, body, target)
        /\ RequestOK(op, body) /\ NamesAll(op, body, target, cache[c])
  BY ClicksAreTyped
<1> DEFINE j == [Idle EXCEPT !.pc = "sent", !.from = c, !.op = op, !.body = body, !.target = target,
                             !.read = cache[c].rules]
<1>2. /\ j.pc = "sent" /\ j.op = op /\ j.body = body /\ j.target = target
      /\ j.read = cache[c].rules /\ JobOK(j)
  BY DEF Idle, JobOK
<1>3. job' = [job EXCEPT ![r] = j] BY <1>1 DEF Send
<1> HIDE DEF j
<1>4. Sent(c, r, j) BY <1>1, <1>2, <1>3 DEF Sent, Send
<1> QED BY <1>4

\* A list that is read is on its way as it was read.
Asked(r, j) ==
  /\ job' = [job EXCEPT ![r] = j] /\ JobOK(j) /\ j.pc = "show" /\ ShowOK(j)
  /\ j.read = mem[ListOf(j.op)] /\ old' = old \ {r}
  /\ UNCHANGED <<storeVars, fw, buttons, cache, stale>>

LEMMA ReadAsks ==
  ASSUME StoresOK, NEW c, NEW r \in Request, NEW op \in {"labels", "policies", "install"},
         Read(r, c, op), UNCHANGED <<storeVars, fw, buttons, cache, stale>>
  PROVE  \E j : Asked(r, j)
<1> DEFINE j == [Idle EXCEPT !.pc = "show", !.from = c, !.op = op, !.read = mem[ListOf(op)]]
<1>1. j.pc = "show" /\ j.op = op /\ j.read = mem[ListOf(op)] /\ JobOK(j) BY DEF Idle, JobOK
<1>2. job' = [job EXCEPT ![r] = j] /\ old' = old \ {r} BY DEF Read
<1> HIDE DEF j
<1>3. ShowOK(j)
  <2>1. CASE op = "labels"
    <3>1. mem["labels"] \in Seq(Named) BY DEF StoresOK, StoreOK
    <3> QED BY <1>1, <2>1, <3>1 DEF ShowOK, ListOf
  <2>2. CASE op \in {"policies", "install"}
    <3>1. mem["policies"] \in Seq(Stored) BY DEF StoresOK, StoreOK
    <3>2. ListOf(op) = "policies" BY <2>2 DEF ListOf
    <3> QED BY <1>1, <2>2, <3>1, <3>2 DEF ShowOK
  <2> QED BY <2>1, <2>2
<1>4. Asked(r, j) BY <1>1, <1>2, <1>3 DEF Asked
<1> QED BY <1>4

\* What is left: the list arrives, or nothing does.
LEMMA AloofMoves ==
  ASSUME StoresOK, CopiesOK, NEW r \in Request, Aloof(r)
  PROVE  \/ \E c \in Client : \E j : Sent(c, r, j)
         \/ \E j : Asked(r, j)
         \/ Show(r) \/ Dismiss(r)
<1>1. CASE \E c \in Client : Click(c, r) BY <1>1, ClickSends
<1>2. ASSUME NEW c \in Client, Mount(c, r) PROVE \E j : Asked(r, j)
  <2>1. PICK list \in {"labels", "policies"} : Read(r, c, list) BY <1>2 DEF Mount
  <2>2. UNCHANGED <<storeVars, fw, buttons, cache, stale>> BY <1>2 DEF Mount
  <2> QED BY <2>1, <2>2, ReadAsks
<1>3. ASSUME Refetch(r) PROVE \E j : Asked(r, j)
  <2>1. job[r].op \in {"labels", "policies", "install"} /\ Read(r, job[r].from, job[r].op)
    BY <1>3 DEF Refetch, Reads
  <2>2. UNCHANGED <<storeVars, fw, buttons, cache, stale>> BY <1>3 DEF Refetch
  <2> QED BY <2>1, <2>2, ReadAsks
<1> QED BY <1>1, <1>2, <1>3 DEF Aloof, AnswerStep

\* An edit of a list of rules is one.
LEMMA EditedRules ==
  ASSUME NEW j, WriteOK(j), RequestOK(j.op, j.body)
  PROVE  EditRules(j.read, j.op, j.body) \in Seq(AnyRule)
<1>1. CASE j.op = "fw_add"
  <2>1. j.body.rule \in AnyRule /\ j.read \in Seq(AnyRule) BY <1>1 DEF RequestOK, WriteOK
  <2> QED BY <1>1, <2>1, AppendElements DEF EditRules
<1>2. ASSUME j.op \in {"fw_update", "fw_delete"} PROVE j.read \in Seq(AnyRule) /\ j.body.index \in DOMAIN j.read
  <2>1. /\ j.read \in Seq(AnyRule) /\ j.body.index \in Nat \ {0} /\ j.body.index <= Len(j.read)
    BY <1>2 DEF RequestOK, WriteOK
  <2>2. j.body.index \in 1 .. Len(j.read) BY <2>1
  <2> QED BY <2>1, <2>2
<1>3. CASE j.op = "fw_update"
  <2>1. j.body.rule \in AnyRule BY <1>3 DEF RequestOK
  <2> QED BY <1>2, <1>3, <2>1, ReplaceElements DEF EditRules
<1>4. CASE j.op = "fw_delete"
  BY <1>2, <1>4, RemoveElements DEF EditRules
<1> QED BY <1>1, <1>3, <1>4 DEF WriteOK

LEMMA HandlerMoves ==
  ASSUME Typed, NEW r \in Request, HandlerStep(r)
  PROVE  /\ StoresOK'
         /\ \E j : /\ job' = [job EXCEPT ![r] = j] /\ j.pc \notin {"sent", "show"}
                   /\ j.pc = "write_fw" => /\ Open(job[r]) /\ WriteOK(j) /\ j.read = fw
                                           /\ j.op = job[r].op /\ j.body = job[r].body
<1> DEFINE Moves == \E j : /\ job' = [job EXCEPT ![r] = j] /\ j.pc \notin {"sent", "show"}
                           /\ j.pc = "write_fw" => /\ Open(job[r]) /\ WriteOK(j) /\ j.read = fw
                                                   /\ j.op = job[r].op /\ j.body = job[r].body
<1>0. /\ mem \in [labels : Seq(Named), policies : Seq(Stored)]
      /\ file \in [labels : Seq(Named), policies : Seq(Stored)]
      /\ fw \in Seq(AnyRule)
      /\ JobOK(job[r]) /\ job = [d \in Request |-> job[d]]
      /\ Open(job[r]) => RequestOK(job[r].op, job[r].body)
      /\ job[r].pc = "write_fw" => WriteOK(job[r])
  BY DEF Typed, StoresOK, StoreOK, RequestsOK, JobTyped, SavedInv, JobsOK
<1>a. ASSUME NEW ok, Answer(r, ok) PROVE Moves
  <2>1. job' = [job EXCEPT ![r] = Answered(r, ok)] BY <1>a DEF Answer, Answered
  <2> QED BY <2>1, AnsweredOK DEF Open
<1>b. ASSUME NEW pc, pc \notin {"sent", "write_fw", "show"}, Proceed(r, pc) PROVE Moves
  <2> DEFINE j == [job[r] EXCEPT !.pc = pc]
  <2>1. job' = [job EXCEPT ![r] = j] BY <1>0, <1>b DEF Proceed
  <2>2. j.pc = pc BY <1>0 DEF JobOK
  <2> HIDE DEF j
  <2> QED BY <1>b, <2>1, <2>2
<1>c. ASSUME NEW s, NEW d, Changed(r, s, d) PROVE Moves
  <2>1. job' = [job EXCEPT ![r] = Saving(r)] BY <1>c DEF Changed, Saving
  <2>2. Saving(r).pc = "save" BY SavingOK DEF Typed, SavedInv
  <2> QED BY <2>1, <2>2 DEF Open
<1> HIDE DEF Moves
<1>1. CASE PutLabels(r)
  <2>1. Open(job[r]) /\ job[r].op = "labels" BY <1>1 DEF PutLabels, At, Open
  <2>2. job[r].body \in Seq(Named) BY <1>0, <2>1 DEF RequestOK
  <2>3. UNCHANGED <<file, fw>> BY <1>1 DEF PutLabels
  <2>4. CASE NamesAreGood(job[r].body)
    <3>1. PICK d : Changed(r, [mem EXCEPT !.labels = job[r].body], d) BY <1>1, <2>4 DEF PutLabels
    <3>2. mem' = [mem EXCEPT !.labels = job[r].body] BY <3>1 DEF Changed
    <3>3. StoresOK' BY <1>0, <2>2, <2>3, <3>2 DEF StoresOK, StoreOK
    <3> QED BY <1>c, <3>1, <3>3 DEF Moves
  <2>5. CASE ~ NamesAreGood(job[r].body)
    <3>1. Answer(r, FALSE) /\ UNCHANGED mem BY <1>1, <2>5 DEF PutLabels, Refuse
    <3>2. StoresOK' BY <1>0, <2>3, <3>1 DEF StoresOK, StoreOK
    <3> QED BY <1>a, <3>1, <3>2 DEF Moves
  <2> QED BY <2>4, <2>5
<1>2. CASE PutPolicies(r)
  <2>1. Open(job[r]) /\ job[r].op = "policies" BY <1>2 DEF PutPolicies, At, Open
  <2>2. job[r].body \in Seq(Stored) BY <1>0, <2>1 DEF RequestOK
  <2>3. UNCHANGED <<file, fw>> BY <1>2 DEF PutPolicies
  <2>4. ASSUME NEW d, Changed(r, [mem EXCEPT !.policies = job[r].body], d)
        PROVE  StoresOK' /\ Moves
    <3>1. mem' = [mem EXCEPT !.policies = job[r].body] BY <2>4 DEF Changed
    <3>2. StoresOK' BY <1>0, <2>2, <2>3, <3>1 DEF StoresOK, StoreOK
    <3> QED BY <1>c, <2>4, <3>2
  <2>5. ASSUME Refuse(r) PROVE StoresOK' /\ Moves
    <3>1. Answer(r, FALSE) /\ UNCHANGED mem BY <2>5 DEF Refuse
    <3>2. StoresOK' BY <1>0, <2>3, <3>1 DEF StoresOK, StoreOK
    <3> QED BY <1>a, <3>1, <3>2
  <2>6. Refuse(r) \/ Changed(r, [mem EXCEPT !.policies = job[r].body], {})
    BY <1>2 DEF PutPolicies
  <2> QED BY <2>4, <2>5, <2>6 DEF Moves
<1>3. CASE SetInstalled(r)
  <2>1. Open(job[r]) /\ job[r].op = "install" BY <1>3 DEF SetInstalled, At, Open
  <2>2. job[r].body.installed \in BOOLEAN BY <1>0, <2>1 DEF RequestOK
  <2>3. UNCHANGED <<file, fw>> BY <1>3 DEF SetInstalled
  <2> DEFINE hit == {i \in DOMAIN mem.policies : mem.policies[i].name = job[r].body.name}
             i == FirstOf(hit)
             st == [mem EXCEPT !.policies[i].installed = job[r].body.installed]
  <2>4. CASE hit = {}
    <3>1. Answer(r, FALSE) /\ UNCHANGED mem BY <1>3, <2>4 DEF SetInstalled, Refuse
    <3>2. StoresOK' BY <1>0, <2>3, <3>1 DEF StoresOK, StoreOK
    <3> QED BY <1>a, <3>1, <3>2 DEF Moves
  <2>5. CASE hit # {}
    <3>1. Changed(r, st, hist.dropped) BY <1>3, <2>5 DEF SetInstalled
    <3>2. st \in [labels : Seq(Named), policies : Seq(Stored)]
      <4>1. i \in DOMAIN mem.policies
        <5>1. hit \in SUBSET Nat BY <1>0
        <5>2. i \in hit BY <2>5, <5>1, FirstIsIn
        <5> QED BY <5>2
      <4> HIDE DEF i
      <4>2. st \in [labels : Seq(Named), policies : Seq(Stored)]
        <5>1. mem.policies[i] \in Stored BY <1>0, <4>1
        <5>2. [mem.policies[i] EXCEPT !.installed = job[r].body.installed] \in Stored
          BY <2>2, <5>1, EnteredIsStored
        <5> DEFINE q == [mem.policies EXCEPT ![i] = [mem.policies[i] EXCEPT !.installed = job[r].body.installed]]
        <5>3. q \in Seq(Stored) BY <1>0, <4>1, <5>2, ReplaceElements
        <5>4. st = [mem EXCEPT !.policies = q] BY <1>0, <4>1
        <5> HIDE DEF q, st
        <5> QED BY <1>0, <5>3, <5>4
      <4> QED BY <4>2
    <3> HIDE DEF st
    <3>3. mem' = st BY <3>1 DEF Changed
    <3>4. StoresOK' BY <1>0, <2>3, <3>2, <3>3 DEF StoresOK, StoreOK
    <3> QED BY <1>c, <3>1, <3>4 DEF Moves
  <2> QED BY <2>4, <2>5
<1>4. CASE Save(r)
  <2>1. Answer(r, TRUE) /\ file' = mem /\ UNCHANGED <<mem, fw>> BY <1>4 DEF Save
  <2>2. StoresOK' BY <1>0, <2>1 DEF StoresOK, StoreOK
  <2> QED BY <1>a, <2>1, <2>2 DEF Moves
<1>5. CASE SaveFails(r) \/ SavePool(r)
  <2>1. (\E ok : Answer(r, ok)) /\ UNCHANGED <<mem, file, fw>>
    BY <1>5 DEF SaveFails, SavePool, storeVars
  <2>2. StoresOK' BY <1>0, <2>1 DEF StoresOK, StoreOK
  <2> QED BY <1>a, <2>1, <2>2 DEF Moves
<1>6. CASE PutPool(r) \/ MergePool(r)
  <2>1. /\ Answer(r, FALSE) \/ Proceed(r, "merge") \/ Proceed(r, "save_pool")
        /\ UNCHANGED <<mem, file, fw>>
    BY <1>6 DEF PutPool, MergePool, storeVars
  <2>2. StoresOK' BY <1>0, <2>1 DEF StoresOK, StoreOK
  <2> QED BY <1>a, <1>b, <2>1, <2>2 DEF Moves
<1>7. CASE CopyRules(r)
  <2>1. UNCHANGED <<mem, file, fw>> BY <1>7 DEF CopyRules, storeVars
  <2>2. StoresOK' BY <1>0, <2>1 DEF StoresOK, StoreOK
  <2>3. CASE job[r].op # "fw_add" /\ job[r].body.index > Len(fw)
    <3>1. Answer(r, FALSE) BY <1>7, <2>3 DEF CopyRules
    <3> QED BY <1>a, <2>2, <3>1 DEF Moves
  <2>4. CASE ~ (job[r].op # "fw_add" /\ job[r].body.index > Len(fw))
    <3> DEFINE j == [job[r] EXCEPT !.pc = "write_fw", !.read = fw]
    <3>1. job' = [job EXCEPT ![r] = j] BY <1>0, <1>7, <2>4 DEF CopyRules
    <3>2. /\ j.pc = "write_fw" /\ j.read = fw
          /\ j.op = job[r].op /\ j.body = job[r].body
      BY <1>0 DEF JobOK
    <3>3. Open(job[r]) /\ job[r].op \in {"fw_add", "fw_update", "fw_delete"}
      BY <1>7 DEF CopyRules, Open
    <3>4. job[r].op # "fw_add" => job[r].body.index <= Len(fw)
      <4>1. job[r].op # "fw_add" => job[r].body.index \in Nat BY <1>0, <3>3 DEF RequestOK
      <4>2. Len(fw) \in Nat BY <1>0
      <4> QED BY <2>4, <4>1, <4>2
    <3> HIDE DEF j
    <3>5. WriteOK(j) BY <1>0, <3>2, <3>3, <3>4 DEF WriteOK
    <3> QED BY <2>2, <3>1, <3>2, <3>3, <3>5
  <2> QED BY <2>3, <2>4
<1>8. CASE WriteRules(r)
  <2>1. /\ fw' = EditRules(job[r].read, job[r].op, job[r].body) /\ Answer(r, TRUE)
        /\ UNCHANGED <<mem, file>> /\ job[r].pc = "write_fw"
    BY <1>8 DEF WriteRules, storeVars
  <2>2. WriteOK(job[r]) /\ RequestOK(job[r].op, job[r].body)
    BY <1>0, <2>1 DEF Open
  <2>3. fw' \in Seq(AnyRule) BY <2>1, <2>2, EditedRules
  <2>4. StoresOK' BY <1>0, <2>1, <2>3 DEF StoresOK, StoreOK
  <2> QED BY <1>a, <2>1, <2>4 DEF Moves
<1> QED BY <1>1, <1>2, <1>3, <1>4, <1>5, <1>6, <1>7, <1>8 DEF HandlerStep

LEMMA TypedKept == ASSUME Typed, [Next]_settingsVars PROVE Typed'
<1>0. SavedInv' BY SavedKept DEF Typed
<1>j. /\ job = [r \in Request |-> job[r]] /\ cache = [c \in Client |-> cache[c]]
      /\ \A c \in Client : CopyOK(cache[c])
      /\ StoresOK /\ CopiesOK /\ RequestsOK
  BY DEF Typed, SavedInv, JobsOK, CopiesOK
<1>a. ASSUME NEW r \in Request, NEW j, job' = [job EXCEPT ![r] = j], JobTyped(j) PROVE RequestsOK'
  <2>1. \A q \in Request : job'[q] = IF q = r THEN j ELSE job[q] BY <1>j, <1>a
  <2> QED BY <1>j, <1>a, <2>1 DEF RequestsOK
<1>b. ASSUME UNCHANGED <<mem, file, fw>> PROVE StoresOK' BY <1>j, <1>b DEF StoresOK
<1>c. ASSUME UNCHANGED cache PROVE CopiesOK' BY <1>j, <1>c DEF CopiesOK
<1> DEFINE Puts(c, f, v) == cache' = [cache EXCEPT ![c][f] = v]
<1>d. ASSUME NEW c, NEW f \in Lists, NEW v, Puts(c, f, v),
             /\ f = "labels" => v \in Seq(Named)
             /\ f = "policies" => v \in Seq(Stored)
             /\ f = "rules" => v \in Seq(AnyRule)
      PROVE  CopiesOK'
  <2> DEFINE t == [cache[c] EXCEPT ![f] = v]
  <2>1. cache' = [cache EXCEPT ![c] = t] BY <1>d
  <2>2. c \in Client => CopyOK(t)
    <3> SUFFICES ASSUME CopyOK(cache[c]) PROVE CopyOK(t) BY <1>j
    <3>1. CASE f = "labels" BY <1>d, <3>1 DEF CopyOK
    <3>2. CASE f = "policies" BY <1>d, <3>2 DEF CopyOK
    <3>3. CASE f = "rules" BY <1>d, <3>3 DEF CopyOK
    <3>4. CASE f = "buttons" BY <3>4 DEF CopyOK
    <3> QED BY <3>1, <3>2, <3>3, <3>4 DEF Lists, Served
  <2> HIDE DEF t
  <2>3. \A d \in Client : cache'[d] = IF d = c THEN t ELSE cache[d] BY <1>j, <2>1
  <2>4. cache' = [d \in Client |-> cache'[d]] BY <1>j, <2>1
  <2> QED BY <1>j, <2>2, <2>3, <2>4 DEF CopiesOK
<1> HIDE DEF Puts
<1>1. ASSUME NEW r \in Request, Aloof(r) PROVE Typed'
  <2>1. ASSUME NEW c \in Client, NEW j, Sent(c, r, j) PROVE Typed'
    <3>1. JobTyped(j) BY <2>1 DEF Sent, JobTyped
    <3>2. RequestsOK' BY <1>a, <2>1, <3>1 DEF Sent
    <3>3. UNCHANGED <<mem, file, fw, cache>> BY <2>1 DEF Sent, storeVars
    <3> QED BY <1>0, <1>b, <1>c, <3>2, <3>3 DEF Typed
  <2>2. ASSUME NEW j, Asked(r, j) PROVE Typed'
    <3>1. JobTyped(j) BY <2>2 DEF Asked, JobTyped, Open
    <3>2. RequestsOK' BY <1>a, <2>2, <3>1 DEF Asked
    <3>3. UNCHANGED <<mem, file, fw, cache>> BY <2>2 DEF Asked, storeVars
    <3> QED BY <1>0, <1>b, <1>c, <3>2, <3>3 DEF Typed
  <2>3. ASSUME Show(r) \/ Dismiss(r) PROVE Typed'
    <3>1. UNCHANGED <<mem, file, fw>> /\ job' = [job EXCEPT ![r] = Idle]
      BY <2>3 DEF Show, Dismiss, Done, storeVars
    <3>2. JobTyped(Idle) BY IdleOK DEF JobTyped, Open
    <3>3. RequestsOK' BY <1>a, <3>1, <3>2
    <3>4. CopiesOK'
      <4>1. CASE Dismiss(r) BY <1>c, <4>1 DEF Dismiss
      <4>2. CASE Show(r)
        <5>1. ShowOK(job[r]) BY <1>j, <4>2 DEF Show, RequestsOK, JobTyped
        <5>2. Puts(job[r].from, ListOf(job[r].op), job[r].read) BY <4>2 DEF Show, Puts
        <5>3. \/ ListOf(job[r].op) = "labels" /\ job[r].read \in Seq(Named)
              \/ ListOf(job[r].op) = "policies" /\ job[r].read \in Seq(Stored)
          BY <5>1 DEF ShowOK, ListOf
        <5> QED BY <1>d, <5>2, <5>3 DEF Lists, Served
      <4> QED BY <2>3, <4>1, <4>2
    <3> QED BY <1>0, <1>b, <3>1, <3>3, <3>4 DEF Typed
  <2> QED BY <1>1, <1>j, <2>1, <2>2, <2>3, AloofMoves
<1>2. ASSUME NEW c \in Client, Local(c) PROVE Typed'
  <2>1. UNCHANGED <<mem, file, fw, job>>
    BY <1>2 DEF Local, ListRules, LoadActions, AddButton, RemoveButton, SaveActions, storeVars
  <2>2. RequestsOK' BY <1>j, <2>1 DEF RequestsOK
  <2>3. CopiesOK'
    <3>1. CASE ListRules(c)
      <4>1. ConfigRules \in Seq(AnyRule)
        <5>1. Elements(ConfigRules) \subseteq AnyRule BY DEF AnyRule
        <5> QED BY <5>1, RequestAssumption
      <4>2. EffectiveRules \in Seq(AnyRule) BY <1>j, <4>1 DEF EffectiveRules, StoresOK
      <4>3. Puts(c, "rules", EffectiveRules) BY <3>1 DEF ListRules, Puts
      <4> QED BY <1>d, <4>2, <4>3 DEF Lists, Served
    <3>2. CASE ~ ListRules(c)
      <4>1. \E v : Puts(c, "buttons", v)
        BY <1>2, <3>2 DEF Local, LoadActions, AddButton, RemoveButton, SaveActions, Puts
      <4> QED BY <1>d, <4>1 DEF Lists, Served
    <3> QED BY <3>1, <3>2
  <2> QED BY <1>0, <1>b, <2>1, <2>2, <2>3 DEF Typed
<1>3. ASSUME NEW r \in Request, HandlerStep(r) PROVE Typed'
  <2>1. UNCHANGED cache
    BY <1>3 DEF HandlerStep, PutLabels, PutPolicies, SetInstalled, Save, SaveFails, PutPool, MergePool,
       SavePool, CopyRules, WriteRules, tabVars
  <2>2. PICK j : /\ job' = [job EXCEPT ![r] = j] /\ j.pc \notin {"sent", "show"}
                 /\ j.pc = "write_fw" => /\ Open(job[r]) /\ WriteOK(j) /\ j.read = fw
                                         /\ j.op = job[r].op /\ j.body = job[r].body
    BY <1>3, <1>j, HandlerMoves DEF Typed
  <2>3. JobTyped(j) BY <1>j, <2>2 DEF JobTyped, RequestsOK, Open
  <2>4. RequestsOK' BY <1>a, <2>2, <2>3
  <2>5. StoresOK' BY <1>3, HandlerMoves
  <2> QED BY <1>0, <1>c, <2>1, <2>4, <2>5 DEF Typed
<1>4. CASE Restart
  <2>1. UNCHANGED <<file, cache>> /\ mem' = file /\ fw' = <<>> BY <1>4 DEF Restart
  <2>2. StoresOK' /\ CopiesOK' BY <1>c, <1>j, <2>1 DEF StoresOK, StoreOK
  <2>3. \A r \in Request : job'[r] = job[r] \/ job'[r].pc = "answered"
    BY <1>4 DEF Restart, Becomes, Idle
  <2>4. RequestsOK' BY <1>j, <2>3 DEF RequestsOK, JobTyped, Open
  <2> QED BY <1>0, <2>2, <2>4 DEF Typed
<1>5. CASE UNCHANGED settingsVars
  <2>1. UNCHANGED <<mem, file, fw, cache, job>> BY <1>5 DEF settingsVars, storeVars, tabVars
  <2>2. RequestsOK' BY <1>j, <2>1 DEF RequestsOK
  <2> QED BY <1>0, <1>b, <1>c, <2>1, <2>2 DEF Typed
<1> QED BY <1>1, <1>2, <1>3, <1>4, <1>5, Steps

LEMMA InitTyped == Init => Typed
<1> SUFFICES ASSUME Init PROVE Typed OBVIOUS
<1>1. StoresOK BY DEF Init, StoresOK, StoreOK, EmptyStore
<1>2. CopiesOK
  <2>1. CopyOK(Nothing) BY DEF CopyOK, Nothing
  <2>2. cache = [c \in Client |-> Nothing] BY DEF Init
  <2> QED BY <2>1, <2>2 DEF CopiesOK
<1>3. \A r \in Request : job[r].pc = "idle" BY IdleOK DEF Init
<1>4. RequestsOK BY <1>3 DEF RequestsOK, JobTyped, Open
<1> QED BY <1>1, <1>2, <1>4, InitSaved DEF Typed

LEMMA SpecTyped == Spec => []Typed
BY InitTyped, TypedKept, PTL DEF Spec

\* Whatever requests are sent, refused, half done or lost, every stored policy
\* is one that was entered, installed or not, and it routes every packet by its
\* first matching rule, the prefixes read bit by bit: any number of policies
\* and rules, addresses of any width (crates/core, evaluate, cidr_contains).
THEOREM PoliciesRoute == Spec => []RoutesPackets
<1>1. ASSUME Typed PROVE RoutesPackets
  <2> SUFFICES ASSUME NEW i \in DOMAIN mem.policies
               PROVE  [mem.policies[i] EXCEPT !.installed = FALSE] \in Routing
    BY DEF RoutesPackets
  <2>1. mem.policies[i] \in Stored BY <1>1 DEF Typed, StoresOK, StoreOK
  <2> DEFINE p == [mem.policies[i] EXCEPT !.installed = FALSE]
  <2>2. p \in Entered BY <2>1, EnteredIsStored
  <2> HIDE DEF p
  <2>3. \A pkt \in Packet : TakesFirstMatch(p, pkt)
    BY <2>2, EnteredIsStored, FirstMatchWins, RequestAssumption
  <2>4. p \in Routing BY <2>2, <2>3 DEF Routing
  <2> QED BY <2>4 DEF p
<1> QED BY <1>1, SpecTyped, PTL

-----------------------------------------------------------------------------
(* Labels that policies use.                                               *)

\* The labels a store's policies use are its own, or were removed from it by
\* label edits since the policies were set.
Known(st, h) ==
  \A i \in DOMAIN st.policies : Uses(st.policies[i]) \subseteq Elements(st.labels) \cup h.dropped

AllKnown == Known(mem, hist) /\ Known(file, fileHist)

LEMMA KnownKept == ASSUME Typed, AllKnown, [Next]_settingsVars PROVE AllKnown'
<1>0. StoreOK(mem) /\ StoreOK(file)
  BY DEF Typed, StoresOK
<1>a. ASSUME UNCHANGED <<mem, file, hist, fileHist>> PROVE AllKnown'
  BY <1>a DEF AllKnown, Known
<1>b. ASSUME UNCHANGED <<file, fileHist>>, Known(mem, hist)' PROVE AllKnown'
  BY <1>b DEF AllKnown, Known
<1>1. ASSUME NEW r \in Request, Aloof(r) PROVE AllKnown'
  <2>1. UNCHANGED storeVars
    BY <1>1, AloofMoves DEF Sent, Asked, Show, Dismiss, Typed
  <2> QED BY <1>a, <2>1 DEF storeVars
<1>5. ASSUME NEW c \in Client, Local(c) PROVE AllKnown'
  <2>1. UNCHANGED storeVars
    BY <1>5 DEF Local, ListRules, LoadActions, AddButton, RemoveButton, SaveActions
  <2> QED BY <1>a, <2>1 DEF storeVars
<1>2. ASSUME NEW r \in Request, HandlerStep(r) PROVE AllKnown'
  <2>1. CASE PutLabels(r)
    <3>1. UNCHANGED <<file, fileHist>> BY <2>1 DEF PutLabels
    <3>2. CASE NamesAreGood(job[r].body)
      <4> DEFINE ls == job[r].body
                 gone == (hist.dropped \cup Elements(mem.labels)) \ Elements(ls)
      <4>1. Changed(r, [mem EXCEPT !.labels = ls], gone) BY <2>1, <3>2 DEF PutLabels
      <4>2. mem'.labels = ls /\ mem'.policies = mem.policies /\ hist'.dropped = gone
        BY <1>0, <4>1 DEF Changed, StoreOK
      <4> HIDE DEF ls
      <4>3. Known(mem, hist)' BY <4>2 DEF AllKnown, Known
      <4> QED BY <1>b, <3>1, <4>3
    <3>3. CASE ~ NamesAreGood(job[r].body)
      <4>1. UNCHANGED <<mem, hist>> BY <2>1, <3>3 DEF PutLabels, Refuse
      <4> QED BY <1>a, <3>1, <4>1
    <3> QED BY <3>2, <3>3
  <2>2. CASE PutPolicies(r)
    <3> DEFINE ps == job[r].body
    <3>1. UNCHANGED <<file, fileHist>> BY <2>2 DEF PutPolicies
    <3>2. CASE UNCHANGED <<mem, hist>> BY <1>a, <3>1, <3>2
    <3>3. CASE ~ UNCHANGED <<mem, hist>>
      <4>1. ~ UnknownLabels(ps, mem.labels) /\ Changed(r, [mem EXCEPT !.policies = ps], {})
        BY <2>2, <3>3 DEF PutPolicies, Refuse
      <4>2. mem'.policies = ps /\ mem'.labels = mem.labels
        BY <1>0, <4>1 DEF Changed, StoreOK
      <4> HIDE DEF ps
      <4>3. Known(mem, hist)' BY <4>1, <4>2 DEF Known, UnknownLabels
      <4> QED BY <1>b, <3>1, <4>3
    <3> QED BY <3>2, <3>3
  <2>3. CASE SetInstalled(r)
    <3>1. UNCHANGED <<file, fileHist>> BY <2>3 DEF SetInstalled
    <3> DEFINE hit == {i \in DOMAIN mem.policies : mem.policies[i].name = job[r].body.name}
               f == FirstOf(hit)
               on == job[r].body.installed
    <3>2. CASE hit = {}
      <4>1. UNCHANGED <<mem, hist>> BY <2>3, <3>2 DEF SetInstalled, Refuse
      <4> QED BY <1>a, <3>1, <4>1
    <3>3. CASE hit # {}
      <4>1. Changed(r, [mem EXCEPT !.policies[f].installed = on], hist.dropped)
        BY <2>3, <3>3 DEF SetInstalled
      <4>2. on \in BOOLEAN
        BY <2>3 DEF SetInstalled, At, Typed, RequestsOK, JobTyped, RequestOK, Open
      <4> HIDE DEF f, on
      <4>3. hist'.dropped = hist.dropped /\ mem' = [mem EXCEPT !.policies[f].installed = on]
        BY <4>1 DEF Changed
      <4>4. /\ mem'.labels = mem.labels /\ DOMAIN mem'.policies = DOMAIN mem.policies
            /\ \A i \in DOMAIN mem.policies :
                 mem'.policies[i] = IF i = f THEN [mem.policies[i] EXCEPT !.installed = on] ELSE mem.policies[i]
        BY <1>0, <4>3 DEF StoreOK
      <4>5. \A i \in DOMAIN mem.policies : Uses(mem'.policies[i]) = Uses(mem.policies[i])
        <5> SUFFICES ASSUME NEW i \in DOMAIN mem.policies
                     PROVE  Uses(mem'.policies[i]) = Uses(mem.policies[i])
          OBVIOUS
        <5>1. mem.policies[i] \in Stored BY <1>0 DEF StoreOK
        <5>2. Uses([mem.policies[i] EXCEPT !.installed = on]) = Uses(mem.policies[i])
          BY <4>2, <5>1, EnteredIsStored
        <5> QED BY <4>4, <5>2
      <4>6. Known(mem, hist)' BY <4>3, <4>4, <4>5 DEF AllKnown, Known
      <4> QED BY <1>b, <3>1, <4>6
    <3> QED BY <3>2, <3>3
  <2>4. CASE Save(r)
    <3>1. mem' = mem /\ hist' = hist /\ file' = mem /\ fileHist' = hist BY <2>4 DEF Save
    <3> QED BY <3>1 DEF AllKnown, Known
  <2>5. CASE SaveFails(r) \/ PutPool(r) \/ MergePool(r) \/ SavePool(r) \/ CopyRules(r) \/ WriteRules(r)
    BY <1>a, <2>5 DEF SaveFails, PutPool, MergePool, SavePool, CopyRules, WriteRules, storeVars
  <2> QED BY <1>2, <2>1, <2>2, <2>3, <2>4, <2>5 DEF HandlerStep
<1>3. CASE Restart
  <2>1. mem' = file /\ hist' = fileHist /\ file' = file /\ fileHist' = fileHist BY <1>3 DEF Restart
  <2> QED BY <2>1 DEF AllKnown, Known
<1>4. CASE UNCHANGED settingsVars BY <1>4, <1>a DEF settingsVars, storeVars
<1> QED BY <1>1, <1>2, <1>3, <1>4, <1>5, Steps

\* No order of label and policy requests, failed saves and restarts lets in a
\* policy with an unknown label: one that dangles was left so by label edits
\* (server.rs, api_policies_put, api_labels_put).
THEOREM UnknownLabelsStayOut == Spec => []DanglingOnlyByLabels
<1>1. Init => AllKnown BY DEF Init, AllKnown, Known, EmptyStore
<1>2. AllKnown => DanglingOnlyByLabels BY DEF AllKnown, Known, DanglingOnlyByLabels
<1> QED BY <1>1, <1>2, KnownKept, SpecTyped, PTL DEF Spec

-----------------------------------------------------------------------------
(* Copies and requests that nothing outdated.                              *)

\* What a request that is under way holds of a list is what the list holds.
Current(j) ==
  /\ j.pc = "sent" /\ j.op = "labels" /\ j.target # {} => SameLabels(j.body, mem.labels, j.target)
  /\ j.pc = "sent" /\ j.op = "policies" /\ j.target # {} =>
       SamePolicies(j.body, mem.policies, j.target)
  /\ j.pc = "sent" /\ j.op \in {"fw_update", "fw_delete"} => j.read = EffectiveRules
  /\ j.pc = "write_fw" => j.read = fw
  /\ j.pc = "show" /\ ListOf(j.op) = "labels" => j.read = mem.labels
  /\ j.pc = "show" /\ ListOf(j.op) = "policies" => j.read = mem.policies

FreshRequest(r) == r \notin old => Current(job[r])

FreshOf(c) ==
  /\ "labels" \notin stale[c] => cache[c].labels = mem.labels
  /\ "policies" \notin stale[c] => cache[c].policies = mem.policies
  /\ "rules" \notin stale[c] => cache[c].rules = EffectiveRules
  /\ "buttons" \notin stale[c] => cache[c].buttons = buttons

Fresh ==
  /\ stale = [c \in Client |-> stale[c]]
  /\ \A c \in Client : FreshOf(c)
  /\ \A r \in Request : FreshRequest(r)

\* The lists that a step changes; it outdates the copies and requests it does
\* not touch.
Hit == (IF mem'.labels # mem.labels THEN {"labels"} ELSE {})
         \cup (IF mem'.policies # mem.policies THEN {"policies"} ELSE {})
         \cup (IF fw' # fw THEN {"rules"} ELSE {})
         \cup (IF buttons' # buttons THEN {"buttons"} ELSE {})

Under(j) == j.pc \in {"sent", "write_fw", "show"}

Outdates(c)        == cache'[c] = cache[c] /\ stale[c] \subseteq stale'[c] /\ Hit \subseteq stale'[c]
OutdatesRequest(r) ==
  /\ job'[r] = job[r] /\ (r \in old => r \in old')
  /\ Under(job[r]) /\ ListOf(job[r].op) \in Hit => r \in old'

LEMMA CopyOutdated ==
  ASSUME NEW c \in Client, FreshOf(c), Outdates(c) PROVE FreshOf(c)'
BY DEF FreshOf, Outdates, Hit, EffectiveRules

LEMMA RequestOutdated ==
  ASSUME NEW r \in Request, WriteOK(job[r]) \/ job[r].pc # "write_fw",
         FreshRequest(r), OutdatesRequest(r)
  PROVE  FreshRequest(r)'
<1> SUFFICES ASSUME r \notin old' PROVE Current(job[r])' BY DEF FreshRequest
<1>1. /\ Current(job[r]) /\ job'[r] = job[r]
      /\ ~ Under(job[r]) \/ ListOf(job[r].op) \notin Hit
  BY DEF FreshRequest, OutdatesRequest
<1>2. CASE ~ Under(job[r]) BY <1>1, <1>2 DEF Current, Under
<1>3. CASE ListOf(job[r].op) \notin Hit
  <2>1. ListOf(job[r].op) = "labels" => mem'.labels = mem.labels BY <1>3 DEF Hit
  <2>2. ListOf(job[r].op) = "policies" => mem'.policies = mem.policies BY <1>3 DEF Hit
  <2>3. ListOf(job[r].op) = "rules" => fw' = fw BY <1>3 DEF Hit
  <2>4. /\ job[r].op = "labels" => ListOf(job[r].op) = "labels"
        /\ job[r].op = "policies" => ListOf(job[r].op) = "policies"
        /\ job[r].op \in {"fw_add", "fw_update", "fw_delete"} => ListOf(job[r].op) = "rules"
    BY DEF ListOf
  <2>5. job[r].pc = "write_fw" => fw' = fw BY <2>3, <2>4 DEF WriteOK
  <2> QED BY <1>1, <2>1, <2>2, <2>3, <2>4, <2>5 DEF Current, EffectiveRules
<1> QED BY <1>1, <1>2, <1>3

\* A handler outdates what it changes for everyone else, and holds nothing that
\* is out of date.
LEMMA HandlerOutdates ==
  ASSUME Typed, NEW r \in Request, HandlerStep(r)
  PROVE  /\ cache' = cache
         /\ \/ Hit = {} /\ UNCHANGED stale /\ (old' = old \/ old' = old \ {r})
            \/ /\ \E list : Outdate(r, list) /\ Hit \subseteq {list}
               /\ job'[r].pc # "write_fw"
<1>a. ASSUME NEW s, NEW d, Changed(r, s, d) PROVE job'[r].pc # "write_fw"
  <2>1. job'[r] = Saving(r) BY <1>a DEF Changed, Saving, Typed, SavedInv, JobsOK
  <2> QED BY <2>1, SavingOK DEF Typed, SavedInv
<1>b. ASSUME NEW ok, Answer(r, ok) PROVE job'[r].pc # "write_fw"
  <2>1. job'[r] = Answered(r, ok) BY <1>b DEF Answer, Answered, Typed, SavedInv, JobsOK
  <2> QED BY <2>1, AnsweredOK
<1>0. mem \in [labels : Seq(Named), policies : Seq(Stored)]
  BY DEF Typed, StoresOK, StoreOK
<1>1. CASE PutLabels(r)
  <2>1. UNCHANGED <<fw, buttons, cache>> BY <1>1 DEF PutLabels
  <2>2. CASE Refuse(r) BY <2>1, <2>2 DEF Refuse, Hit
  <2>3. CASE ~ Refuse(r)
    <3>a. Outdate(r, "labels") /\ \E d : Changed(r, [mem EXCEPT !.labels = job[r].body], d)
      BY <1>1, <2>3 DEF PutLabels
    <3>1. mem' = [mem EXCEPT !.labels = job[r].body] /\ job'[r].pc # "write_fw"
      BY <1>a, <3>a DEF Changed
    <3>2. mem'.policies = mem.policies BY <1>0, <3>1
    <3>3. Hit \subseteq {"labels"} BY <2>1, <3>2 DEF Hit
    <3> QED BY <2>1, <3>a, <3>1, <3>3
  <2> QED BY <2>2, <2>3
<1>2. CASE PutPolicies(r) \/ SetInstalled(r)
  <2>1. UNCHANGED <<fw, buttons, cache>> BY <1>2 DEF PutPolicies, SetInstalled
  <2>2. CASE Refuse(r) BY <2>1, <2>2 DEF Refuse, Hit
  <2>3. CASE ~ Refuse(r)
    <3>a. /\ Outdate(r, "policies")
          /\ \E st, d : /\ Changed(r, st, d)
                        /\ \/ st = [mem EXCEPT !.policies = job[r].body]
                           \/ \E i : st = [mem EXCEPT !.policies[i].installed = job[r].body.installed]
      BY <1>2, <2>3 DEF PutPolicies, SetInstalled
    <3>1. /\ \/ mem' = [mem EXCEPT !.policies = job[r].body]
             \/ \E i : mem' = [mem EXCEPT !.policies[i].installed = job[r].body.installed]
          /\ job'[r].pc # "write_fw"
      BY <1>a, <3>a DEF Changed
    <3>2. mem'.labels = mem.labels BY <1>0, <3>1
    <3>3. Hit \subseteq {"policies"} BY <2>1, <3>2 DEF Hit
    <3> QED BY <2>1, <3>a, <3>1, <3>3
  <2> QED BY <2>2, <2>3
<1>3. CASE Save(r) \/ SaveFails(r) \/ PutPool(r) \/ MergePool(r) \/ SavePool(r)
  <2>1. UNCHANGED <<mem, fw, buttons, cache, stale, old>>
    BY <1>3 DEF Save, SaveFails, PutPool, MergePool, SavePool, storeVars, tabVars
  <2> QED BY <2>1 DEF Hit
<1>4. CASE CopyRules(r)
  <2>1. UNCHANGED <<mem, fw, buttons, cache, stale>> /\ old' = old \ {r}
    BY <1>4 DEF CopyRules, storeVars
  <2> QED BY <2>1 DEF Hit
<1>5. CASE WriteRules(r)
  <2>1. UNCHANGED <<mem, buttons, cache>> /\ Outdate(r, "rules") BY <1>5 DEF WriteRules, storeVars
  <2>2. Hit \subseteq {"rules"} BY <2>1 DEF Hit
  <2>3. job'[r].pc # "write_fw" BY <1>b, <1>5 DEF WriteRules
  <2> QED BY <2>1, <2>2, <2>3
<1> QED BY <1>1, <1>2, <1>3, <1>4, <1>5 DEF HandlerStep

\* What a request holds when it is sent or asks for a list.
LEMMA SentIsFresh ==
  ASSUME Fresh, JobsOK, NEW c \in Client, NEW r \in Request, NEW j, Sent(c, r, j)
  PROVE  FreshRequest(r)'
<1> SUFFICES ASSUME r \notin old' PROVE Current(job[r])' BY DEF FreshRequest
<1>1. job'[r] = j /\ j.pc = "sent" BY DEF Sent, JobsOK
<1>2. ListOf(j.op) \notin stale[c] BY DEF Sent
<1>3. FreshOf(c) /\ UNCHANGED <<mem, fw>> /\ NamesAll(j.op, j.body, j.target, cache[c])
      /\ j.read = cache[c].rules
  BY DEF Fresh, Sent, storeVars
<1>4. /\ j.op = "labels" => ListOf(j.op) = "labels"
      /\ j.op = "policies" => ListOf(j.op) = "policies"
      /\ j.op \in {"fw_update", "fw_delete"} => ListOf(j.op) = "rules"
  BY DEF ListOf
<1> QED BY <1>1, <1>2, <1>3, <1>4 DEF Current, NamesAll, FreshOf, EffectiveRules

LEMMA AskedIsFresh ==
  ASSUME JobsOK, NEW r \in Request, NEW j, Asked(r, j) PROVE FreshRequest(r)'
<1>1. job'[r] = j /\ j.pc = "show" /\ j.read = mem[ListOf(j.op)] /\ UNCHANGED <<mem, fw>>
  BY DEF Asked, JobsOK, storeVars
<1> QED BY <1>1 DEF FreshRequest, Current

\* A list that arrives is as up to date as its request.
LEMMA ShownIsFresh ==
  ASSUME Typed, Fresh, NEW r \in Request, Show(r), NEW c \in Client PROVE FreshOf(c)'
<1>1. ShowOK(job[r]) /\ job[r].pc = "show" BY DEF Show, Typed, RequestsOK, JobTyped
<1> DEFINE list == ListOf(job[r].op)
<1>2. list \in {"labels", "policies"} BY <1>1 DEF ShowOK, ListOf
<1>3. /\ UNCHANGED <<mem, fw, buttons>>
      /\ cache' = [cache EXCEPT ![job[r].from][list] = job[r].read]
      /\ stale' = [stale EXCEPT ![job[r].from] = IF r \in old THEN @ \cup {list} ELSE @ \ {list}]
  BY DEF Show, storeVars
<1>4. r \notin old => /\ list = "labels" => job[r].read = mem.labels
                      /\ list = "policies" => job[r].read = mem.policies
  BY <1>1 DEF Fresh, FreshRequest, Current
<1>5. FreshOf(c) /\ CopyOK(cache[c]) BY DEF Fresh, Typed, CopiesOK
<1> HIDE DEF list
<1>6. CASE c # job[r].from
  <2>1. cache'[c] = cache[c] /\ stale'[c] = stale[c] BY <1>3, <1>6 DEF Typed, CopiesOK, Fresh
  <2> QED BY <1>3, <1>5, <2>1 DEF FreshOf, EffectiveRules
<1>7. CASE c = job[r].from
  <2>1. cache'[c] = [cache[c] EXCEPT ![list] = job[r].read] BY <1>3, <1>7 DEF Typed, CopiesOK
  <2>2. stale'[c] = IF r \in old THEN stale[c] \cup {list} ELSE stale[c] \ {list}
    BY <1>3, <1>7 DEF Fresh
  <2>3. CASE list = "labels"
    <3>1. /\ cache'[c].labels = job[r].read /\ cache'[c].policies = cache[c].policies
          /\ cache'[c].rules = cache[c].rules /\ cache'[c].buttons = cache[c].buttons
      BY <1>5, <2>1, <2>3 DEF CopyOK
    <3> QED BY <1>3, <1>4, <1>5, <2>2, <2>3, <3>1 DEF FreshOf, EffectiveRules
  <2>4. CASE list = "policies"
    <3>1. /\ cache'[c].policies = job[r].read /\ cache'[c].labels = cache[c].labels
          /\ cache'[c].rules = cache[c].rules /\ cache'[c].buttons = cache[c].buttons
      BY <1>5, <2>1, <2>4 DEF CopyOK
    <3> QED BY <1>3, <1>4, <1>5, <2>2, <2>4, <3>1 DEF FreshOf, EffectiveRules
  <2> QED BY <1>2, <2>3, <2>4
<1> QED BY <1>6, <1>7

\* What a client does by itself outdates the buttons of the others.
LEMMA LocalIsFresh ==
  ASSUME Typed, Fresh, NEW c \in Client, Local(c), NEW d \in Client PROVE FreshOf(d)'
<1>0. UNCHANGED <<mem, fw>>
  BY DEF Local, ListRules, LoadActions, AddButton, RemoveButton, SaveActions, storeVars
<1>1. FreshOf(d) /\ CopyOK(cache[d]) BY DEF Fresh, Typed, CopiesOK
<1>f. cache = [e \in Client |-> cache[e]] /\ stale = [e \in Client |-> stale[e]]
  BY DEF Typed, CopiesOK, Fresh
<1>2. CASE ListRules(c)
  <2>1. /\ UNCHANGED buttons
        /\ cache' = [cache EXCEPT ![c].rules = EffectiveRules]
        /\ stale' = [stale EXCEPT ![c] = @ \ {"rules"}]
    BY <1>2 DEF ListRules
  <2>2. /\ cache'[d].labels = cache[d].labels /\ cache'[d].policies = cache[d].policies
        /\ cache'[d].buttons = cache[d].buttons
        /\ cache'[d].rules = IF d = c THEN EffectiveRules ELSE cache[d].rules
    BY <1>1, <1>f, <2>1 DEF CopyOK
  <2>3. stale'[d] = IF d = c THEN stale[d] \ {"rules"} ELSE stale[d] BY <1>f, <2>1
  <2> QED BY <1>0, <1>1, <2>1, <2>2, <2>3 DEF FreshOf, EffectiveRules
<1>3. CASE LoadActions(c)
  <2>1. /\ UNCHANGED buttons
        /\ cache' = [cache EXCEPT ![c].buttons = buttons]
        /\ stale' = [stale EXCEPT ![c] = @ \ {"buttons"}]
    BY <1>3 DEF LoadActions
  <2>2. /\ cache'[d].labels = cache[d].labels /\ cache'[d].policies = cache[d].policies
        /\ cache'[d].rules = cache[d].rules
        /\ cache'[d].buttons = IF d = c THEN buttons ELSE cache[d].buttons
    BY <1>1, <1>f, <2>1 DEF CopyOK
  <2>3. stale'[d] = IF d = c THEN stale[d] \ {"buttons"} ELSE stale[d] BY <1>f, <2>1
  <2> QED BY <1>0, <1>1, <2>1, <2>2, <2>3 DEF FreshOf, EffectiveRules
<1>4. ASSUME NEW acts, SaveActions(c, acts) PROVE FreshOf(d)'
  <2>1. /\ buttons' = acts
        /\ cache' = [cache EXCEPT ![c].buttons = acts]
        /\ stale' = [e \in Client |-> IF e = c THEN stale[e] ELSE stale[e] \cup {"buttons"}]
    BY <1>4 DEF SaveActions
  <2>2. /\ cache'[d].labels = cache[d].labels /\ cache'[d].policies = cache[d].policies
        /\ cache'[d].rules = cache[d].rules
        /\ cache'[d].buttons = IF d = c THEN acts ELSE cache[d].buttons
    BY <1>1, <1>f, <2>1 DEF CopyOK
  <2>3. stale'[d] = IF d = c THEN stale[d] ELSE stale[d] \cup {"buttons"} BY <2>1
  <2> QED BY <1>0, <1>1, <2>1, <2>2, <2>3 DEF FreshOf, EffectiveRules
<1> QED BY <1>2, <1>3, <1>4 DEF Local, AddButton, RemoveButton

LEMMA FreshKept == ASSUME Typed, Fresh, [Next]_settingsVars PROVE Fresh'
<1>0. /\ JobsOK /\ StoresOK /\ CopiesOK /\ RequestsOK
      /\ job = [r \in Request |-> job[r]] /\ stale = [c \in Client |-> stale[c]]
      /\ \A r \in Request : WriteOK(job[r]) \/ job[r].pc # "write_fw"
  BY DEF Typed, SavedInv, JobsOK, RequestsOK, JobTyped, Fresh
<1>a. ASSUME NEW q \in Request, OutdatesRequest(q) PROVE FreshRequest(q)'
  BY <1>0, <1>a, RequestOutdated DEF Fresh
<1>b. ASSUME NEW d \in Client, Outdates(d) PROVE FreshOf(d)'
  BY <1>b, CopyOutdated DEF Fresh
<1>c. ASSUME UNCHANGED <<cache, stale>>, Hit = {}
      PROVE  stale' = [d \in Client |-> stale'[d]] /\ \A d \in Client : FreshOf(d)'
  BY <1>0, <1>b, <1>c DEF Outdates
<1>d. ASSUME NEW r \in Request, NEW j, job' = [job EXCEPT ![r] = j], Hit = {},
             old' = old \cup {r} \/ old' = old \ {r} \/ old' = old
      PROVE  \A q \in Request \ {r} : FreshRequest(q)'
  <2>1. \A q \in Request \ {r} : OutdatesRequest(q)
    BY <1>0, <1>d DEF OutdatesRequest
  <2> QED BY <1>a, <2>1
<1>1. ASSUME NEW r \in Request, HandlerStep(r) PROVE Fresh'
  <2>1. PICK j : /\ job' = [job EXCEPT ![r] = j] /\ j.pc \notin {"sent", "show"}
                 /\ j.pc = "write_fw" => /\ Open(job[r]) /\ WriteOK(j) /\ j.read = fw
                                         /\ j.op = job[r].op /\ j.body = job[r].body
    BY <1>1, HandlerMoves
  <2>2. job'[r] = j BY <1>0, <2>1
  <2>3. CASE Hit = {} /\ UNCHANGED stale /\ (old' = old \/ old' = old \ {r})
    <3>1. UNCHANGED cache BY <1>1, HandlerOutdates
    <3>2. fw' = fw BY <2>3 DEF Hit
    <3>3. FreshRequest(r)' BY <2>1, <2>2, <3>2 DEF FreshRequest, Current
    <3>4. \A q \in Request \ {r} : FreshRequest(q)' BY <1>d, <2>1, <2>3
    <3> QED BY <1>c, <2>3, <3>1, <3>3, <3>4 DEF Fresh
  <2>4. ASSUME NEW list, Outdate(r, list), Hit \subseteq {list}, job'[r].pc # "write_fw"
        PROVE  Fresh'
    <3>1. UNCHANGED cache BY <1>1, HandlerOutdates
    <3>2. stale' = [d \in Client |-> stale[d] \cup {list}] BY <2>4 DEF Outdate
    <3>3. \A d \in Client : Outdates(d) BY <2>4, <3>1, <3>2 DEF Outdates
    <3>4. \A q \in Request \ {r} : OutdatesRequest(q)
      BY <1>0, <2>1, <2>4 DEF Outdate, OutdatesRequest, Under
    <3>6. FreshRequest(r)' BY <2>1, <2>2, <2>4 DEF FreshRequest, Current
    <3>7. stale' = [d \in Client |-> stale'[d]] BY <3>2
    <3> QED BY <1>a, <1>b, <3>3, <3>4, <3>6, <3>7 DEF Fresh
  <2> QED BY <1>1, <2>3, <2>4, HandlerOutdates
<1>2. ASSUME NEW r \in Request, Aloof(r) PROVE Fresh'
  <2>1. ASSUME NEW c \in Client, NEW j, Sent(c, r, j) PROVE Fresh'
    <3>1. UNCHANGED <<mem, fw, buttons, cache, stale>> BY <2>1 DEF Sent, storeVars
    <3>2. Hit = {} BY <3>1 DEF Hit
    <3>3. FreshRequest(r)' BY <1>0, <2>1, SentIsFresh
    <3>4. \A q \in Request \ {r} : FreshRequest(q)' BY <1>d, <2>1, <3>2 DEF Sent
    <3> QED BY <1>c, <3>1, <3>2, <3>3, <3>4 DEF Fresh
  <2>2. ASSUME NEW j, Asked(r, j) PROVE Fresh'
    <3>1. UNCHANGED <<mem, fw, buttons, cache, stale>> BY <2>2 DEF Asked, storeVars
    <3>2. Hit = {} BY <3>1 DEF Hit
    <3>3. FreshRequest(r)' BY <1>0, <2>2, AskedIsFresh
    <3>4. \A q \in Request \ {r} : FreshRequest(q)' BY <1>d, <2>2, <3>2 DEF Asked
    <3> QED BY <1>c, <3>1, <3>2, <3>3, <3>4 DEF Fresh
  <2>3. ASSUME Show(r) \/ Dismiss(r) PROVE Fresh'
    <3>1. /\ UNCHANGED <<mem, fw, buttons>> /\ job' = [job EXCEPT ![r] = Idle]
          /\ old' = old \ {r}
      BY <2>3 DEF Show, Dismiss, Done, storeVars
    <3>2. Hit = {} BY <3>1 DEF Hit
    <3>3. \A q \in Request \ {r} : FreshRequest(q)' BY <1>d, <3>1, <3>2
    <3>4. job'[r].pc = "idle" BY <1>0, <3>1, IdleOK
    <3>5. FreshRequest(r)' BY <3>4 DEF FreshRequest, Current
    <3>6. CASE Dismiss(r)
      <4>1. UNCHANGED <<cache, stale>> BY <3>6 DEF Dismiss
      <4> QED BY <1>c, <3>2, <3>3, <3>5, <4>1 DEF Fresh
    <3>7. CASE Show(r)
      <4>1. \A d \in Client : FreshOf(d)' BY <3>7, ShownIsFresh
      <4>2. stale' = [d \in Client |-> stale'[d]] BY <1>0, <3>7 DEF Show
      <4> QED BY <3>3, <3>5, <4>1, <4>2 DEF Fresh
    <3> QED BY <2>3, <3>6, <3>7
  <2> QED BY <1>0, <1>2, <2>1, <2>2, <2>3, AloofMoves
<1>3. ASSUME NEW c \in Client, Local(c) PROVE Fresh'
  <2>1. UNCHANGED <<mem, fw, job, old>>
    BY <1>3 DEF Local, ListRules, LoadActions, AddButton, RemoveButton, SaveActions, storeVars
  <2>2. \A q \in Request : FreshRequest(q)'
    BY <2>1 DEF Fresh, FreshRequest, Current, EffectiveRules
  <2>3. \A d \in Client : FreshOf(d)' BY <1>3, LocalIsFresh
  <2>4. stale' = [d \in Client |-> stale'[d]]
    BY <1>0, <1>3 DEF Local, ListRules, LoadActions, AddButton, RemoveButton, SaveActions
  <2> QED BY <2>2, <2>3, <2>4 DEF Fresh
<1>4. CASE Restart
  <2>1. /\ mem' = file /\ fw' = <<>> /\ UNCHANGED <<buttons, cache>>
        /\ stale' = [c \in Client |-> stale[c] \cup Lost]
        /\ old' = {r \in Request : job[r].pc = "show" /\ (r \in old \/ ListOf(job[r].op) \in Lost)}
    BY <1>4 DEF Restart
  <2>2. Hit \subseteq Lost BY <2>1 DEF Hit, Lost
  <2>3. \A d \in Client : FreshOf(d)' BY <1>b, <2>1, <2>2 DEF Outdates
  <2>4. ASSUME NEW q \in Request PROVE FreshRequest(q)'
    <3>1. job'[q] = IF job[q].pc \in {"idle", "answered", "show"} THEN job[q] ELSE Becomes(q, "answered")
      BY <1>4 DEF Restart
    <3>2. CASE job[q].pc = "show"
      <4>1. job'[q] = job[q] BY <3>1, <3>2
      <4>2. OutdatesRequest(q) BY <2>1, <2>2, <3>2, <4>1 DEF OutdatesRequest
      <4> QED BY <1>a, <4>2
    <3>3. CASE job[q].pc # "show"
      <4>1. job'[q].pc \in {"idle", "answered"} BY <3>1, <3>3 DEF Becomes, Idle
      <4> QED BY <4>1 DEF FreshRequest, Current
    <3> QED BY <3>2, <3>3
  <2>5. stale' = [d \in Client |-> stale'[d]] BY <2>1
  <2> QED BY <2>3, <2>4, <2>5 DEF Fresh
<1>5. CASE UNCHANGED settingsVars
  <2>1. UNCHANGED <<mem, fw, buttons, job, cache, stale, old>>
    BY <1>5 DEF settingsVars, storeVars, tabVars
  <2>2. \A d \in Client : FreshOf(d)' BY <2>1 DEF Fresh, FreshOf, EffectiveRules
  <2>3. \A q \in Request : FreshRequest(q)'
    BY <2>1 DEF Fresh, FreshRequest, Current, EffectiveRules
  <2>4. stale' = [d \in Client |-> stale'[d]] BY <1>0, <2>1
  <2> QED BY <2>2, <2>3, <2>4 DEF Fresh
<1> QED BY <1>1, <1>2, <1>3, <1>4, <1>5, Steps

LEMMA InitFresh == Init => Fresh
<1> SUFFICES ASSUME Init PROVE Fresh OBVIOUS
<1>1. stale = [c \in Client |-> Lists] /\ \A r \in Request : job[r] = Idle BY DEF Init
<1> QED BY <1>1, IdleOK DEF Fresh, FreshOf, FreshRequest, Current, Lists, Served

\* The only steps that bring a request to "save" are its changes.
LEMMA OnlyChangesLand ==
  ASSUME Typed, NEW r \in Request, job[r].pc = "sent", job'[r].pc = "save", [Next]_settingsVars
  PROVE  \/ PutLabels(r) /\ job[r].op = "labels"
         \/ PutPolicies(r) /\ job[r].op = "policies"
         \/ SetInstalled(r) /\ job[r].op = "install"
<1>0. job = [q \in Request |-> job[q]] /\ JobOK(job[r]) /\ JobsOK /\ StoresOK /\ CopiesOK
  BY DEF Typed, SavedInv, JobsOK
<1>1. ASSUME NEW q \in Request, Aloof(q) PROVE FALSE
  <2>1. \E j : job' = [job EXCEPT ![q] = j] /\ j.pc # "save"
    BY <1>0, <1>1, AloofMoves, IdleOK DEF Sent, Asked, Show, Dismiss, Done
  <2> QED BY <1>0, <2>1
<1>2. ASSUME NEW q \in Request, q # r, HandlerStep(q) PROVE FALSE
  <2>1. \E j : job' = [job EXCEPT ![q] = j] BY <1>2, HandlerMoves
  <2> QED BY <1>0, <1>2, <2>1
<1>3. CASE Restart
  <2>1. job'[r] = job[r] \/ job'[r].pc = "answered" BY <1>3 DEF Restart, Becomes, Idle
  <2> QED BY <2>1
<1>4. CASE UNCHANGED settingsVars BY <1>4 DEF settingsVars
<1>6. ASSUME NEW c \in Client, Local(c) PROVE FALSE BY <1>6, LocalQuiet
<1>a. ~ (\E ok : Answer(r, ok))
  <2>1. ASSUME NEW ok, Answer(r, ok) PROVE FALSE
    <3>1. job'[r] = Answered(r, ok) BY <1>0, <2>1 DEF Answer, Answered
    <3> QED BY <3>1, AnsweredOK
  <2> QED BY <2>1
<1>5. ASSUME HandlerStep(r)
      PROVE  \/ PutLabels(r) /\ job[r].op = "labels"
             \/ PutPolicies(r) /\ job[r].op = "policies"
             \/ SetInstalled(r) /\ job[r].op = "install"
  <2>2. ~ Proceed(r, "merge") /\ ~ Proceed(r, "save_pool") BY <1>0 DEF Proceed, JobOK
  <2>3. ~ (Save(r) \/ SaveFails(r) \/ PutPool(r) \/ MergePool(r) \/ SavePool(r) \/ WriteRules(r))
    BY <1>a, <2>2 DEF Save, SaveFails, PutPool, MergePool, SavePool, WriteRules
  <2>4. ~ CopyRules(r)
    <3>1. ~ (job' = [job EXCEPT ![r].pc = "write_fw", ![r].read = fw]) BY <1>0 DEF JobOK
    <3> QED BY <1>a, <3>1 DEF CopyRules
  <2> QED BY <1>5, <2>3, <2>4 DEF HandlerStep, PutLabels, PutPolicies, SetInstalled, At
<1> QED BY <1>1, <1>2, <1>3, <1>4, <1>5, <1>6, Steps

\* A change that lands was not refused.
LEMMA LandedIsChange ==
  ASSUME JobsOK, NEW r \in Request, job'[r].pc = "save" PROVE ~ Refuse(r)
<1> SUFFICES ASSUME Refuse(r) PROVE FALSE OBVIOUS
<1>1. job'[r] = Answered(r, FALSE) BY DEF Refuse, Answer, Answered, JobsOK
<1> QED BY <1>1, AnsweredOK

LEMMA LabelsAreKept ==
  ASSUME Typed, Fresh, NEW r \in Request, [Next]_settingsVars PROVE KeepsLabels(r)
<1> SUFFICES ASSUME Lands(r, "labels"), job[r].target # {}, r \notin old
             PROVE  Untouched(r, Elements(mem.labels), Elements(mem'.labels), LabelName)
  BY DEF KeepsLabels
<1>1. job[r].pc = "sent" /\ job[r].op = "labels" /\ job'[r].pc = "save" BY DEF Lands, At
<1>2. PutLabels(r) BY <1>1, OnlyChangesLand
<1>3. mem' = [mem EXCEPT !.labels = job[r].body]
  BY <1>1, <1>2, LandedIsChange DEF PutLabels, Changed, Typed, SavedInv
<1>4. mem'.labels = job[r].body BY <1>3 DEF Typed, StoresOK, StoreOK
<1>5. SameLabels(job[r].body, mem.labels, job[r].target)
  BY <1>1 DEF Fresh, FreshRequest, Current
<1> QED BY <1>4, <1>5 DEF Untouched, LabelName, SameLabels

LEMMA PoliciesAreKept ==
  ASSUME Typed, Fresh, NEW r \in Request, [Next]_settingsVars PROVE KeepsPolicies(r)
<1> SUFFICES ASSUME Lands(r, "policies"), job[r].target # {}, r \notin old
             PROVE  Untouched(r, Elements(mem.policies), Elements(mem'.policies), PolicyName)
  BY DEF KeepsPolicies
<1>1. job[r].pc = "sent" /\ job[r].op = "policies" /\ job'[r].pc = "save" BY DEF Lands, At
<1>2. PutPolicies(r) BY <1>1, OnlyChangesLand
<1>3. mem' = [mem EXCEPT !.policies = job[r].body]
  BY <1>1, <1>2, LandedIsChange DEF PutPolicies, Changed, Typed, SavedInv
<1>4. mem'.policies = job[r].body BY <1>3 DEF Typed, StoresOK, StoreOK
<1>5. SamePolicies(job[r].body, mem.policies, job[r].target)
  BY <1>1 DEF Fresh, FreshRequest, Current
<1> QED BY <1>4, <1>5 DEF Untouched, PolicyName, SamePolicies

LEMMA RulesAreKept ==
  ASSUME Typed, Fresh, NEW r \in Request, [Next]_settingsVars
  PROVE  KeepsRules(r) /\ EditsWhatItSaw(r)
<1>0. /\ job = [q \in Request |-> job[q]] /\ JobOK(job[r]) /\ JobsOK /\ StoresOK /\ CopiesOK
      /\ hist.rev \in Nat /\ FreshRequest(r)
  BY DEF Typed, SavedInv, JobsOK, Fresh
<1>a. CASE job'[r] = job[r] \/ job'[r].pc \notin {"write_fw", "answered"}
  BY <1>a DEF KeepsRules, EditsWhatItSaw
<1>b. CASE ~ job'[r].ok /\ job'[r].pc # "write_fw" BY <1>b DEF KeepsRules, EditsWhatItSaw
<1>1. ASSUME NEW q \in Request, Aloof(q) PROVE job'[r] = job[r] \/ job'[r].pc \notin {"write_fw", "answered"}
  <2>1. \E j : job' = [job EXCEPT ![q] = j] /\ j.pc \notin {"write_fw", "answered"}
    BY <1>0, <1>1, AloofMoves, IdleOK DEF Sent, Asked, Show, Dismiss, Done
  <2> QED BY <1>0, <2>1
<1>2. ASSUME NEW q \in Request, q # r, HandlerStep(q) PROVE job'[r] = job[r]
  <2>1. \E j : job' = [job EXCEPT ![q] = j] BY <1>2, HandlerMoves
  <2> QED BY <1>0, <1>2, <2>1
<1>3. CASE WriteRules(r)
  <2>1. fw' = EditRules(job[r].read, job[r].op, job[r].body) /\ job[r].pc = "write_fw"
    BY <1>3 DEF WriteRules
  <2>2. r \notin old => job[r].read = fw BY <1>0, <2>1 DEF FreshRequest, Current
  <2> QED BY <2>1, <2>2 DEF KeepsRules, EditsWhatItSaw
<1>4. CASE CopyRules(r)
  <2>0. job[r].pc = "sent" /\ job[r].op \in {"fw_add", "fw_update", "fw_delete"}
    BY <1>4 DEF CopyRules
  <2>a. KeepsRules(r) BY <2>0 DEF KeepsRules
  <2> SUFFICES ASSUME job'[r].pc = "write_fw", job[r].op # "fw_add", r \notin old
               PROVE  job'[r].read = job[r].read
    BY <2>a DEF EditsWhatItSaw
  <2>1. ~ Answer(r, FALSE)
    <3> SUFFICES ASSUME Answer(r, FALSE) PROVE FALSE OBVIOUS
    <3>1. job'[r] = Answered(r, FALSE) BY <1>0 DEF Answer, Answered
    <3> QED BY <3>1, AnsweredOK
  <2>2. ~ (job[r].body.index > Len(fw)) BY <1>4, <2>1 DEF CopyRules
  <2>3. job'[r].read = fw
    <3>1. job'[r] = [job[r] EXCEPT !.pc = "write_fw", !.read = fw] BY <1>0, <1>4, <2>1 DEF CopyRules
    <3> QED BY <1>0, <3>1 DEF JobOK
  <2>4. job[r].op \in {"fw_update", "fw_delete"} BY <2>0
  <2>5. job[r].body.index \in Nat \ {0} /\ Len(fw) \in Nat
    BY <2>0, <2>4 DEF Typed, RequestsOK, JobTyped, RequestOK, Open, StoresOK
  <2>6. fw # <<>> BY <2>2, <2>5
  <2>7. job[r].read = EffectiveRules BY <1>0, <2>0, <2>4 DEF FreshRequest, Current
  <2> QED BY <2>3, <2>6, <2>7 DEF EffectiveRules
<1>5. ASSUME HandlerStep(r), ~ WriteRules(r), ~ CopyRules(r) PROVE KeepsRules(r) /\ EditsWhatItSaw(r)
  <2>1. job[r].pc # "write_fw"
    BY <1>5 DEF HandlerStep, PutLabels, PutPolicies, SetInstalled, At, Save, SaveFails, PutPool, MergePool,
       SavePool
  <2>2. PICK j : job' = [job EXCEPT ![r] = j] /\ (j.pc = "write_fw" => j.read = fw)
    BY <1>5, HandlerMoves
  <2>3. job'[r].pc # "write_fw"
    <3>1. ASSUME NEW ok, Answer(r, ok) PROVE job'[r].pc # "write_fw"
      <4>1. job'[r] = Answered(r, ok) BY <1>0, <3>1 DEF Answer, Answered
      <4> QED BY <4>1, AnsweredOK
    <3>2. ASSUME NEW s, NEW d, Changed(r, s, d) PROVE job'[r].pc # "write_fw"
      <4>1. job'[r] = Saving(r) BY <1>0, <3>2 DEF Changed, Saving
      <4> QED BY <1>0, <4>1, SavingOK
    <3>3. ASSUME NEW pc, pc # "write_fw", Proceed(r, pc) PROVE job'[r].pc # "write_fw"
      BY <1>0, <3>3 DEF Proceed, JobOK
    <3> QED BY <1>5, <3>1, <3>2, <3>3
            DEF HandlerStep, PutLabels, PutPolicies, SetInstalled, Refuse, Save, SaveFails, PutPool, MergePool,
                SavePool
  <2> QED BY <2>1, <2>3 DEF KeepsRules, EditsWhatItSaw
<1>6. CASE Restart
  <2>1. job'[r] = job[r] \/ (job'[r].pc = "answered" /\ ~ job'[r].ok)
    BY <1>6 DEF Restart, Becomes, Idle
  <2> QED BY <1>a, <1>b, <2>1
<1>7. CASE UNCHANGED settingsVars BY <1>a, <1>7 DEF settingsVars
<1>8. ASSUME NEW c \in Client, Local(c) PROVE job'[r] = job[r] BY <1>8, LocalQuiet
<1> QED BY <1>a, <1>1, <1>2, <1>3, <1>4, <1>5, <1>6, <1>7, <1>8, Steps

LEMMA ButtonsAreKept ==
  ASSUME Typed, Fresh, NEW c \in Client, [Next]_settingsVars PROVE KeepsButtons(c)
<1> SUFFICES ASSUME buttons' # buttons, cache'[c].buttons # cache[c].buttons, "buttons" \notin stale[c]
             PROVE  \/ \E x \in Button : buttons' = Append(buttons, x)
                    \/ \E i \in DOMAIN buttons : buttons' = RemoveAt(buttons, i)
  BY DEF KeepsButtons
<1>1. PICK d \in Client : AddButton(d) \/ RemoveButton(d)
  <2>1. \A r \in Request : ~ HandlerStep(r)
    BY DEF HandlerStep, PutLabels, PutPolicies, SetInstalled, Save, SaveFails, PutPool, MergePool,
       SavePool, CopyRules, WriteRules
  <2>2. ~ Restart /\ ~ UNCHANGED settingsVars BY DEF Restart, settingsVars
  <2>3. \A r \in Request : ~ Aloof(r)
    BY AloofMoves DEF Sent, Asked, Show, Dismiss, Typed
  <2>4. PICK d \in Client : Local(d) BY <2>1, <2>2, <2>3, Steps
  <2> QED BY <2>4 DEF Local, ListRules, LoadActions
<1>2. d = c
  <2>1. PICK acts : cache' = [cache EXCEPT ![d].buttons = acts]
    BY <1>1 DEF AddButton, RemoveButton, SaveActions
  <2>2. d # c => cache'[c] = cache[c] BY <2>1 DEF Typed, CopiesOK
  <2> QED BY <2>2
<1>3. cache[c].buttons = buttons BY DEF Fresh, FreshOf
<1> QED BY <1>1, <1>2, <1>3 DEF AddButton, RemoveButton, SaveActions

\* A request that replaces a whole list, or edits a rule by its index, undoes
\* only what its sender named, unless the list changed after the copy the
\* request was made of was read: any number of tabs, scripts and requests of
\* each, sent before the answers of earlier ones, answered in any order, with
\* failed saves, lost answers and restarts (crates/web, PolicyView; server.rs).
THEOREM StaleTabsUndo == Spec => UndoesOnlyWhenStale
<1>1. ASSUME Typed, Fresh, [Next]_settingsVars
      PROVE  [/\ \A r \in Request : /\ KeepsLabels(r) /\ KeepsPolicies(r)
                                    /\ KeepsRules(r) /\ EditsWhatItSaw(r)
              /\ \A c \in Client : KeepsButtons(c)]_settingsVars
  BY <1>1, LabelsAreKept, PoliciesAreKept, RulesAreKept, ButtonsAreKept
<1> QED BY <1>1, InitFresh, FreshKept, SpecTyped, PTL DEF Spec, UndoesOnlyWhenStale
=============================================================================
