------------------------------ MODULE Settings ------------------------------
(***************************************************************************)
(* What operators change in a running daemon: path labels and policies,    *)
(* overrides of pool settings and firewall rules (crates/app), from tabs   *)
(* of the dashboard (crates/web, PolicyView and PoolConfigModal) and from  *)
(* scripts; and the buttons a browser stores for its tabs (ActionsView).   *)
(*                                                                         *)
(* Labels, policies and overrides live in memory behind a mutex and in a   *)
(* JSON file that is written whole and renamed into place while the mutex  *)
(* is held.  A handler changes the memory under one acquisition and saves  *)
(* under another, so handlers interleave between the two; one action is    *)
(* the code under one acquisition.  Every click starts a request of its    *)
(* own: a client may have several, made of one copy of a list or of        *)
(* copies that crossed.                                                    *)
(***************************************************************************)
EXTENDS PolicyEval

CONSTANTS
  Client,       \* browser tabs and scripts
  Request,      \* the requests that may be under way at a time
  Label,        \* label names
  Blank,        \* a name of white space
  Policy,       \* the policies operators enter, uninstalled
  Script,       \* requests of scripts: [op, body]
  Packet,       \* the packets that policies route
  Field,        \* settings of a pool: algorithm, max_conns, drain
  Value,        \* their values
  Modal,        \* what the dialog sends: a value for every field
  Unknown,      \* an algorithm name that parse_algorithm refuses
  Configured,   \* the pool's settings in the configuration file
  Rule,         \* firewall rules operators enter
  ConfigRules,  \* those of the configuration file, a list
  Button,       \* buttons operators add
  DefaultButtons, \* those of a browser that stores none, a list
  MaxEdits,     \* bound on requests
  MaxCrashes    \* bound on restarts of the daemon

ASSUME SettingsAssumption ==
  /\ Configured \in [Field -> Value] /\ None \notin Value
  /\ Modal \subseteq [Field -> Value]
  /\ MaxEdits \in Nat /\ MaxCrashes \in Nat
  /\ \A p \in Policy : ~ p.installed /\ p.name \notin Label

Elements(s) == {s[i] : i \in DOMAIN s}

\* What operators enter: labels, and policies whether installed or not.
Scripted(op) == UNION {Elements(r.body) : r \in {x \in Script : x.op = op}}
Named   == Label \cup Scripted("labels")
Entered == {[p EXCEPT !.installed = FALSE] : p \in Policy \cup Scripted("policies")}

ASSUME RequestAssumption ==
  /\ \A p \in Policy \cup Scripted("policies") : IsPolicy(p)
  /\ \A r \in Script :
       /\ r.op \in {"labels", "policies"} => r.body \in Seq(Elements(r.body))
       /\ r.op = "install" => r.body.installed \in BOOLEAN
       /\ r.op \in {"fw_update", "fw_delete"} => r.body.index \in Nat \ {0}
  /\ \A pkt \in Packet : IsPacket(pkt)
  /\ ConfigRules \in Seq(Elements(ConfigRules))

VARIABLES
  mem,      \* path_policy: [labels, policies], two lists
  file,     \* path-policy.json
  over,     \* pool_overrides: [Field -> Value or None]
  overFile, \* pool-overrides.json
  live,     \* the settings the pool runs with
  fw,       \* firewall_rules, set at run time
  buttons,  \* the browser's sl-actions
  job,      \* per request, its content and where it or its handler is
  cache,    \* per client, the lists it has read
  edits,    \* the number of requests so far
  crashes,
  hist,     \* history of mem: number of its last change, and the labels that
            \* label edits removed since the policies were last set
  fileHist, \* hist as of the last save
  acked,    \* history: the last change of mem answered with success
  raced,    \* history: two changes of the pool's settings overlapped
  stale,    \* history: per client, the lists that changed since it read them
  old       \* history: the requests that are made of, or bring, a copy of
            \* something that changed since

storeVars == <<mem, file, hist, fileHist, acked>>
poolVars  == <<over, overFile, live, raced>>
tabVars   == <<cache, edits, stale, old>>
settingsVars == <<storeVars, poolVars, fw, buttons, job, tabVars, crashes>>

\* pc: where the request is; from: its client; target: the names an edit is
\* about; rev: the change of mem it made; read: the firewall list its client saw,
\* then the one its handler copied, or the list that is on its way to the client;
\* ok: its answer.
Idle == [pc |-> "idle", from |-> None, op |-> None, body |-> None, target |-> {},
         rev |-> 0, read |-> <<>>, ok |-> FALSE]

EmptyStore == [labels |-> <<>>, policies |-> <<>>]
NoOverride == [f \in Field |-> None]
Nothing    == [labels |-> <<>>, policies |-> <<>>, rules |-> <<>>, buttons |-> None]

\* What a copy is of.
Served     == {"labels", "policies", "rules"}
Lists      == Served \cup {"buttons"}

Overridden(base, o) == [f \in Field |-> IF o[f] = None THEN base[f] ELSE o[f]]

\* Neither file exists on the first start.
Init ==
  /\ mem = EmptyStore /\ file = EmptyStore
  /\ over = NoOverride /\ overFile = NoOverride
  /\ live = Overridden(Configured, overFile)
  /\ fw = <<>> /\ buttons = DefaultButtons
  /\ job = [r \in Request |-> Idle]
  /\ cache = [c \in Client |-> Nothing]
  /\ edits = 0 /\ crashes = 0
  /\ hist = [rev |-> 0, dropped |-> {}] /\ fileHist = hist /\ acked = 0
  /\ raced = FALSE
  /\ stale = [c \in Client |-> Lists]
  /\ old = {}

NamesOf(ps)    == {ps[i].name : i \in DOMAIN ps}
RemoveAt(s, i) == SubSeq(s, 1, i - 1) \o SubSeq(s, i + 1, Len(s))

At(r, op)      == job[r].pc = "sent" /\ job[r].op = op
Proceed(r, pc) == job' = [job EXCEPT ![r].pc = pc]
Becomes(r, pc) == [Idle EXCEPT !.pc = pc, !.from = job[r].from, !.op = job[r].op]
Answer(r, ok)  == job' = [job EXCEPT ![r] = [Becomes(r, "answered") EXCEPT !.ok = ok]]

\* The list a request replaces, edits or brings.
ListOf(op) == CASE op = "labels" -> "labels"
                [] op \in {"policies", "install"} -> "policies"
                [] op \in {"fw_add", "fw_update", "fw_delete"} -> "rules"
                [] OTHER -> None

\* History: request r changes a list, and every copy of it is out of date, that
\* of r's own client and those in its other requests too.
Outdate(r, list) ==
  /\ stale' = [c \in Client |-> stale[c] \cup {list}]
  /\ old' = (old \cup {q \in Request : /\ job[q].pc \in {"sent", "write_fw", "show"}
                                       /\ ListOf(job[q].op) = list}) \ {r}

-----------------------------------------------------------------------------
(* Labels and policies.                                                    *)

NamesAreGood(ls) ==
  /\ Blank \notin Elements(ls)
  /\ \A i, j \in DOMAIN ls : ls[i] = ls[j] => i = j

Changed(r, store, dropped) ==
  /\ mem' = store
  /\ hist' = [rev |-> hist.rev + 1, dropped |-> dropped]
  /\ job' = [job EXCEPT ![r] = [Becomes(r, "save") EXCEPT !.rev = hist.rev + 1]]

Refuse(r) == Answer(r, FALSE) /\ old' = old \ {r} /\ UNCHANGED <<mem, hist, stale>>

\* PUT /api/labels: replaces the whole list; policies that use a label that is
\* gone stay.
PutLabels(r) ==
  /\ At(r, "labels")
  /\ LET ls == job[r].body
     IN  IF NamesAreGood(ls)
         THEN /\ Changed(r, [mem EXCEPT !.labels = ls],
                         (hist.dropped \cup Elements(mem.labels)) \ Elements(ls))
              /\ Outdate(r, "labels")
         ELSE Refuse(r)
  /\ UNCHANGED <<file, fileHist, acked, poolVars, fw, buttons, cache, edits, crashes>>

\* Mutant: the labels of the default actions are not looked up.
UnknownLabelsOfRules(ps, labels) ==
  \E i \in DOMAIN ps :
    ~ UNION {ps[i].rules[j].labels : j \in DOMAIN ps[i].rules} \subseteq Elements(labels)

UnknownLabels(ps, labels) == \E i \in DOMAIN ps : ~ Uses(ps[i]) \subseteq Elements(labels)

\* PUT /api/policies: every policy is valid, and every label they use defined,
\* when the list is replaced.
PutPolicies(r) ==
  /\ At(r, "policies")
  /\ LET ps == job[r].body
     IN  IF (\A i \in DOMAIN ps : Valid(ps[i])) /\ ~ UnknownLabels(ps, mem.labels)
         THEN Changed(r, [mem EXCEPT !.policies = ps], {}) /\ Outdate(r, "policies")
         ELSE Refuse(r)
  /\ UNCHANGED <<file, fileHist, acked, poolVars, fw, buttons, cache, edits, crashes>>

\* POST /api/policies/:name/install and /uninstall: the first policy of the name.
SetInstalled(r) ==
  /\ At(r, "install")
  /\ LET hit == {i \in DOMAIN mem.policies : mem.policies[i].name = job[r].body.name}
     IN  IF hit = {}
         THEN Refuse(r)
         ELSE /\ Changed(r, [mem EXCEPT !.policies[FirstOf(hit)].installed = job[r].body.installed],
                         hist.dropped)
              /\ Outdate(r, "policies")
  /\ UNCHANGED <<file, fileHist, acked, poolVars, fw, buttons, cache, edits, crashes>>

Acknowledged(r) == acked' = IF job[r].rev > acked THEN job[r].rev ELSE acked

\* Mutant: the handler answers before it saves.
SaveLater(r) ==
  /\ job[r].pc = "save"
  /\ Answer(r, TRUE) /\ Acknowledged(r)
  /\ UNCHANGED <<mem, file, hist, fileHist, poolVars, fw, buttons, tabVars, crashes>>

\* save_path_policy: the memory as it is now, later changes of others included.
Save(r) ==
  /\ job[r].pc = "save"
  /\ file' = mem /\ fileHist' = hist
  /\ Answer(r, TRUE) /\ Acknowledged(r)
  /\ UNCHANGED <<mem, hist, poolVars, fw, buttons, tabVars, crashes>>

\* Writing, syncing or renaming fails: the memory keeps what the answer denies.
SaveFails(r) ==
  /\ job[r].pc \in {"save", "save_pool"}
  /\ Answer(r, FALSE)
  /\ UNCHANGED <<storeVars, poolVars, fw, buttons, tabVars, crashes>>

-----------------------------------------------------------------------------
(* PUT /api/lb/tcp/:name/config: settings take effect at once, then they   *)
(* are merged into the stored override, then saved.  (The check intervals  *)
(* are stored as well, but nothing reads them.)                            *)

\* parse_algorithm knows four names.
Misnamed(o) == \E f \in Field : o[f] = Unknown

PutPool(r) ==
  /\ At(r, "pool")
  /\ IF Misnamed(job[r].body)
     THEN Answer(r, FALSE) /\ UNCHANGED <<live, raced>>
     ELSE /\ live' = Overridden(live, job[r].body)
          /\ raced' = (raced \/ \E q \in Request : job[q].pc = "merge")
          /\ Proceed(r, "merge")
  /\ UNCHANGED <<storeVars, over, overFile, fw, buttons, tabVars, crashes>>

\* Mutant: the request's override takes the place of the stored one.
MergePoolReplaces(r) ==
  /\ job[r].pc = "merge"
  /\ over' = job[r].body
  /\ Proceed(r, "save_pool")
  /\ UNCHANGED <<storeVars, overFile, live, raced, fw, buttons, tabVars, crashes>>

MergePool(r) ==
  /\ job[r].pc = "merge"
  /\ over' = Overridden(over, job[r].body)
  /\ Proceed(r, "save_pool")
  /\ UNCHANGED <<storeVars, overFile, live, raced, fw, buttons, tabVars, crashes>>

SavePool(r) ==
  /\ job[r].pc = "save_pool"
  /\ overFile' = over
  /\ Answer(r, TRUE)
  /\ UNCHANGED <<storeVars, over, live, raced, fw, buttons, tabVars, crashes>>

-----------------------------------------------------------------------------
(* Firewall rules: the list is copied under one lock and written back      *)
(* under another.                                                          *)

CopyRules(r) ==
  /\ job[r].pc = "sent" /\ job[r].op \in {"fw_add", "fw_update", "fw_delete"}
  /\ IF job[r].op # "fw_add" /\ job[r].body.index > Len(fw)
     THEN Answer(r, FALSE)
     ELSE job' = [job EXCEPT ![r].pc = "write_fw", ![r].read = fw]
  /\ old' = old \ {r}
  /\ UNCHANGED <<storeVars, poolVars, fw, buttons, cache, edits, stale, crashes>>

\* Rules set at run time take the place of the configured ones, until the last
\* of them is deleted.
EffectiveRules == IF fw = <<>> THEN ConfigRules ELSE fw

EditRules(rules, op, body) ==
  CASE op = "fw_add"    -> Append(rules, body.rule)
    [] op = "fw_update" -> [rules EXCEPT ![body.index] = body.rule]
    [] op = "fw_delete" -> RemoveAt(rules, body.index)

WriteRules(r) ==
  /\ job[r].pc = "write_fw"
  /\ fw' = EditRules(job[r].read, job[r].op, job[r].body)
  /\ Answer(r, TRUE)
  /\ Outdate(r, "rules")
  /\ UNCHANGED <<storeVars, poolVars, buttons, cache, edits, crashes>>

-----------------------------------------------------------------------------
(* Clients.  A tab reads both lists when it is mounted, edits its copy and *)
(* sends it whole, as often as its buttons are clicked; after a success it *)
(* reads that list again, after an error it does not.  Nothing orders the  *)
(* requests of a tab, nor the answers that bring it lists.                 *)

Send(c, r, op, body, target) ==
  /\ job[r].pc = "idle" /\ edits < MaxEdits
  /\ job' = [job EXCEPT ![r] = [Idle EXCEPT !.pc = "sent", !.from = c, !.op = op, !.body = body,
                                            !.target = target, !.read = cache[c].rules]]
  /\ old' = IF ListOf(op) \in stale[c] THEN old \cup {r} ELSE old \ {r}
  /\ edits' = edits + 1
  /\ UNCHANGED <<storeVars, poolVars, fw, buttons, cache, stale, crashes>>

\* save_label for a new label, for an edited one (renamed, perhaps to a name
\* in use), delete_label.
NewLabel(c, r) == \E l \in Label \ Elements(cache[c].labels) :
  Send(c, r, "labels", Append(cache[c].labels, l), {l})

RenameLabel(c, r) == \E i \in DOMAIN cache[c].labels, l \in Label :
  Send(c, r, "labels", [cache[c].labels EXCEPT ![i] = l], {cache[c].labels[i], l})

\* Mutant: the filter is the wrong way round.
DeleteLabelKeepsOnly(c, r) == \E i \in DOMAIN cache[c].labels :
  Send(c, r, "labels", <<cache[c].labels[i]>>, {cache[c].labels[i]})

DeleteLabel(c, r) == \E i \in DOMAIN cache[c].labels :
  Send(c, r, "labels", RemoveAt(cache[c].labels, i), {cache[c].labels[i]})

\* create_policy: the form checks the policy against the tab's copy.
CreatePolicy(c, r) == \E p \in Policy :
  /\ Valid(p) /\ p.name \notin NamesOf(cache[c].policies)
  /\ Uses(p) \subseteq Elements(cache[c].labels)
  /\ Send(c, r, "policies", Append(cache[c].policies, p), {p.name})

\* The policies that are not named n, in their order.
Without(ps, n) ==
  LET kept[i \in 0 .. Len(ps)] ==
        IF i = 0 THEN <<>>
        ELSE IF ps[i].name = n THEN kept[i - 1] ELSE Append(kept[i - 1], ps[i])
  IN  kept[Len(ps)]

DeletePolicy(c, r) == \E n \in NamesOf(cache[c].policies) :
  Send(c, r, "policies", Without(cache[c].policies, n), {n})

ToggleInstall(c, r) == \E i \in DOMAIN cache[c].policies :
  LET p == cache[c].policies[i]
  IN  Send(c, r, "install", [name |-> p.name, installed |-> ~ p.installed], {})

\* The dialog shows the pool's algorithm and fixed defaults for the rest, and
\* sends all of them.
SaveConfig(c, r) == \E o \in Modal : Send(c, r, "pool", o, {})

RunScript(c, r) == \E s \in Script : Send(c, r, s.op, s.body, {})

\* The daemon answers a GET; the answer is on its way.
Read(r, c, op) ==
  /\ job' = [job EXCEPT ![r] = [Idle EXCEPT !.pc = "show", !.from = c, !.op = op,
                                            !.read = mem[ListOf(op)]]]
  /\ old' = old \ {r}

Mount(c, r) ==
  /\ job[r].pc = "idle" /\ edits < MaxEdits
  /\ \E list \in {"labels", "policies"} : Read(r, c, list)
  /\ edits' = edits + 1
  /\ UNCHANGED <<storeVars, poolVars, fw, buttons, cache, stale, crashes>>

\* GET /api/firewall lists the rules in effect, with the indices that edits of
\* run-time rules use.  (Scripts edit them, and wait for the list.)
ListRules(c) ==
  /\ cache' = [cache EXCEPT ![c].rules = EffectiveRules]
  /\ stale' = [stale EXCEPT ![c] = @ \ {"rules"}]
  /\ UNCHANGED <<storeVars, poolVars, fw, buttons, job, edits, old, crashes>>

EditRule(c, r) == \E i \in DOMAIN cache[c].rules :
  \/ Send(c, r, "fw_delete", [index |-> i], {})
  \/ \E x \in Rule : Send(c, r, "fw_update", [index |-> i, rule |-> x], {})

\* ActionsView: the tabs of a browser share what it stores; each loads it when
\* the view is mounted.
LoadActions(c) ==
  /\ cache' = [cache EXCEPT ![c].buttons = buttons]
  /\ stale' = [stale EXCEPT ![c] = @ \ {"buttons"}]
  /\ UNCHANGED <<storeVars, poolVars, fw, buttons, job, edits, old, crashes>>

SaveActions(c, acts) ==
  /\ edits < MaxEdits /\ edits' = edits + 1
  /\ buttons' = acts
  /\ cache' = [cache EXCEPT ![c].buttons = acts]
  /\ stale' = [d \in Client |-> IF d = c THEN stale[d] ELSE stale[d] \cup {"buttons"}]
  /\ UNCHANGED <<storeVars, poolVars, fw, job, old, crashes>>

AddButton(c)    == cache[c].buttons # None /\ \E x \in Button : SaveActions(c, Append(cache[c].buttons, x))
RemoveButton(c) == cache[c].buttons # None /\ \E i \in DOMAIN cache[c].buttons : SaveActions(c, RemoveAt(cache[c].buttons, i))

Done(r) == job' = [job EXCEPT ![r] = Idle] /\ old' = old \ {r}
Reads(r) == job[r].ok /\ job[r].op \in {"labels", "policies", "install"}

Refetch(r) ==
  /\ job[r].pc = "answered" /\ Reads(r)
  /\ Read(r, job[r].from, job[r].op)
  /\ UNCHANGED <<storeVars, poolVars, fw, buttons, cache, edits, stale, crashes>>

\* The list arrives and takes the place of the tab's copy, newer or not.
Show(r) ==
  /\ job[r].pc = "show"
  /\ LET c    == job[r].from
         list == ListOf(job[r].op)
     IN  /\ cache' = [cache EXCEPT ![c][list] = job[r].read]
         /\ stale' = [stale EXCEPT ![c] = IF r \in old THEN @ \cup {list} ELSE @ \ {list}]
  /\ Done(r)
  /\ UNCHANGED <<storeVars, poolVars, fw, buttons, edits, crashes>>

\* It fails on the way, or there is nothing to read: the tab keeps its copy.
Dismiss(r) ==
  /\ job[r].pc \in {"answered", "show"}
  /\ Done(r)
  /\ UNCHANGED <<storeVars, poolVars, fw, buttons, cache, edits, stale, crashes>>

-----------------------------------------------------------------------------

\* The lists that a restart takes back to what was saved or configured.
Lost == {list \in {"labels", "policies"} : file[list] # mem[list]}
          \cup (IF fw = <<>> THEN {} ELSE {"rules"})

\* The daemon dies and starts again: files are loaded, stored overrides are
\* applied to the pool, runtime firewall rules are gone, requests fail.
Restart ==
  /\ crashes < MaxCrashes
  /\ crashes' = crashes + 1
  /\ mem' = file /\ hist' = fileHist
  /\ over' = overFile /\ live' = Overridden(Configured, overFile)
  /\ fw' = <<>>
  /\ job' = [r \in Request |-> IF job[r].pc \in {"idle", "answered", "show"} THEN job[r]
                               ELSE Becomes(r, "answered")]
  /\ raced' = FALSE
  /\ stale' = [c \in Client |-> stale[c] \cup Lost]
  /\ old' = {r \in Request : job[r].pc = "show" /\ (r \in old \/ ListOf(job[r].op) \in Lost)}
  /\ UNCHANGED <<file, fileHist, acked, overFile, buttons, cache, edits>>

HandlerStep(r) ==
  \/ PutLabels(r) \/ PutPolicies(r) \/ SetInstalled(r) \/ Save(r) \/ SaveFails(r)
  \/ PutPool(r) \/ MergePool(r) \/ SavePool(r)
  \/ CopyRules(r) \/ WriteRules(r)

Click(c, r) ==
  \/ NewLabel(c, r) \/ RenameLabel(c, r) \/ DeleteLabel(c, r)
  \/ CreatePolicy(c, r) \/ DeletePolicy(c, r) \/ ToggleInstall(c, r)
  \/ SaveConfig(c, r) \/ RunScript(c, r) \/ EditRule(c, r)

Local(c) == ListRules(c) \/ LoadActions(c) \/ AddButton(c) \/ RemoveButton(c)

AnswerStep(r) == Refetch(r) \/ Show(r) \/ Dismiss(r)

Next ==
  \/ \E r \in Request : HandlerStep(r) \/ AnswerStep(r)
  \/ \E c \in Client, r \in Request : Click(c, r) \/ Mount(c, r)
  \/ \E c \in Client : Local(c)
  \/ Restart

Spec == Init /\ [][Next]_settingsVars

-----------------------------------------------------------------------------
(* Properties.                                                             *)

\* A change of labels or policies that was answered with success is in the
\* file, in its own version or a later one, whatever other handlers save
\* around it; so a restart does not lose it ("persisted atomically").
AckedIsSaved == acked <= fileHist.rev /\ fileHist.rev <= hist.rev

\* A policy names a label that does not exist only after the labels were
\* edited: no order of label and policy requests, failed saves and restarts
\* lets an unknown label in (api_policies_put).
DanglingOnlyByLabels ==
  \A i \in DOMAIN mem.policies :
    Uses(mem.policies[i]) \subseteq Elements(mem.labels) \cup hist.dropped

\* Unless two requests overlapped, the pool runs with what is stored for it
\* over what is configured; a restart does not change that.
LiveIsStored ==
  (\A r \in Request : job[r].pc # "merge") /\ ~ raced => live = Overridden(Configured, over)

\* Every stored policy is one that operators entered and routes every packet by
\* its first matching rule, the prefixes read bit by bit, whatever requests,
\* failed saves and restarts it went through (Policy::evaluate, cidr_contains).
Routing == {p \in Entered : \A pkt \in Packet : TakesFirstMatch(p, pkt)}
RoutesPackets ==
  \A i \in DOMAIN mem.policies : [mem.policies[i] EXCEPT !.installed = FALSE] \in Routing

Lands(r, op)   == At(r, op) /\ job'[r].pc = "save"
Untouched(r, S, T, Name(_)) == {e \in S : Name(e) \notin job[r].target} = {e \in T : Name(e) \notin job[r].target}
LabelName(l)   == l
PolicyName(p)  == p.name

KeepsLabels(r) ==
  Lands(r, "labels") /\ job[r].target # {} /\ r \notin old =>
    Untouched(r, Elements(mem.labels), Elements(mem'.labels), LabelName)
KeepsPolicies(r) ==
  Lands(r, "policies") /\ job[r].target # {} /\ r \notin old =>
    Untouched(r, Elements(mem.policies), Elements(mem'.policies), PolicyName)
KeepsRules(r) ==
  job[r].pc = "write_fw" /\ job'[r].ok /\ job'[r].pc = "answered" /\ r \notin old =>
    fw' = EditRules(fw, job[r].op, job[r].body)
EditsWhatItSaw(r) ==
  job[r].pc = "sent" /\ job'[r].pc = "write_fw" /\ job[r].op # "fw_add" /\ r \notin old =>
    job'[r].read = job[r].read
KeepsButtons(c) ==
  buttons' # buttons /\ cache'[c].buttons # cache[c].buttons /\ "buttons" \notin stale[c] =>
    \/ \E x \in Button : buttons' = Append(buttons, x)
    \/ \E i \in DOMAIN buttons : buttons' = RemoveAt(buttons, i)

\* A request that replaces a whole list undoes an entry it does not name only
\* when the list was changed after the copy it was made of was read, by anyone,
\* an earlier request of the same tab included, or taken back by a restart:
\* nothing else, neither failed saves nor restarts that lose nothing nor lists
\* that arrive in another order than they were read in, makes a tab undo what it
\* has seen.  The buttons of a browser likewise.  An edit of a firewall rule
\* changes the rule its sender saw at that index and keeps all others, unless
\* rules changed since the sender read them or between the handler's copy and
\* its write-back.
UndoesOnlyWhenStale ==
  [][/\ \A r \in Request : /\ KeepsLabels(r) /\ KeepsPolicies(r)
                           /\ KeepsRules(r) /\ EditsWhatItSaw(r)
     /\ \A c \in Client : KeepsButtons(c)]_settingsVars
=============================================================================
