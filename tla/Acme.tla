-------------------------------- MODULE Acme --------------------------------
(***************************************************************************)
(* Certificates (crates/acme): the daily renewal loop and issuances asked  *)
(* for through the API run the same issue_now, unaware of each other.  An  *)
(* issuance obtains a certificate over ACME, proving its domains with a    *)
(* challenge listener (HTTP-01) or TXT records (DNS-01), and writes        *)
(* certificate, key and issue date.  Pools load the pair at start and when *)
(* told to reload.  One action is the code between two awaits that others  *)
(* can observe; the CA, the DNS provider and the disk may fail any call,   *)
(* and the CA may leave one unanswered for ever: its client has no         *)
(* timeout, the DNS provider's has one.                                    *)
(***************************************************************************)
EXTENDS Naturals

CONSTANTS
  Loop,        \* the renewal loop
  Api,         \* issuances through POST /api/acme/issue
  Domain,      \* cfg.domains
  RenewDays,   \* cfg.renew_days
  Configs,     \* configurations: [dns01, tls], tls when a pool uses the files
  MaxDay,      \* bound on days
  MaxPairs,    \* bound on certificates obtained
  MaxCrashes,  \* bound on crashes
  None

Issuer == {Loop} \cup Api

ASSUME AcmeAssumption ==
  /\ Loop \notin Api /\ Domain # {}
  /\ RenewDays \in Nat
  /\ Configs \subseteq [dns01: BOOLEAN, tls: BOOLEAN]
  /\ MaxDay \in Nat /\ MaxPairs \in Nat /\ MaxCrashes \in Nat
  /\ None \notin Issuer \cup Nat

VARIABLES
  cfg,       \* the configuration
  order,     \* per issuer, where its issuance is: "asleep" when there is none,
             \* "gone" when its task ended in a panic
  late,      \* the issuers whose 120 seconds of waiting are over
  hung,      \* those with a request that the CA never answers
  port,      \* whose listener for HTTP-01 is up, or None
  created,   \* per issuer, the domains its order created TXT records for
  txt,       \* TXT records at the provider: <<issuer, domain>>
  deleting,  \* spawned deletions
  pair,      \* per issuer, the number of the certificate and key it obtained
  cert, key, certTmp, keyTmp, \* the files: the pair they belong to, 0 when missing
  issued,    \* the .issued file: a day, or None
  served,    \* the pair the pool's acceptor uses, 0 for none
  up,        \* whether the daemon runs
  day, checked, \* today, and the day the loop looked last
  made, crashes,
  lost,      \* history: TXT records whose deletion failed or was never spawned
  orphan,    \* history: a failed request left the listener up
  torn       \* history: issuances overlapped, or one was cut short, while writing

files    == <<cert, key, certTmp, keyTmp, issued>>
clock    == <<day, checked>>
dnsVars  == <<created, txt, deleting, lost>>
portVars == <<port, orphan>>
waitVars == <<late, hung>>
orderVars == <<order, pair, made, waitVars>>
vars == <<cfg, orderVars, portVars, dnsVars, files, served, up, clock, crashes, torn>>

Pc == {"asleep", "gone", "account", "order", "challenge", "ready", "poll", "finalize", "download",
       "write_cert", "write_key", "rename_cert", "rename_key", "stamp"}

\* Where an answer of the CA is awaited.
Asking == {"account", "order", "ready", "poll", "finalize", "download"}

AcmeTypeOK ==
  /\ cfg \in Configs
  /\ order \in [Issuer -> Pc] /\ late \subseteq Issuer /\ hung \subseteq Issuer
  /\ pair \in [Issuer -> Nat] /\ made \in Nat
  /\ port \in Issuer \cup {None} /\ orphan \in BOOLEAN
  /\ created \in [Issuer -> SUBSET Domain]
  /\ txt \cup deleting \cup lost \subseteq Issuer \X Domain
  /\ cert \in Nat /\ key \in Nat /\ certTmp \in Nat /\ keyTmp \in Nat /\ served \in Nat
  /\ issued \in Nat \cup {None} /\ checked \in Nat \cup {None}
  /\ day \in Nat /\ crashes \in Nat /\ up \in BOOLEAN /\ torn \in BOOLEAN

Init ==
  /\ cfg \in Configs
  /\ order = [i \in Issuer |-> "asleep"] /\ late = {} /\ hung = {}
  /\ port = None /\ orphan = FALSE
  /\ created = [i \in Issuer |-> {}] /\ txt = {} /\ deleting = {} /\ lost = {}
  /\ pair = [i \in Issuer |-> 0]
  /\ certTmp = 0 /\ keyTmp = 0
  /\ day = 0 /\ checked = None /\ crashes = 0
  /\ torn = FALSE
  \* Without certificate, or with one put there by hand.
  /\ \/ ~ cfg.tls /\ cert = 0 /\ key = 0 /\ issued = None /\ made = 0
     \/ cert = 1 /\ key = 1 /\ issued \in {None, 0} /\ made = 1
  /\ up = TRUE
  /\ served = IF cfg.tls THEN cert ELSE 0

Goto(i, pc) == order' = [order EXCEPT ![i] = pc]

\* The pcs at which records created so far are guarded by CleanupDns.
Guarded == {"ready", "poll", "finalize", "download"}

\* What becomes of i's records when obtain_certificate returns: deletions are
\* spawned if the guard is in place, else nothing happens to them.
DropRecords(i) ==
  LET mine == {<<i, d>> : d \in created[i]}
  IN  /\ created' = [created EXCEPT ![i] = {}]
      /\ IF order[i] \in Guarded
         THEN deleting' = deleting \cup mine /\ UNCHANGED lost
         ELSE lost' = lost \cup mine /\ UNCHANGED deleting
      /\ UNCHANGED txt

Ends(i, pc) ==
  /\ Goto(i, pc)
  /\ DropRecords(i)
  /\ late' = late \ {i}
  /\ UNCHANGED <<cfg, pair, made, hung, files, served, up, clock, crashes, torn>>

\* An error return; the listener is aborted only where the code says so.
Fail(i)     == Ends(i, "asleep")
Leave(i)    == orphan' = (orphan \/ port = i) /\ UNCHANGED port
Shutdown(i) == port' = (IF port = i THEN None ELSE port) /\ UNCHANGED orphan

-----------------------------------------------------------------------------
(* Starting an issuance.                                                   *)

\* needs_renewal: a file is missing, or the issue date is missing or old.
Due ==
  \/ cert = 0 \/ key = 0 \/ issued = None
  \/ issued # None /\ day - issued >= (IF RenewDays = 0 THEN 1 ELSE RenewDays)

\* renew_loop looks at start and once a day.
Wake ==
  /\ up /\ order[Loop] = "asleep" /\ checked # day
  /\ checked' = day
  /\ IF Due /\ made < MaxPairs THEN Goto(Loop, "account") ELSE UNCHANGED order
  /\ UNCHANGED <<cfg, pair, made, waitVars, portVars, dnsVars, files, served, up, day, crashes, torn>>

\* api_acme_issue spawns an issuance, whatever runs already.
Issue(i) ==
  /\ up /\ i \in Api /\ order[i] = "asleep" /\ made < MaxPairs
  /\ Goto(i, "account")
  /\ UNCHANGED <<cfg, pair, made, waitVars, portVars, dnsVars, files, served, up, clock, crashes, torn>>

Advance(i, from, to) ==
  /\ order[i] = from
  /\ Goto(i, to)
  /\ UNCHANGED <<cfg, pair, made, waitVars, portVars, dnsVars, files, served, up, clock, crashes, torn>>

\* The stored account is used, or a new one is created and stored.
Account(i) == Advance(i, "account", "order")

NewOrder(i) == Advance(i, "order", "challenge")

-----------------------------------------------------------------------------
(* Challenges.                                                             *)

\* One TXT record after the other.
CreateTxt(i) ==
  /\ cfg.dns01 /\ order[i] = "challenge"
  /\ \E d \in Domain \ created[i] :
       /\ created' = [created EXCEPT ![i] = @ \cup {d}]
       /\ txt' = txt \cup {<<i, d>>}
  /\ UNCHANGED <<cfg, orderVars, portVars, deleting, lost, files, served, up, clock, crashes, torn>>

\* The record is created, but the answer is an error or does not come in time.
CreateTxtLost(i) ==
  /\ cfg.dns01 /\ order[i] = "challenge"
  /\ \E d \in Domain \ created[i] :
       /\ txt' = txt \cup {<<i, d>>}
       /\ lost' = lost \cup {<<i, e>> : e \in created[i] \cup {d}}
  /\ created' = [created EXCEPT ![i] = {}]
  /\ Goto(i, "asleep")
  /\ UNCHANGED <<cfg, pair, made, waitVars, portVars, deleting, files, served, up, clock, crashes, torn>>

\* The CA may offer the challenge for some domains only; with none the
\* issuance fails.
Offered(i) ==
  /\ cfg.dns01 /\ created[i] # {}
  /\ Advance(i, "challenge", "ready")

\* The listener of another issuance, or one that was left behind, has the port.
StartServer(i) ==
  /\ ~ cfg.dns01 /\ order[i] = "challenge"
  /\ port = None
  /\ port' = i
  /\ Goto(i, "ready")
  /\ UNCHANGED <<cfg, pair, made, waitVars, orphan, dnsVars, files, served, up, clock, crashes, torn>>

\* A request to the CA or the DNS provider fails, the port is taken or no
\* challenge is offered: the error is returned at once.
CallFails(i) ==
  /\ order[i] \in Asking \cup {"challenge"}
  /\ Fail(i)
  /\ Leave(i)

\* There are no root certificates, or a domain is not ASCII: the task ends, the
\* loop for good.
Panic(i) ==
  /\ order[i] \in {"account", "finalize"}
  /\ Ends(i, IF i = Loop THEN "gone" ELSE "asleep")
  /\ Leave(i)

\* The CA takes a request and never answers.
Silent(i) ==
  /\ order[i] \in Asking /\ i \notin hung
  /\ hung' = hung \cup {i}
  /\ UNCHANGED <<cfg, order, pair, made, late, portVars, dnsVars, files, served, up, clock, crashes, torn>>

SetReady(i) == Advance(i, "ready", "poll")
Ready(i)    == Advance(i, "poll", "finalize")
Finalize(i) == Advance(i, "finalize", "download")

\* The order enters another state than ready, valid or pending.
Invalid(i) == order[i] = "poll" /\ Fail(i) /\ Shutdown(i)

\* 120 seconds for both waits together.
Expire(i) ==
  /\ order[i] \in {"poll", "finalize", "download"} /\ i \notin late
  /\ late' = late \cup {i}
  /\ UNCHANGED <<cfg, order, pair, made, hung, portVars, dnsVars, files, served, up, clock, crashes, torn>>

\* Mutant: the listener stays when the deadline passes.
DeadlineKeepsServer(i) == order[i] \in {"poll", "download"} /\ i \in late /\ Fail(i) /\ UNCHANGED portVars

\* Mutant: only the first wait has a deadline.
DeadlineOnce(i) == order[i] = "poll" /\ i \in late /\ Fail(i) /\ Shutdown(i)

\* The order is pending, or there is no certificate yet: the time is looked at
\* only now that the CA has said so.
Deadline(i) == order[i] \in {"poll", "download"} /\ i \in late /\ Fail(i) /\ Shutdown(i)

\* The certificate arrives: obtain_certificate returns it with a new key.
Certificate(i) ==
  /\ order[i] = "download"
  /\ Goto(i, "write_cert")
  /\ made' = made + 1
  /\ pair' = [pair EXCEPT ![i] = made + 1]
  /\ late' = late \ {i}
  /\ Shutdown(i)
  /\ DropRecords(i)
  /\ UNCHANGED <<cfg, hung, files, served, up, clock, crashes, torn>>

\* A spawned deletion succeeds or fails.
DeleteTxt(t) ==
  /\ t \in deleting
  /\ deleting' = deleting \ {t}
  /\ \/ /\ txt' = IF t \in lost \/ t[2] \in created[t[1]] THEN txt ELSE txt \ {t}
        /\ UNCHANGED lost
     \/ lost' = lost \cup {t} /\ UNCHANGED txt
  /\ UNCHANGED <<cfg, orderVars, portVars, created, files, served, up, clock, crashes, torn>>

-----------------------------------------------------------------------------
(* Writing the files: two temporary files, two renames, the issue date.    *)
(* Issuances share the names of the temporary files.                       *)

Writing(i) == order[i] \in {"write_key", "rename_cert", "rename_key"}
Overlap(i) == torn' = (torn \/ \E k \in Issuer \ {i} : Writing(k))

WriteCert(i) ==
  /\ order[i] = "write_cert"
  /\ certTmp' = pair[i]
  /\ Goto(i, "write_key")
  /\ Overlap(i)
  /\ UNCHANGED <<cfg, pair, made, waitVars, portVars, dnsVars, cert, key, keyTmp, issued, served, up, clock, crashes>>

\* Mutant: an error of writing the key goes unnoticed.
WriteKeyMaybe(i) ==
  /\ order[i] = "write_key"
  /\ keyTmp' \in {keyTmp, pair[i]}
  /\ Goto(i, "rename_cert")
  /\ UNCHANGED <<cfg, pair, made, waitVars, portVars, dnsVars, cert, key, certTmp, issued, served, up, clock, crashes, torn>>

WriteKey(i) ==
  /\ order[i] = "write_key"
  /\ keyTmp' = pair[i]
  /\ Goto(i, "rename_cert")
  /\ UNCHANGED <<cfg, pair, made, waitVars, portVars, dnsVars, cert, key, certTmp, issued, served, up, clock, crashes, torn>>

RenameCert(i) ==
  /\ order[i] = "rename_cert" /\ certTmp # 0
  /\ cert' = certTmp /\ certTmp' = 0
  /\ Goto(i, "rename_key")
  /\ UNCHANGED <<cfg, pair, made, waitVars, portVars, dnsVars, key, keyTmp, issued, served, up, clock, crashes, torn>>

RenameKey(i) ==
  /\ order[i] = "rename_key" /\ keyTmp # 0
  /\ key' = keyTmp /\ keyTmp' = 0
  /\ Goto(i, "stamp")
  /\ UNCHANGED <<cfg, pair, made, waitVars, portVars, dnsVars, cert, certTmp, issued, served, up, clock, crashes, torn>>

Return(i) == Goto(i, "asleep") /\ pair' = [pair EXCEPT ![i] = 0]

Stamp(i) ==
  /\ order[i] = "stamp"
  /\ issued' = day
  /\ Return(i)
  /\ UNCHANGED <<cfg, made, waitVars, portVars, dnsVars, cert, key, certTmp, keyTmp, served, up, clock, crashes, torn>>

\* A write or rename fails, or finds that another issuance took the file.
DiskFails(i) ==
  /\ order[i] \in {"write_cert", "write_key", "rename_cert", "rename_key", "stamp"}
  /\ Return(i)
  /\ torn' = (torn \/ order[i] = "rename_key")
  /\ UNCHANGED <<cfg, made, waitVars, portVars, dnsVars, files, served, up, clock, crashes>>

-----------------------------------------------------------------------------
(* Pools, days, crashes.                                                   *)

\* reload_tls: a key that does not belong to the certificate is refused, and
\* the acceptor stays.  (Both files are read in one step: reading them around
\* a rename ends like reading them between two renames.)
Reload ==
  /\ cfg.tls /\ up
  /\ cert # 0 /\ cert = key
  /\ served' = cert
  /\ UNCHANGED <<cfg, orderVars, portVars, dnsVars, files, up, clock, crashes, torn>>

NextDay ==
  /\ day < MaxDay
  /\ day' = day + 1
  /\ UNCHANGED <<cfg, orderVars, portVars, dnsVars, files, served, up, checked, crashes, torn>>

\* Everything but files and DNS records goes.
Crash ==
  /\ up /\ crashes < MaxCrashes
  /\ crashes' = crashes + 1
  /\ up' = FALSE
  /\ torn' = (torn \/ \E i \in Issuer : order[i] = "rename_key")
  /\ order' = [i \in Issuer |-> "asleep"] /\ late' = {} /\ hung' = {}
  /\ pair' = [i \in Issuer |-> 0]
  /\ port' = None /\ orphan' = FALSE
  /\ created' = [i \in Issuer |-> {}] /\ deleting' = {} /\ lost' = txt
  /\ served' = 0
  /\ UNCHANGED <<cfg, made, txt, files, clock>>

\* A pool that cannot load its pair ends the daemon before the renewal loop
\* is started.
Boot ==
  /\ ~ up
  /\ cfg.tls => cert # 0 /\ cert = key
  /\ up' = TRUE
  /\ served' = IF cfg.tls THEN cert ELSE 0
  /\ checked' = None
  /\ UNCHANGED <<cfg, orderVars, portVars, dnsVars, files, day, crashes, torn>>

-----------------------------------------------------------------------------

Obtain(i) ==
  /\ i \notin hung
  /\ \/ Account(i) \/ NewOrder(i) \/ CreateTxt(i) \/ CreateTxtLost(i) \/ Offered(i) \/ StartServer(i)
     \/ SetReady(i) \/ Ready(i) \/ Finalize(i) \/ Certificate(i)
     \/ CallFails(i) \/ Panic(i) \/ Invalid(i) \/ Deadline(i)

Write(i) ==
  \/ WriteCert(i) \/ WriteKey(i) \/ RenameCert(i) \/ RenameKey(i) \/ Stamp(i)
  \/ DiskFails(i)

Next ==
  \/ \E i \in Issuer : Obtain(i) \/ Silent(i) \/ Expire(i) \/ Write(i) \/ Issue(i)
  \/ \E t \in deleting : DeleteTxt(t)
  \/ Wake \/ Reload \/ NextDay \/ Crash \/ Boot

Spec == Init /\ [][Next]_vars

\* A request that is not left unanswered is answered, one way or the other: the
\* waits may be told "not yet" any number of times.  Time passes, files are
\* written, the loop's timer fires, and a process manager starts the daemon
\* again.
Answered(i) ==
  /\ i \notin hung /\ order[i] \notin {"poll", "download"}
  /\ \/ Account(i) \/ NewOrder(i) \/ Offered(i) \/ StartServer(i)
     \/ SetReady(i) \/ Finalize(i) \/ CallFails(i)

NotYet(i) == i \notin hung /\ Deadline(i)

Fairness ==
  /\ \A i \in Issuer : /\ WF_vars(Answered(i)) /\ WF_vars(Expire(i)) /\ WF_vars(NotYet(i))
                       /\ WF_vars(Write(i))
  /\ WF_vars(Wake) /\ WF_vars(Boot)

FairSpec == Spec /\ Fairness

-----------------------------------------------------------------------------
(* Properties.                                                             *)

\* Certificate and key on disk belong together, except between the renames of
\* an issuance, or after two issuances overlapped or one was cut short there:
\* no other step or failure separates them (renew.rs, issue_now).
PairTogether ==
  cert # key => torn \/ \E i \in Issuer : order[i] = "rename_key"

\* The challenge port is taken by an order that is being validated or was
\* given up on after a failed request or a panic, never by one that ended well,
\* timed out or was refused; every TXT record belongs to an order under way, is
\* being deleted, or is one whose deletion failed, whose creation was answered
\* with an error, or that a crash, or a failure before the guard is in place,
\* left (obtain.rs, CleanupDns and shutdown).
ResourcesAccounted ==
  /\ port # None => order[port] \in Guarded \/ orphan
  /\ \A t \in txt : t \in deleting \cup lost \/ t[2] \in created[t[1]]
  /\ \A i \in Issuer : created[i] # {} => order[i] \in {"challenge"} \cup Guarded

\* The renewal loop comes back from an issuance unless the CA leaves one of its
\* requests unanswered or it panics, however often the CA says "not yet", and
\* whatever becomes of issuances through the API: one that hangs with the
\* challenge port does not hold it up (obtain.rs, both waits).
LoopComesBack ==
  order[Loop] \notin {"asleep", "gone"} ~> order[Loop] \in {"asleep", "gone"} \/ Loop \in hung
=============================================================================
