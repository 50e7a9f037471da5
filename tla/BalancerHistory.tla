-------------------------- MODULE BalancerHistory ---------------------------
(***************************************************************************)
(* LoadBalancer with history variables: the HTTP/2 uploads that released a *)
(* backend, what each choosing task has seen of its snapshot, and whether  *)
(* the configuration reload in progress has the list to itself.            *)
(***************************************************************************)
EXTENDS LoadBalancer

VARIABLES
  uploads,  \* per object, the uploads that released it, modulo the counter's width
  steady,   \* per client, the objects of its snapshot that were healthy and
            \* could be dialled ever since it began to choose
  revived,  \* per client, whether one of them turned healthy meanwhile
  calm      \* no other call has changed the list since the reload began

history == <<uploads, steady, revived, calm>>

HInit ==
  /\ Init
  /\ uploads = [r \in DOMAIN backends |-> [k \in 1 .. MaxObjects |-> 0]]
  /\ steady = [c \in Client |-> {}] /\ revived = [c \in Client |-> FALSE]
  /\ calm = TRUE

\* Client c's upload releases object k of route r in this step.
Releases(c, r, k) ==
  /\ At(c, "upload") /\ task'[c].pc \in {"response", "pick"}
  /\ task[c].route = r /\ task[c].target = k

Begins(c)   == At(c, "accepted") /\ task'[c].pc = "pick"
Choosing(c) == task'[c].pc \in {"pick", "dial", "upload", "response"}

\* Objects of c's snapshot that are healthy and can be dialled now.
Sound(c) ==
  {k \in task[c].snap :
     LET b == backends[task[c].route][k] IN b.healthy /\ service[b.addr] # "down"}

Revives(c) ==
  \E k \in task[c].snap :
    ~backends[task[c].route][k].healthy /\ backends'[task[c].route][k].healthy

HNext ==
  /\ Next
  /\ uploads' = [r \in DOMAIN uploads |-> [k \in DOMAIN uploads[r] |->
       IF \E c \in Client : Releases(c, r, k)
       THEN (uploads[r][k] + 1) % Width ELSE uploads[r][k]]]
  /\ steady' = [c \in Client |->
       IF Begins(c) THEN Sound(c)'
       ELSE IF Choosing(c) THEN steady[c] \cap Sound(c)'
       ELSE IF Goes(c, "refused") THEN steady[c] ELSE {}]
  /\ revived' = [c \in Client |->
       ~Begins(c) /\ ((Choosing(c) /\ (revived[c] \/ Revives(c)))
                      \/ (Goes(c, "refused") /\ revived[c]))]
  /\ calm' = (~Reloading \/ (calm /\ (reload' # reload \/ listed' = listed)))

HSpec == HInit /\ [][HNext]_<<vars, history>>

-----------------------------------------------------------------------------
(* Properties.                                                             *)

\* The active connections a backend reports are those open on it, less what
\* HTTP/2 uploads released without having been added, modulo the counter's
\* width (lib.rs, connect and release; http.rs, h2_bridge).
OpenOn(r, k) ==
  {c \in Client : At(c, "open") /\ task[c].route = r /\ task[c].target = k}
BackendCountsBalance ==
  \A r \in DOMAIN backends : \A k \in DOMAIN backends[r] :
    (backends[r][k].active + uploads[r][k]) % Width = Cardinality(OpenOn(r, k)) % Width

\* A client is told that there is no healthy backend only if none of those it
\* could choose from was healthy and reachable all the time, or a checker
\* brought one back that had failed in the meantime (tcp.rs and http.rs,
\* handle: as many tries as backends).
RefusedForReason ==
  \A c \in Client : At(c, "refused") => steady[c] = {} \/ revived[c]

\* A reload that no other API call interferes with leaves exactly the
\* addresses of the file on the list (server.rs, api_reload).
ReloadSettles ==
  [][Reloading /\ ~Reloading' /\ calm => Addresses' = Range(reload.want)]_<<vars, history>>
=============================================================================
