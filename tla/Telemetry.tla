----------------------------- MODULE Telemetry ------------------------------
(***************************************************************************)
(* The telemetry path of Controller with two history variables: per        *)
(* device, the flag lists in the order in which they replaced each other   *)
(* (a deletion drops the flags, as a frame without any would), and how     *)
(* many alerts each flag has raised (the ring forgets the oldest).         *)
(***************************************************************************)
EXTENDS Controller, FiniteSets

VARIABLES taken, raised

history == <<taken, raised>>

HInit ==
  /\ Init
  /\ taken = [d \in Device |-> <<>>]
  /\ raised = [d \in Device |-> [k \in Key |-> 0]]

\* This step of r replaces the flags of device d, by FlagsOf(r).
Replaces(r, d) ==
  job[r].pc \in {"flags", "drop_flags"} /\ job'[r] # job[r] /\ job[r].dev = d
FlagsOf(r) == IF job[r].pc = "flags" THEN job[r].keys ELSE <<>>

HNext ==
  /\ Next
  /\ taken' = [d \in Device |->
       IF \E r \in Request : Replaces(r, d)
       THEN Append(taken[d], FlagsOf(CHOOSE r \in Request : Replaces(r, d)))
       ELSE taken[d]]
  /\ raised' = IF alerts' = alerts THEN raised
               ELSE LET a == alerts'[Len(alerts')] IN [raised EXCEPT ![a.dev][a.key] = @ + 1]

HSpec == HInit /\ [][HNext]_<<vars, history>>

\* The places at which a flag list names k.
Listings(ks, k) == {j \in DOMAIN ks : ks[j] = k}

\* The rising edges of k: the lists that name it after one that does not, and
\* the places at which they do.
Risen(d, k) == {i \in DOMAIN taken[d] : i > 1 => k \notin Keys(taken[d][i - 1])}
Rises(d, k) == UNION {{i} \X Listings(taken[d][i], k) : i \in Risen(d, k)}

\* When all requests for a device are served, a flag has raised as many alerts
\* as it had rising edges in the order the frames were taken: a flag that stays
\* up does not alert again, one that went down and came back does, and no alert
\* is lost (store.rs, new_alert_flags: "alert on state transitions only").
AlertPerRisingEdge ==
  \A d \in Device, k \in Key : Quiet(d) => raised[d][k] = Cardinality(Rises(d, k))
=============================================================================
