------------------------------ MODULE Dashboard ------------------------------
(***************************************************************************)
(* The load of the daemon as the dashboard shows it: the latency samples   *)
(* and byte counters of the backends (crates/lb/src/lib.rs), the signals   *)
(* the API computes from them (crates/app/src/server.rs, api_signals), and *)
(* the row of the page that polls them and turns two totals into a rate    *)
(* (crates/web/src/main.rs, GoldenSignalsRow).                             *)
(*                                                                         *)
(* One direction of traffic stands for both.  Counts of connections and of *)
(* unhealthy backends are gathered like the bytes and are left out.        *)
(***************************************************************************)
EXTENDS Naturals, FiniteSets, SequencesExt

CONSTANTS
  Object,     \* backend objects; each counts for itself
  AddrOf,     \* the address of each object
  Listed,     \* per pool, the objects of the configuration, route after route
  Tcp,        \* the TCP pools, which the API changes
  Sampled,    \* bound: the objects whose latencies are followed
  Slots,      \* latency samples an object keeps (64)
  Sample,     \* latencies in microseconds; 0 counts as no sample
  MaxTime, MaxBytes, MaxSamples, MaxStoring, MaxRestarts,  \* bounds of the exploration
  None

ASSUME DashboardAssumption ==
  /\ Slots \in Nat \ {0} /\ Sample \subseteq Nat /\ Sampled \subseteq Object
  /\ Listed \in Seq(Seq(Object)) /\ Tcp \subseteq DOMAIN Listed
  \* Every pool makes objects of its own.
  /\ \A p, q \in DOMAIN Listed :
       ToSet(Listed[p]) \cap ToSet(Listed[q]) # {} => p = q

VARIABLES
  now,      \* the page's clock, in half seconds
  members,  \* per pool, the objects it has
  bytes,    \* per object, bytes carried
  ring,     \* per object, its latency samples
  next,     \* per object, samples that have been given a slot
  storing,  \* per object, of these, the ones not yet in their slots
  scan,     \* the request for the signals in progress
  row,      \* what GoldenSignalsRow keeps: the total it saw last, when, and the
            \* rate it shows with the seconds it was taken over
  restarts,
  carried,  \* history: bytes carried by all objects
  sent,     \* history: of these, when the request the row saw last was sent
  taken,    \* history: per object, the samples in the order of their slots
  late      \* history: per object, the slots whose sample was stored when they
            \* were a later one's

daemon  == <<members, bytes, ring, next, storing, restarts>>
page    == <<scan, row>>
history == <<carried, sent, taken, late>>
vars    == <<now, daemon, page, history>>

NoSamples == [o \in Object |-> [i \in 0 .. Slots - 1 |-> 0]]

Init ==
  /\ now = 1
  /\ members = [p \in DOMAIN Listed |-> ToSet(Listed[p])]
  /\ bytes = [o \in Object |-> 0]
  /\ ring = NoSamples /\ next = [o \in Object |-> 0]
  /\ storing = [o \in Object |-> {}]
  /\ scan = None
  /\ row = [bytes |-> 0, at |-> 0, rate |-> 0, span |-> 0]
  /\ restarts = 0
  /\ carried = 0 /\ sent = 0
  /\ taken = [o \in Object |-> <<>>] /\ late = [o \in Object |-> {}]

Tick ==
  /\ now < MaxTime
  /\ now' = now + 1
  /\ UNCHANGED <<daemon, page, history>>

-----------------------------------------------------------------------------
(* The balancer's counters.                                                *)

IsListed(o) == \E p \in DOMAIN members : o \in members[p]
\* An object that was never on a list has carried nothing.
InUse(o) == IsListed(o) \/ bytes[o] > 0 \/ taken[o] # <<>>

\* add_bytes.  A connection that is open carries on when its backend is taken
\* off the list.
Carry(o) ==
  /\ carried < MaxBytes /\ InUse(o)
  /\ bytes' = [bytes EXCEPT ![o] = @ + 1]
  /\ carried' = carried + 1
  /\ UNCHANGED <<now, members, ring, next, storing, restarts, page, sent, taken, late>>

\* record_latency_us, which takes a number before it takes the lock ...
TakeSlot(o, us) ==
  /\ Len(taken[o]) < MaxSamples /\ InUse(o) /\ Cardinality(storing[o]) < MaxStoring
  /\ storing' = [storing EXCEPT ![o] = @ \cup {[at |-> next[o], us |-> us]}]
  /\ next' = [next EXCEPT ![o] = @ + 1]
  /\ taken' = [taken EXCEPT ![o] = Append(@, us)]
  /\ UNCHANGED <<now, members, bytes, ring, restarts, page, carried, sent, late>>

\* ... and under the lock puts its sample in the place of an older one.
StoreSample(o) ==
  \E w \in storing[o] :
    /\ ring' = [ring EXCEPT ![o][w.at % Slots] = w.us]
    /\ storing' = [storing EXCEPT ![o] = @ \ {w}]
    /\ late' = [late EXCEPT ![o] = IF w.at + Slots < next[o] THEN @ \cup {w.at % Slots}
                                  ELSE @ \ {w.at % Slots}]
    /\ UNCHANGED <<now, members, bytes, next, restarts, page, carried, sent, taken>>

\* The samples that count, and these in ascending order.
Counted(samples) == {i \in DOMAIN samples : samples[i] > 0}

Ascending(samples) ==
  LET n == Cardinality(Counted(samples))
      p == CHOOSE p \in Bijection(1 .. n, Counted(samples)) :
             \A i, j \in 1 .. n : i <= j => samples[p[i]] <= samples[p[j]]
  IN  [i \in 1 .. n |-> samples[p[i]]]

DivCeil(a, b) == (a + b - 1) \div b

\* Mutant: the rank is rounded down.
PercentileFloor(samples, q) ==
  LET v == Ascending(samples)
      rank == (Len(v) * q) \div 100
  IN  IF v = <<>> THEN None ELSE v[IF rank = 0 THEN 1 ELSE rank]

\* latency_percentiles_us and its closure p: nearest rank, zeros ignored.
Percentile(samples, q) ==
  LET v == Ascending(samples)
      rank == DivCeil(Len(v) * q, 100)
  IN  IF v = <<>> THEN None ELSE v[IF rank = 0 THEN 1 ELSE rank]

Samples(o) == [i \in 1 .. Slots |-> ring[o][i - 1]]

\* TcpLoadBalancer::add_backend: refused if the address is listed; one that
\* comes back is a new object that counts from zero.
AddBackend(p, o) ==
  /\ ~ InUse(o) /\ \A x \in members[p] : AddrOf[x] # AddrOf[o]
  /\ members' = [members EXCEPT ![p] = @ \cup {o}]
  /\ UNCHANGED <<now, bytes, ring, next, storing, restarts, page, history>>

\* TcpLoadBalancer::remove_backend: every object with the address goes.
RemoveBackend(p, a) ==
  /\ members' = [members EXCEPT ![p] = {o \in @ : AddrOf[o] # a}]
  /\ UNCHANGED <<now, bytes, ring, next, storing, restarts, page, history>>

-----------------------------------------------------------------------------
(* GET /api/signals and the row that polls it.                             *)

\* The objects of a pool that are read: in a TCP pool all, in an HTTP pool,
\* whose list never changes, the first of each address.
Read(p) ==
  IF p \in Tcp THEN members[p]
  ELSE {Listed[p][i] : i \in {i \in DOMAIN Listed[p] :
          \A j \in 1 .. i - 1 : AddrOf[Listed[p][j]] # AddrOf[Listed[p][i]]}}

\* The resource sends a request every five seconds.
BeginScan ==
  /\ scan = None
  /\ scan' = [pool |-> 1, total |-> 0, from |-> carried]
  /\ UNCHANGED <<now, daemon, row, history>>

\* api_signals awaits the lock of each pool's list, so connections carry on
\* between two pools.
ScanPool ==
  /\ scan # None /\ scan.pool \in DOMAIN members
  /\ scan' = [scan EXCEPT !.pool = @ + 1,
                          !.total = @ + SumFunctionOnSet(bytes, Read(scan.pool))]
  /\ UNCHANGED <<now, daemon, row, history>>

Less(a, b) == IF a < b THEN 0 ELSE a - b

\* Mutant: the difference of the totals counts whatever its sign.
RowOfDistance(old, total) ==
  LET span == (now - old.at) \div 2
      rated == [old EXCEPT !.bytes = total, !.at = now]
  IN  IF total = old.bytes THEN old
      ELSE IF old.at = 0 \/ span = 0 THEN rated
      ELSE [rated EXCEPT !.span = span,
                         !.rate = (Less(total, old.bytes) + Less(old.bytes, total)) \div span]

\* The effect that runs after each response.  A total that did not change
\* leaves everything as it is, the rate of earlier seconds included.
RowOf(old, total) ==
  LET span == (now - old.at) \div 2
      rated == [old EXCEPT !.bytes = total, !.at = now]
  IN  IF total = old.bytes THEN old
      ELSE IF old.at = 0 \/ span = 0 THEN rated
      ELSE [rated EXCEPT !.span = span, !.rate = Less(total, old.bytes) \div span]

Respond ==
  /\ scan # None /\ scan.pool \notin DOMAIN members
  /\ row' = RowOf(row, scan.total)
  /\ sent' = scan.from
  /\ scan' = None
  /\ UNCHANGED <<now, daemon, carried, taken, late>>

\* The daemon is started again: its counters, samples and lists are new; a
\* request in progress fails.
Restart ==
  /\ restarts < MaxRestarts
  /\ restarts' = restarts + 1
  /\ members' = [p \in DOMAIN Listed |-> ToSet(Listed[p])]
  /\ bytes' = [o \in Object |-> 0]
  /\ ring' = NoSamples /\ next' = [o \in Object |-> 0]
  /\ storing' = [o \in Object |-> {}]
  /\ taken' = [o \in Object |-> <<>>] /\ late' = [o \in Object |-> {}]
  /\ scan' = None
  /\ UNCHANGED <<now, row, carried, sent>>

Next ==
  \/ Tick
  \/ \E o \in Object : Carry(o)
  \/ \E o \in Sampled : StoreSample(o) \/ \E us \in Sample : TakeSlot(o, us)
  \/ \E p \in Tcp, o \in Object : AddBackend(p, o) \/ RemoveBackend(p, AddrOf[o])
  \/ BeginScan \/ ScanPool \/ Respond \/ Restart

Spec == Init /\ [][Next]_vars

-----------------------------------------------------------------------------
(* Properties.                                                             *)

\* The row never shows traffic that did not happen: a new rate, over the
\* seconds it was taken over, accounts for no more than what was carried since
\* the request before was sent, although totals are gathered pool by pool,
\* backends come and go and the daemon restarts (api_signals, GoldenSignalsRow).
RateIsCarried ==
  [][row'.rate # row.rate \/ row'.span # row.span =>
       row'.rate * row'.span <= carried - sent]_vars

\* x is the nearest-rank q-th percentile of the samples that count: q percent of
\* them are not above it, and fewer than q percent are below.
IsNearestRank(x, samples, q) ==
  LET counted == Counted(samples)
      upTo  == {i \in counted : samples[i] <= x}
      below == {i \in counted : samples[i] < x}
  IN  /\ \E i \in counted : samples[i] = x
      /\ Cardinality(upTo) * 100 >= Cardinality(counted) * q
      /\ Cardinality(below) * 100 < Cardinality(counted) * q

\* When no sample is being stored, the median and the 95th percentile a backend
\* reports are those of the last samples that were taken, in whatever order
\* tasks stored them and however often the ring went round, unless a task let the
\* ring go round once more before it stored its sample, and no later one has
\* taken the place of that (lib.rs, record_latency_us and latency_percentiles_us).
PercentileIsNearestRank ==
  \A o \in Object, q \in {50, 95} :
    LET n == Len(taken[o])
        last == SubSeq(taken[o], 1 + Less(n, Slots), n)
    IN  storing[o] = {} /\ late[o] = {} =>
          IF Counted(last) = {} THEN Percentile(Samples(o), q) = None
          ELSE IsNearestRank(Percentile(Samples(o), q), last, q)
=============================================================================
