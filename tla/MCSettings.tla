----------------------------- MODULE MCSettings -----------------------------
(* An instance of Settings for TLC.                                        *)
EXTENDS Settings, FiniteSets, TLC

CONSTANTS a, b, r1, r2, l1, l2, web, tcp, fw0, fw1, fw2, rr, lc, b0, b1

\* Addresses of 2 and 3 bits.
Widths == [f \in {"v4", "v6"} |-> IF f = "v4" THEN 2 ELSE 3]
Net(f, n, l) == [family |-> f, net |-> n, plen |-> l]

AnyPacket == [f \in Fields |-> None]
When(m, labels) == [match |-> m, labels |-> labels]
Pol(n, rules, default) ==
  [name |-> n, rules |-> rules, default |-> default, installed |-> FALSE]

\* Two rules over nested prefixes and one over an application; the other
\* family, the empty prefix and one that does not parse; a rule that matches
\* everything, which is not valid.
Nested == Pol("nested",
  <<When([AnyPacket EXCEPT !.dst_prefix = Net("v4", 3, 2)], {l2}),
    When([AnyPacket EXCEPT !.dst_prefix = Net("v4", 2, 1), !.protocol = tcp], {l1})>>, {l1})
Mixed == Pol("mixed",
  <<When([AnyPacket EXCEPT !.src_prefix = Bad], {l1}),
    When([AnyPacket EXCEPT !.src_prefix = Net("v6", 5, 3), !.app = web], {l1}),
    When([AnyPacket EXCEPT !.src_prefix = Net("v4", 0, 0), !.dst_port = 1], {l1})>>, {l2})
CatchAll == Pol("all", <<When(AnyPacket, {l1})>>, {l1})
Policies == {Nested, Mixed}

Addresses ==
  {None} \cup UNION {{[family |-> f, addr |-> n] : n \in 0 .. 2 ^ Widths[f] - 1} : f \in DOMAIN Widths}
Packets == [app: {None, web}, protocol: {None, tcp}, src_prefix: Addresses,
            dst_prefix: Addresses, dst_port: {None, 1}]
PacketsOfPolicies ==
  {k \in Packets : k.src_prefix = None \/ k.dst_prefix = None}

Pool == [f \in {"algorithm", "max_conns"} |-> IF f = "algorithm" THEN rr ELSE 1]
Dialog == {[f \in DOMAIN Pool |-> IF f = "algorithm" THEN alg ELSE 2] : alg \in {rr, lc}}

Scripts ==
  {[op |-> "labels", body |-> <<l1, Blank>>], [op |-> "labels", body |-> <<l1, l2>>],
   [op |-> "policies", body |-> <<CatchAll>>],
   [op |-> "install", body |-> [name |-> "mixed", installed |-> TRUE]],
   [op |-> "pool", body |-> [Pool EXCEPT !["algorithm"] = Unknown]],
   [op |-> "pool", body |-> [Pool EXCEPT !["algorithm"] = None, !["max_conns"] = 3]],
   [op |-> "fw_add", body |-> [rule |-> fw1]], [op |-> "fw_delete", body |-> [index |-> 1]]}

OneRule   == <<fw0>>
OneButton == <<b0>>

Clients == Permutations(Client) \cup Permutations(Request)

\* Bound: store, pool, firewall and buttons share no state, so a run is about
\* one of them.
Concerns == {"store", "pool", "fw", "buttons"}
Concern(op) == IF op \in {"labels", "policies", "install"} THEN "store"
               ELSE IF op = "pool" THEN "pool" ELSE "fw"
OneConcern ==
  /\ \A r, s \in Request : job[r].op # None /\ job[s].op # None => Concern(job[r].op) = Concern(job[s].op)
  /\ Cardinality({x \in Concerns :
       \/ x = "store" /\ hist.rev > 0
       \/ x = "pool" /\ live # Configured
       \/ x = "store" /\ \E c \in Client : cache[c].labels # <<>> \/ cache[c].policies # <<>>
       \/ x = "fw" /\ (fw # <<>> \/ \E c \in Client : cache[c].rules # <<>>)
       \/ x = "buttons" /\ \E c \in Client : cache[c].buttons # None
       \/ \E r \in Request : job[r].op # None /\ Concern(job[r].op) = x}) <= 1
=============================================================================
