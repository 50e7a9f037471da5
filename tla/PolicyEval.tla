----------------------------- MODULE PolicyEval -----------------------------
(***************************************************************************)
(* Path policies (crates/core): which rule a packet takes, and which       *)
(* policies are valid.  Addresses are numbers of Width[f] bits, f being    *)
(* the address family (32 and 128 bits in the code).                       *)
(***************************************************************************)
EXTENDS Naturals, Sequences

CONSTANTS
  Family,   \* address families
  Width,    \* bits of an address of a family
  Bad,      \* a prefix that does not parse
  None      \* an absent field

ASSUME WidthAssumption == Width \in [Family -> Nat]

Pow2[n \in Nat] == IF n = 0 THEN 1 ELSE 2 * Pow2[n - 1]

\* Prefixes and addresses that parse.
IsPrefix(c) ==
  c.family \in Family /\ c.net \in 0 .. Pow2[Width[c.family]] - 1 /\ c.plen \in Nat
IsAddress(ip) == ip.family \in Family /\ ip.addr \in 0 .. Pow2[Width[ip.family]] - 1

\* n & mask, with mask = MAX << (bits - plen), or 0 when plen is 0.
Masked(n, bits, plen) == n - (n % Pow2[bits - plen])

\* Mutant: the mask is one bit too long.
CidrContainsLonger(c, ip) ==
  /\ c # Bad /\ c.family = ip.family
  /\ c.plen < Width[c.family]
  /\ Masked(c.net, Width[c.family], c.plen + 1) = Masked(ip.addr, Width[c.family], c.plen + 1)

\* Policy::cidr_contains: a prefix without a slash, with an address or length
\* that does not parse, of the other family or too long holds no address.
CidrContains(c, ip) ==
  /\ c # Bad /\ c.family = ip.family
  /\ c.plen <= Width[c.family]
  /\ Masked(c.net, Width[c.family], c.plen) = Masked(ip.addr, Width[c.family], c.plen)

Fields == {"app", "protocol", "src_prefix", "dst_prefix", "dst_port"}

IsMatchAll(m) == \A f \in Fields : m[f] = None

\* One rule against one packet: every field the rule gives must agree.  A
\* packet that lacks the field does not match.
Matches(m, pkt) ==
  /\ \A f \in {"app", "protocol", "dst_port"} : m[f] # None => m[f] = pkt[f]
  /\ \A f \in {"src_prefix", "dst_prefix"} :
       m[f] # None => pkt[f] # None /\ CidrContains(m[f], pkt[f])

\* What a policy and the headers of a packet consist of.
IsPolicy(p) ==
  /\ p \in [name: {p.name}, rules: {p.rules}, default: {p.default}, installed: BOOLEAN]
  /\ DOMAIN p.rules = 1 .. Len(p.rules)
  /\ \A i \in DOMAIN p.rules, f \in {"src_prefix", "dst_prefix"} :
       p.rules[i].match[f] \notin {None, Bad} => IsPrefix(p.rules[i].match[f])

IsPacket(pkt) == \A f \in {"src_prefix", "dst_prefix"} : pkt[f] # None => IsAddress(pkt[f])

\* Policy::evaluate: the first rule that matches, else the default action.
Hits(p, pkt) == {i \in DOMAIN p.rules : Matches(p.rules[i].match, pkt)}
FirstOf(S)   == CHOOSE i \in S : \A j \in S : i <= j
Evaluate(p, pkt) ==
  IF Hits(p, pkt) = {} THEN p.default ELSE p.rules[FirstOf(Hits(p, pkt))].labels

\* Policy::validate.
Valid(p) ==
  /\ \A i \in DOMAIN p.rules : ~ IsMatchAll(p.rules[i].match) /\ p.rules[i].labels # {}
  /\ p.default # {}

\* The labels a policy routes via.
Uses(p) == p.default \cup UNION {p.rules[i].labels : i \in DOMAIN p.rules}

-----------------------------------------------------------------------------
(* A reference: prefixes compared bit by bit.                              *)

Bit(n, j) == (n \div Pow2[j]) % 2

InNetwork(c, ip) ==
  /\ c # Bad /\ c.family = ip.family /\ c.plen <= Width[c.family]
  /\ \A j \in 0 .. Width[c.family] - 1 :
       j >= Width[c.family] - c.plen => Bit(c.net, j) = Bit(ip.addr, j)

Agrees(m, pkt) ==
  \A f \in Fields : m[f] # None =>
    IF f \in {"src_prefix", "dst_prefix"}
    THEN pkt[f] # None /\ InNetwork(m[f], pkt[f])
    ELSE m[f] = pkt[f]

\* The action a packet gets is that of a rule that agrees with it and has none
\* before it that does, or the default's when no rule agrees.
TakesFirstMatch(p, pkt) ==
  \/ /\ \A i \in DOMAIN p.rules : ~ Agrees(p.rules[i].match, pkt)
     /\ Evaluate(p, pkt) = p.default
  \/ \E i \in DOMAIN p.rules :
       /\ Agrees(p.rules[i].match, pkt)
       /\ \A j \in 1 .. i - 1 : ~ Agrees(p.rules[j].match, pkt)
       /\ Evaluate(p, pkt) = p.rules[i].labels
=============================================================================
