-------------------------- MODULE BgpSpeaker_proofs --------------------------
(***************************************************************************)
(* Theorems about module BgpSpeaker, for any neighbors, connections,       *)
(* prefixes and modes.                                                     *)
(***************************************************************************)
EXTENDS BgpSpeaker, TLAPS

-----------------------------------------------------------------------------
(* Typing.                                                                 *)

LEMMA TypeInit == Init => BgpTypeOK
BY DEF Init, BgpTypeOK, States, Pc

\* A prefix's routes after an announcement.
LEMMA LearnType ==
  ASSUME NEW routes \in [Neighbor -> Nat \cup {None}], NEW n \in Neighbor, NEW l \in Nat
  PROVE  /\ Learn(routes, n, l) \in [Neighbor -> Nat \cup {None}]
         /\ Learn(routes, n, l)[n] = l
         /\ \A m \in Neighbor \ {n} :
              \/ Learn(routes, n, l)[m] = routes[m]
              \/ /\ Learn(routes, n, l)[m] = None /\ ~ cfg.multipath
                 /\ routes[m] # None => ~ AsGood(m, routes[m], n, l)
BY DEF Learn

\* What is left of a prefix's routes after the withdrawals of n.
Kept(p, n, ws) == IF p \in ws THEN Withdrawn(rib[p], n) ELSE rib[p]

\* A prefix's routes after an UPDATE.
LEMMA UpdateType ==
  ASSUME BgpTypeOK, NEW c \in Conn, NEW ps \in SUBSET Prefix, NEW ws \in SUBSET Prefix,
         NEW l \in Nat, ReceiveUpdate(c, ps, ws, l), NEW p \in Prefix
  PROVE  /\ rib'[p] = IF p \in ps \cap Imported(c.nbr) THEN Learn(Kept(p, c.nbr, ws), c.nbr, l)
                     ELSE Kept(p, c.nbr, ws)
         /\ Kept(p, c.nbr, ws) \in [Neighbor -> Nat \cup {None}]
         /\ c.nbr \in Neighbor
         /\ rib'[p] \in [Neighbor -> Nat \cup {None}]
<1>1. c.nbr \in Neighbor
  BY SpeakerAssumption
<1>2. Kept(p, c.nbr, ws) \in [Neighbor -> Nat \cup {None}]
  BY DEF BgpTypeOK, Withdrawn, Kept
<1>3. rib'[p] = IF p \in ps \cap Imported(c.nbr) THEN Learn(Kept(p, c.nbr, ws), c.nbr, l)
                ELSE Kept(p, c.nbr, ws)
  BY DEF ReceiveUpdate, Kept
<1>4. Learn(Kept(p, c.nbr, ws), c.nbr, l) \in [Neighbor -> Nat \cup {None}]
  BY <1>1, <1>2, LearnType
<1> QED BY <1>1, <1>2, <1>3, <1>4

LEMMA TypeNext == BgpTypeOK /\ [Next]_vars => BgpTypeOK'
<1> SUFFICES ASSUME BgpTypeOK, [Next]_vars PROVE BgpTypeOK'
  OBVIOUS
<1>conn. \A c \in Conn : c.nbr \in Neighbor
  BY SpeakerAssumption
<1>none. None \notin Conn /\ None \notin Nat
  BY SpeakerAssumption
<1> USE DEF BgpTypeOK, Goto, SetState, States, Pc, vars, sessionVars, routeVars
<1>1. CASE UNCHANGED vars
  BY <1>1
<1>2. ASSUME NEW n \in Configured, DialStep(n) PROVE BgpTypeOK'
  BY <1>2 DEF DialStep, Poll, Refused
<1>3. ASSUME NEW c \in Conn, Handshake(c) PROVE BgpTypeOK'
  <2>1. CASE Connect(c)
    BY <2>1, <1>conn, SpeakerAssumption DEF Connect, Begin
  <2>2. CASE Accept(c)
    BY <2>2, <1>conn DEF Accept, Begin
  <2>3. ASSUME NEW o \in Open, PeerOpen(c, o) PROVE BgpTypeOK'
    BY <2>3, <1>conn DEF PeerOpen
  <2>4. CASE Confirm(c)
    BY <2>4, <1>conn DEF Confirm
  <2>5. CASE PeerKeepalive(c)
    BY <2>5, <1>conn DEF PeerKeepalive
  <2>6. CASE Enter(c)
    BY <2>6, <1>conn DEF Enter
  <2> QED BY <1>3, <2>1, <2>2, <2>3, <2>4, <2>5, <2>6 DEF Handshake
<1>4. ASSUME NEW c \in Conn, NEW u \in Parsed(c.nbr), ReceiveUpdate(c, u.announced, u.withdrawn, u.len)
      PROVE  BgpTypeOK'
  <2>1. u.announced \in SUBSET Prefix /\ u.withdrawn \in SUBSET Prefix /\ u.len \in Nat
    BY <1>4, <1>conn, SpeakerAssumption DEF Parsed
  <2>2. \A p \in Prefix : rib'[p] \in [Neighbor -> Nat \cup {None}]
    BY <1>4, <2>1, UpdateType
  <2>3. rib' \in [Prefix -> [Neighbor -> Nat \cup {None}]]
    BY <1>4, <2>2 DEF ReceiveUpdate
  <2>4. said' \in [Neighbor -> [Prefix -> Nat \cup {None}]]
    BY <1>4, <1>conn, <2>1 DEF ReceiveUpdate
  <2>5. queue' \in [Conn -> SUBSET SUBSET Prefix] /\ \A d \in Conn : queue'[d] # {} => writer[d]
    BY <1>4, <2>1 DEF ReceiveUpdate, Reflect, Update
  <2> QED BY <1>4, <2>3, <2>4, <2>5 DEF ReceiveUpdate
<1>5. ASSUME NEW c \in Conn, Refresh(c) PROVE BgpTypeOK'
  <2>1. Advertised(c.nbr) \in SUBSET SUBSET Prefix
    BY <1>conn, SpeakerAssumption DEF Advertised, Exported, Update
  <2> QED BY <1>5, <2>1 DEF Refresh
<1>6. ASSUME NEW c \in Conn, WriterStep(c) PROVE BgpTypeOK'
  <2>1. CASE Drain(c)
    BY <2>1 DEF Drain
  <2>2. CASE EndDrain(c)
    BY <2>2 DEF EndDrain
  <2>3. CASE WriteFails(c)
    BY <2>3 DEF WriteFails
  <2> QED BY <1>6, <2>1, <2>2, <2>3 DEF WriterStep
<1>7. ASSUME NEW c \in Conn, Close(c) PROVE BgpTypeOK'
  <2>1. CASE Ends(c)
    BY <2>1, <1>conn, <1>none DEF Ends
  <2>2. CASE Leave(c)
    BY <2>2, <1>conn DEF Leave
  <2>3. CASE Broken(c)
    BY <2>3 DEF Broken
  <2>4. CASE ParsePanics(c)
    BY <2>4, <1>conn DEF ParsePanics
  <2>5. CASE BrokenEntering(c)
    BY <2>5, <1>conn DEF BrokenEntering
  <2> QED BY <1>7, <2>1, <2>2, <2>3, <2>4, <2>5 DEF Close
<1> QED BY <1>1, <1>2, <1>3, <1>4, <1>5, <1>6, <1>7 DEF Next, Receive

\* The speaker's state is well typed; a registered sender is one of the
\* neighbor's own connections, and only drain tasks have something queued.
THEOREM TypeCorrect == Spec => []BgpTypeOK
BY TypeInit, TypeNext, PTL DEF Spec

-----------------------------------------------------------------------------
(* The RIB.                                                                *)

\* Only an UPDATE changes routes and statements.
LEMMA RoutesChange ==
  ASSUME [Next]_vars
  PROVE  \/ UNCHANGED routeVars /\ UNCHANGED cfg
         \/ \E c \in Conn : \E u \in Parsed(c.nbr) : ReceiveUpdate(c, u.announced, u.withdrawn, u.len)
<1> USE DEF vars, sessionVars, routeVars
<1>1. CASE UNCHANGED vars
  BY <1>1
<1>2. ASSUME NEW n \in Configured, DialStep(n) PROVE UNCHANGED routeVars /\ UNCHANGED cfg
  BY <1>2 DEF DialStep, Poll, Refused
<1>3. ASSUME NEW c \in Conn, Handshake(c) PROVE UNCHANGED routeVars /\ UNCHANGED cfg
  BY <1>3 DEF Handshake, Connect, Accept, Begin, PeerOpen, Confirm, PeerKeepalive, Enter
<1>4. ASSUME NEW c \in Conn, Refresh(c) \/ WriterStep(c) \/ Close(c)
      PROVE  UNCHANGED routeVars /\ UNCHANGED cfg
  BY <1>4 DEF Refresh, WriterStep, Drain, EndDrain, WriteFails, Close, Ends, Leave,
                Broken, ParsePanics, BrokenEntering
<1> QED BY <1>1, <1>2, <1>3, <1>4 DEF Next, Receive

\* What an UPDATE of n makes of the route and the statement of each neighbor.
LEMMA UpdateEffect ==
  ASSUME BgpTypeOK, NEW c \in Conn, NEW u \in Parsed(c.nbr),
         ReceiveUpdate(c, u.announced, u.withdrawn, u.len), NEW p \in Prefix
  PROVE  /\ c.nbr \in Neighbor /\ u.len \in Nat
         /\ p \in u.announced =>
              /\ said'[c.nbr][p] = u.len
              /\ p \in Imported(c.nbr) => rib'[p][c.nbr] = u.len
              /\ p \notin Imported(c.nbr) => rib'[p][c.nbr] \in {rib[p][c.nbr], None}
         /\ p \in u.withdrawn \ u.announced => said'[c.nbr][p] = None /\ rib'[p][c.nbr] = None
         /\ p \notin u.withdrawn \cup u.announced =>
              said'[c.nbr][p] = said[c.nbr][p] /\ rib'[p][c.nbr] = rib[p][c.nbr]
         /\ \A m \in Neighbor \ {c.nbr} :
              /\ said'[m][p] = said[m][p]
              /\ \/ rib'[p][m] = rib[p][m]
                 \/ /\ rib'[p][m] = None /\ ~ cfg.multipath /\ rib'[p][c.nbr] = u.len
                    /\ rib[p][m] # None => ~ AsGood(m, rib[p][m], c.nbr, u.len)
<1> DEFINE kept == Kept(p, c.nbr, u.withdrawn)
<1>1. c.nbr \in Neighbor
  BY SpeakerAssumption
<1>2. u.announced \in SUBSET Prefix /\ u.withdrawn \in SUBSET Prefix /\ u.len \in Nat
  BY <1>1, SpeakerAssumption DEF Parsed
<1>3. rib'[p] = IF p \in u.announced \cap Imported(c.nbr) THEN Learn(kept, c.nbr, u.len) ELSE kept
  BY <1>2, UpdateType
<1>4. /\ kept \in [Neighbor -> Nat \cup {None}]
      /\ kept[c.nbr] = IF p \in u.withdrawn THEN None ELSE rib[p][c.nbr]
      /\ \A m \in Neighbor \ {c.nbr} : kept[m] = rib[p][m]
  BY <1>1 DEF BgpTypeOK, Withdrawn, Kept
<1>5. /\ said'[c.nbr][p] = IF p \in u.announced THEN u.len
                           ELSE IF p \in u.withdrawn THEN None ELSE said[c.nbr][p]
      /\ \A m \in Neighbor \ {c.nbr} : said'[m][p] = said[m][p]
  BY <1>1 DEF ReceiveUpdate, BgpTypeOK
<1> HIDE DEF kept
<1>6. CASE p \in u.announced \cap Imported(c.nbr)
  BY <1>1, <1>2, <1>3, <1>4, <1>5, <1>6, LearnType
<1>7. CASE p \notin u.announced \cap Imported(c.nbr)
  BY <1>1, <1>2, <1>3, <1>4, <1>5, <1>7
<1> QED BY <1>6, <1>7

LEMMA ToldNext == BgpTypeOK /\ RibTellsLastStatement /\ [Next]_vars => RibTellsLastStatement'
<1> SUFFICES ASSUME BgpTypeOK, RibTellsLastStatement, [Next]_vars PROVE RibTellsLastStatement'
  OBVIOUS
<1>1. CASE UNCHANGED routeVars /\ UNCHANGED cfg
  BY <1>1 DEF routeVars, RibTellsLastStatement, Imported, EffectiveImport
<1>2. ASSUME NEW c \in Conn, NEW u \in Parsed(c.nbr), ReceiveUpdate(c, u.announced, u.withdrawn, u.len)
      PROVE  RibTellsLastStatement'
  <2>1. cfg' = cfg /\ \A n : Imported(n)' = Imported(n)
    BY <1>2 DEF ReceiveUpdate, Imported, EffectiveImport
  <2>2. ASSUME NEW p \in Prefix, NEW n \in Neighbor
        PROVE  /\ rib'[p][n] # None => rib'[p][n] = said'[n][p] /\ p \in Imported(n)
               /\ cfg.multipath /\ p \in Imported(n) => rib'[p][n] = said'[n][p]
    <3>1. /\ rib[p][n] # None => rib[p][n] = said[n][p] /\ p \in Imported(n)
          /\ cfg.multipath /\ p \in Imported(n) => rib[p][n] = said[n][p]
      BY DEF RibTellsLastStatement
    <3>2. CASE n = c.nbr
      BY <1>2, <3>1, <3>2, UpdateEffect
    <3>3. CASE n # c.nbr
      BY <1>2, <3>1, <3>3, UpdateEffect
    <3> QED BY <3>2, <3>3
  <2> QED BY <2>1, <2>2 DEF RibTellsLastStatement
<1> QED BY <1>1, <1>2, RoutesChange

\* What the RIB holds of a neighbor is what it last said, over any of its
\* connections, as far as the import list lets it in.
THEOREM RibIsTold == Spec => []RibTellsLastStatement
<1>1. Init => BgpTypeOK /\ RibTellsLastStatement
  BY TypeInit DEF Init, RibTellsLastStatement
<1>2. BgpTypeOK /\ RibTellsLastStatement /\ [Next]_vars => (BgpTypeOK /\ RibTellsLastStatement)'
  BY TypeNext, ToldNext
<1> QED BY <1>1, <1>2, PTL DEF Spec

\* The order of routes is total.
LEMMA AsGoodTotal ==
  ASSUME NEW m \in Neighbor, NEW n \in Neighbor, NEW k \in Nat, NEW l \in Nat
  PROVE  AsGood(m, k, n, l) \/ AsGood(n, l, m, k)
<1>1. \A x \in Neighbor : LocalPref(x) \in Nat
  BY SpeakerAssumption DEF LocalPref, BgpNeighbor
<1> QED BY <1>1 DEF AsGood

DisplacedStep ==
  \A p \in Prefix, n \in Neighbor :
    rib[p][n] # None /\ said'[n][p] = said[n][p] =>
      \E m \in Neighbor : rib'[p][m] # None /\ AsGood(m, rib'[p][m], n, rib[p][n])

LEMMA DisplacedNext ==
  BgpTypeOK /\ RibTellsLastStatement /\ [Next]_vars => DisplacedStep
<1> SUFFICES ASSUME BgpTypeOK, RibTellsLastStatement, [Next]_vars,
                    NEW p \in Prefix, NEW n \in Neighbor,
                    rib[p][n] # None, said'[n][p] = said[n][p]
             PROVE  \E m \in Neighbor : rib'[p][m] # None /\ AsGood(m, rib'[p][m], n, rib[p][n])
  BY DEF DisplacedStep
<1>1. rib[p][n] \in Nat /\ None \notin Nat
  BY SpeakerAssumption DEF BgpTypeOK
<1>2. AsGood(n, rib[p][n], n, rib[p][n])
  BY <1>1, AsGoodTotal
<1>3. CASE rib'[p][n] = rib[p][n]
  BY <1>2, <1>3
<1>4. ASSUME NEW c \in Conn, NEW u \in Parsed(c.nbr), ReceiveUpdate(c, u.announced, u.withdrawn, u.len)
      PROVE  \E m \in Neighbor : rib'[p][m] # None /\ AsGood(m, rib'[p][m], n, rib[p][n])
  <2>1. rib[p][n] = said[n][p] /\ p \in Imported(n)
    BY DEF RibTellsLastStatement
  <2>2. CASE n = c.nbr
    <3>1. rib'[p][n] = rib[p][n]
      BY <1>1, <1>4, <2>1, <2>2, UpdateEffect
    <3> QED BY <1>3, <3>1
  <2>3. CASE n # c.nbr /\ rib'[p][n] # rib[p][n]
    <3>1. /\ c.nbr \in Neighbor /\ u.len \in Nat /\ rib'[p][c.nbr] = u.len
          /\ ~ AsGood(n, rib[p][n], c.nbr, u.len)
      BY <1>4, <2>3, UpdateEffect
    <3>2. AsGood(c.nbr, u.len, n, rib[p][n])
      BY <1>1, <3>1, AsGoodTotal
    <3> QED BY <1>1, <3>1, <3>2
  <2> QED BY <1>3, <2>2, <2>3
<1>5. CASE UNCHANGED routeVars
  BY <1>3, <1>5 DEF routeVars
<1> QED BY <1>4, <1>5, RoutesChange

\* A route disappears without a word of its neighbor only in favour of one that
\* is at least as good.
THEOREM OnlyBetterDisplaces == Spec => DisplacedByBetter
<1>1. Init => BgpTypeOK /\ RibTellsLastStatement
  BY TypeInit DEF Init, RibTellsLastStatement
<1>2. BgpTypeOK /\ RibTellsLastStatement /\ [Next]_vars => (BgpTypeOK /\ RibTellsLastStatement)'
  BY TypeNext, ToldNext
<1>3. BgpTypeOK /\ RibTellsLastStatement /\ [Next]_vars => [DisplacedStep]_vars
  BY DisplacedNext
<1> QED BY <1>1, <1>2, <1>3, PTL DEF Spec, DisplacedByBetter, DisplacedStep
=============================================================================
