--------------------------- MODULE MCLoadBalancer ---------------------------
(***************************************************************************)
(* Instances of LoadBalancer for TLC: pools of every kind.                 *)
(***************************************************************************)
EXTENDS LoadBalancer

CONSTANTS a1, a2, h1

Route(prefix, as) == [host |-> AnyHost, prefix |-> prefix, backends |-> as]
PoolOf(kind, algorithm, tls, routes, calls) ==
  [kind |-> kind, algo |-> algorithm, tls |-> tls, checked |-> TRUE,
   path |-> kind # "tcp", routes |-> routes, calls |-> calls]

SmallTcp == PoolOf("tcp", "failover", FALSE, <<Route(<<>>, <<a1>>)>>, 2)
PairTcp  == PoolOf("tcp", "round_robin", FALSE, <<Route(<<>>, <<a1, a2>>)>>, 1)
TwoRoutes == PoolOf("http", "least_connections", TRUE,
                    <<Route(<<>>, <<a2>>), Route(<<"x">>, <<a1>>)>>, 1)
PairH2 == PoolOf("h2", "least_connections", FALSE, <<Route(<<"x">>, <<a1, a2>>)>>, 0)

AllPools == {SmallTcp, PairTcp, TwoRoutes, PairH2}
OneTcpPool == {[SmallTcp EXCEPT !.calls = 1]}
LivePools == OneTcpPool \cup
  {[TwoRoutes EXCEPT !.calls = 0],
   PoolOf("h2", "least_connections", FALSE, <<Route(<<"x">>, <<a1>>)>>, 0)}

ClientSymmetry == Permutations(Client)
Requests == {[host |-> h1, path |-> <<>>], [host |-> h1, path |-> <<"x", "y">>]}
WantedLists == {<<a2>>, <<a2, a1>>}
OneList == {<<a2>>}
=============================================================================
