--------------------------- MODULE MCRoutingCache ---------------------------
(* Instances of RoutingCache: gateways 1 and 2, with two sessions each on    *)
(* network 0; only the second comes to network 1.                            *)
EXTENDS RoutingCache

Self     == [b \in Bases |-> b]
Tens     == [k \in Bases \X Sessions |-> 10 * k[1] + k[2]]
ComesTo  == [n \in Nets |-> IF n = 0 THEN Bases \X Sessions ELSE {<<2, 1>>}]
=============================================================================
