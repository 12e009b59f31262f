------------------------------ MODULE Directory ------------------------------
(***************************************************************************)
(* What a routing cache knows: the repeater a user was heard on last, the  *)
(* gateway of every repeater, and the addresses of the gateways that are   *)
(* on the network.  A record that names the repeater's own gateway (or one *)
(* taken for it) is not taken: a repeater that was behind another gateway  *)
(* stays there.                                                            *)
(***************************************************************************)
CONSTANTS Users, Rptrs, Gates, Addrs, Own, Alike, None

VARIABLES
  home, \* user -> repeater, or None
  zone, \* repeater -> gateway
  said, \* repeater -> the gateway its last record named
  addr  \* gateway -> address, or None

Init ==
  /\ home = [u \in Users |-> None] /\ zone = Own /\ said = Own
  /\ addr = [g \in Gates |-> None]

Heard(u, r) == home' = [home EXCEPT ![u] = r] /\ UNCHANGED <<zone, said, addr>>

Zoned(r, g) ==
  /\ said' = [said EXCEPT ![r] = g]
  /\ zone' = IF <<r, g>> \in Alike THEN zone ELSE [zone EXCEPT ![r] = g]
  /\ UNCHANGED <<home, addr>>

Up(g, a) == addr' = [addr EXCEPT ![g] = a] /\ UNCHANGED <<home, zone, said>>

Down(g) == addr' = [addr EXCEPT ![g] = None] /\ UNCHANGED <<home, zone, said>>

AllDown == addr' = [g \in Gates |-> None] /\ UNCHANGED <<home, zone, said>>

Next ==
  \/ \E u \in Users, r \in Rptrs : Heard(u, r)
  \/ \E g \in Gates : Down(g) \/ (\E a \in Addrs : Up(g, a)) \/ (\E r \in Rptrs : Zoned(r, g))
  \/ AllDown

Spec == Init /\ [][Next]_<<home, zone, said, addr>>
=============================================================================
