---------------------------- MODULE MCLinkTable ----------------------------
(* Instances of LinkTable.  "ref", "dcs" and "xlx" are the names of one host  *)
(* with each protocol, "twin" is a second REF name of it; "rpt" is a          *)
(* repeater, at the same address where the instance says so.  The host moves  *)
(* for the REF protocol.                                                      *)
EXTENDS LinkTable

KindOf == [s \in Systems |-> CASE s \in {"ref", "twin"} -> "REF"
                               [] s = "dcs" -> "DCS"
                               [] OTHER -> "XRF"]
Settled  == [s \in Systems |-> IF s = "rpt" THEN {"a2"} ELSE {"a1"}]
RefMoves == [s \in Systems |-> IF s = "ref" THEN {"a1", "a2"} ELSE {"a1"}]
DcsMoves == [s \in Systems |-> IF s = "dcs" THEN {"a1", "a2"} ELSE Settled[s]]
AtHost   == [s \in Repeaters |-> {"a1"}]
Away     == [s \in Repeaters |-> {"a2"}]

=============================================================================
