---------------------------- MODULE MCLinkStreams ----------------------------
(* Instances of LinkStreams.  "xrf" is a reflector that is at one address or *)
(* another, "dcs" a reflector at the first of them, "rpt" a repeater at the  *)
(* second, "user" the address of a dongle.                                   *)
EXTENDS LinkStreams

KindOf  == [y \in Systems |-> CASE y = "dcs" -> "DCS"
                                [] y = "ref" -> "REF"
                                [] OTHER -> "XRF"]
ProtoOf == [s \in Theirs \cup Ours |-> CASE s = "d1" -> "DCS"
                                         [] s \in {"f1", "g1"} -> "REF"
                                         [] OTHER -> "XRF"]
FromOf  == [s \in Theirs \cup Ours |-> CASE s = "r1" -> "other"
                                         [] s = "g1" -> "user"
                                         [] OTHER -> "one"]
OriginOf  == [s \in Theirs |-> CASE s = "d1" -> "dcs"
                                 [] s = "f1" -> "ref"
                                 [] OTHER -> "xrf"]
FromModOf == [s \in Theirs |-> 1]
Rpt1Of    == [s \in Ours |-> 1]
SrcOf     == [s \in Local |-> 1]
Reaches   == {<<m, "xrf", "one">> : m \in Modules} \cup
             {<<1, "xrf", "other">>, <<1, "rpt", "other">>, <<1, "dcs", "one">>}
=============================================================================
