---------------------------- MODULE RadioChannel ----------------------------
(***************************************************************************)
(* What the gateway promises of the streams it brings to the radio of a    *)
(* module from outside: one at a time, and each is closed before the next  *)
(* is opened.                                                              *)
(***************************************************************************)
CONSTANTS Modules, Streams

VARIABLE channel  \* the streams open on the radio of each module

TypeOK == channel \in [Modules -> SUBSET Streams]

Init == channel = [m \in Modules |-> {}]

Open(m, s) == channel[m] = {} /\ channel' = [channel EXCEPT ![m] = {s}]

Close(m) == channel[m] # {} /\ channel' = [channel EXCEPT ![m] = {}]

Next == \E m \in Modules : Close(m) \/ \E s \in Streams : Open(m, s)

Spec == Init /\ [][Next]_channel
=============================================================================
