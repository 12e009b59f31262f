----------------------------- MODULE MCIrcClient -----------------------------
(* IrcClient on small instances: every wait is one tick, two queue objects. *)
EXTENDS IrcClient
=============================================================================
