-------------------------------- MODULE Uplink --------------------------------
(***************************************************************************)
(* What the ircDDB application sees of its connection: whether the client  *)
(* thread is in a session (and may call back), whether the application was *)
(* given the send queue, and who is on the channel.  IrcClient is shown to *)
(* implement this specification, whatever the server, the receiver and the *)
(* users of the queue do; IrcDDBApp adds to its steps what they do to the  *)
(* application.                                                            *)
(***************************************************************************)
EXTENDS Naturals

CONSTANT Users  \* who may be on the channel

VARIABLES
  net,    \* "down", "login": in a session, "up": sendQ # NULL, "reset"
  users   \* who is on the channel, as the client was told

TypeOK == net \in {"down", "login", "up", "reset"} /\ users \subseteq Users

Init == net = "down" /\ users = {}

\* A connection is made: messages of the server come in, with sendQ still NULL.
LogIn == net = "down" /\ net' = "login" /\ UNCHANGED users

\* The channel is joined: setSendQ(q).
SwitchOn == net = "login" /\ net' = "up" /\ UNCHANGED users

\* The session is over, joined or not: setSendQ(NULL) ...
SwitchOff == net \in {"login", "up"} /\ net' = "reset" /\ UNCHANGED users

\* ... and userListReset().
Reset == net = "reset" /\ net' = "down" /\ users' = {}

InSession == net \in {"login", "up"}

Join(u)  == InSession /\ users' = users \cup {u} /\ UNCHANGED net
Leave(u) == InSession /\ users' = users \ {u} /\ UNCHANGED net

Next == \/ LogIn \/ SwitchOn \/ SwitchOff \/ Reset
        \/ \E u \in Users : Join(u) \/ Leave(u)

Spec == Init /\ [][Next]_<<net, users>>

\* Whoever is known is known by the session that runs: the list is empty
\* before each.
ListOfSession == net = "down" => users = {}
===============================================================================
