------------------------------- MODULE Dongles -------------------------------
(***************************************************************************)
(* The users that log in to QnetLink with a dongle or a hot-spot: the map  *)
(* inbound_list, whose key is the user's address, the number of users that *)
(* are let in, and the rows of table CLIENTS, which the dashboard shows.   *)
(*                                                                         *)
(* send_heartbeat erases the element its iterator is at and then advances  *)
(* the iterator.  What follows is undefined: with the library's trees the  *)
(* walk goes on, or leaves out some of the later users, or the process     *)
(* dies.  systemd starts it again (Restart=always, system/qnlink.service). *)
(***************************************************************************)
EXTENDS Integers, FiniteSets

CONSTANTS
  Users,   \* addresses, as numbers in the order of the map
  Max,     \* max_dongles of the configuration
  Timeout  \* heartbeats a user may be silent: TIMEOUT

ASSUME UsersAssumption == Users \subseteq Nat /\ IsFiniteSet(Users)
ASSUME LimitAssumption == Max \in Nat /\ Timeout \in Nat

VARIABLES
  listed,  \* the keys of inbound_list
  left,    \* countdown of a user that is listed
  allowed, \* max_dongles
  rows,    \* the keys of CLIENTS
  quiet,   \* heartbeats since a listed user sent something
  silent   \* users that will never send anything again

vars == <<listed, left, allowed, rows, quiet, silent>>

\* The list never has more users than are let in, none while dongles are
\* not allowed; and the dashboard shows each of them, through all logins
\* after a crash or a block, which leave rows behind.
TypeOK ==
  /\ rows \subseteq Users /\ silent \subseteq Users
  /\ listed \subseteq rows /\ Cardinality(listed) <= allowed
  /\ left \in [Users -> 0 .. Timeout] /\ quiet \in [Users -> 0 .. Timeout + 1]
  /\ allowed \in {0, Max}

\* Init opens the data base and clears LINKSTATUS, not CLIENTS.
Init ==
  /\ listed = {} /\ rows = {} /\ silent = {} /\ allowed = Max
  /\ left = [u \in Users |-> 0] /\ quiet = [u \in Users |-> 0]

-----------------------------------------------------------------------------
\* Mutant: only the request for a connection is tested against the limit.
FullNever == FALSE

\* "over the max_dongles limit"
Full == Cardinality(listed) + 1 > allowed

\* A login with a valid callsign from an address that is not known.
Login(u) ==
  /\ u \notin listed /\ u \notin silent /\ ~Full
  /\ listed' = listed \cup {u} /\ rows' = rows \cup {u}
  /\ left' = [left EXCEPT ![u] = Timeout] /\ quiet' = [quiet EXCEPT ![u] = 0]
  /\ UNCHANGED <<allowed, silent>>

\* Mutant: what a user asks for is answered, but is no sign of life.
PacketNotCounted(u) ==
  /\ u \in listed \ silent
  /\ quiet' = [quiet EXCEPT ![u] = 0]
  /\ UNCHANGED <<listed, left, rows, allowed, silent>>

\* Any packet of a listed user: voice, a question for a list, another login
\* (which is not answered).
Packet(u) ==
  /\ u \in listed \ silent
  /\ left' = [left EXCEPT ![u] = Timeout] /\ quiet' = [quiet EXCEPT ![u] = 0]
  /\ UNCHANGED <<listed, rows, allowed, silent>>

Logout(u) ==
  /\ u \in listed \ silent
  /\ listed' = listed \ {u} /\ rows' = rows \ {u}
  /\ UNCHANGED <<left, quiet, allowed, silent>>

-----------------------------------------------------------------------------
\* The countdown is taken down, and user and row erased when it is below zero.
Late(visited) == {u \in visited : left[u] = 0}

\* Who may be visited: all, but for users after one that is erased.
Walk(visited) ==
  /\ visited \subseteq listed
  /\ \A u \in listed \ visited : \E v \in Late(visited) : v < u

\* Mutant: the countdown stops at zero ("if (countdown > 0)").
DownToZero(u) == IF left[u] > 1 THEN left[u] - 1 ELSE 1

Down(u) == IF left[u] > 0 THEN left[u] - 1 ELSE 0

Heartbeat ==
  /\ \E visited \in SUBSET listed :
       /\ Walk(visited)
       /\ listed' = listed \ Late(visited) /\ rows' = rows \ Late(visited)
       /\ left' = [u \in Users |-> IF u \in visited THEN Down(u) ELSE left[u]]
  /\ quiet' = [u \in Users |-> IF u \in listed /\ quiet[u] <= Timeout
                               THEN quiet[u] + 1 ELSE quiet[u]]
  /\ UNCHANGED <<allowed, silent>>

Restarted == /\ listed' = {} /\ allowed' = Max
             /\ UNCHANGED <<left, quiet, silent>>

\* The process dies after an erasure.
HeartbeatDies ==
  /\ \E late \in SUBSET Late(listed) : late # {} /\ rows' = rows \ late
  /\ Restarted

\* It ends by a signal, and deletes the rows of those who are listed; or it
\* is killed.
Stop == rows' = rows \ listed /\ Restarted
Crash == UNCHANGED rows /\ Restarted

\* The local commands "      D0" and "      D1".  The rows are not deleted.
Block ==
  /\ listed' = {} /\ allowed' = 0
  /\ UNCHANGED <<left, rows, quiet, silent>>

Admit ==
  /\ allowed' = Max
  /\ UNCHANGED <<listed, left, rows, quiet, silent>>

FallsSilent(u) ==
  /\ silent' = silent \cup {u}
  /\ UNCHANGED <<listed, left, allowed, rows, quiet>>

-----------------------------------------------------------------------------
Next ==
  \/ \E u \in Users : Login(u) \/ Packet(u) \/ Logout(u) \/ FallsSilent(u)
  \/ Heartbeat \/ HeartbeatDies \/ Stop \/ Crash \/ Block \/ Admit

\* The main loop calls send_heartbeat once a second.
Spec == Init /\ [][Next]_vars /\ WF_vars(Heartbeat)

-----------------------------------------------------------------------------
(* Properties.                                                             *)

\* A heartbeat removes only users who were silent for Timeout heartbeats,
\* whichever users its broken walk leaves out.
OnlyTheQuietAreRemoved ==
  [][Heartbeat => \A u \in listed \ listed' : quiet[u] >= Timeout]_vars

\* A user that falls silent is removed, though each removal of another may
\* make the walk pass by.  This needs fewer other users than heartbeats to
\* a timeout: max_dongles is at most 10 (ReadConfig), TIMEOUT is 50.
SilentAreRemoved == \A u \in Users : u \in silent ~> u \notin listed

\* The safety half of SilentAreRemoved: nothing gives a silent user more time,
\* and a heartbeat that passes by him removes somebody before him, of whom
\* there are only so many.
SilentRunOut ==
  [][\A u \in listed \cap silent : u \in listed' =>
       /\ left'[u] <= left[u]
       /\ Heartbeat => left'[u] < left[u] \/ \E v \in listed \ listed' : v < u]_vars
=============================================================================
