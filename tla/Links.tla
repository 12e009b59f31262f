-------------------------------- MODULE Links --------------------------------
(***************************************************************************)
(* What the voice streams see of the link table of QnetLink: for each      *)
(* local module the system it is linked to, or waits for.  LinkTable is    *)
(* shown to implement this specification, whatever packets, timeouts and   *)
(* commands it handles; LinkStreams adds to each of these steps what it    *)
(* does to the streams.                                                    *)
(***************************************************************************)
EXTENDS Naturals

CONSTANTS
  N,          \* the local modules are 1 .. N
  Systems,    \* the remote systems
  Addrs,      \* the addresses they may have
  Kind,       \* the protocol of a system
  Single,     \* the systems of which a module is linked to one of ours only
  Callers,    \* the repeaters that link to us
  RemoteMods, \* the modules of a system
  None        \* no system

VARIABLE
  link        \* system, address, remote module, is_connected

Modules == 1 .. N

Free == [sys |-> None, at |-> None, to |-> None, up |-> FALSE]

Init == link = [m \in Modules |-> Free]

Used == {m \in Modules : link[m].sys # None}

Others(m, y) == {n \in Modules \ {m} : link[n].sys = y}

\* A module is linked by its user, or again when its countdown is over, at the
\* address the system has now; to a REF reflector at once where another module is
\* connected.
Ask(m, y, a, r) ==
  /\ ~link[m].up \/ (link[m].sys = y /\ link[m].to = r)
  /\ y \in Single => \A n \in Others(m, y) : link[n].to # r
  /\ \E up \in {FALSE} \cup IF Kind[y] = "REF" THEN {link[n].up : n \in Others(m, y)} ELSE {} :
       link' = [link EXCEPT ![m] = [sys |-> y, at |-> a, to |-> r, up |-> up]]

\* A system that is not listed, taken, or has no address.
AskInVain(m) == link' = [link EXCEPT ![m] = Free]

\* An answer connects the modules that waited for it.
Connect(S) ==
  /\ S \subseteq {m \in Used : ~link[m].up}
  /\ link' = [m \in Modules |->
                IF m \in S THEN [link[m] EXCEPT !.up = TRUE] ELSE link[m]]

\* An unlink by the user, the other side, a timeout; of all modules concerned.
Unlink(S) ==
  /\ S \subseteq Used
  /\ link' = [m \in Modules |-> IF m \in S THEN Free ELSE link[m]]

\* A repeater links to a module that is free, or renews in its own name a link
\* to its address and module.
Known(m, a, r) ==
  m \in Used /\ Kind[link[m].sys] = "XRF" /\ link[m].at = a /\ link[m].to = r

TheyLink(m, y, a, r) ==
  /\ y \in Callers
  /\ link[m] = Free \/ Known(m, a, r)
  /\ link' = [link EXCEPT ![m] = [sys |-> y, at |-> a, to |-> r, up |-> TRUE]]

Next ==
  \/ \E S \in SUBSET Modules : Connect(S) \/ Unlink(S)
  \/ \E m \in Modules :
       \/ AskInVain(m)
       \/ \E y \in Systems, a \in Addrs, r \in RemoteMods :
            Ask(m, y, a, r) \/ TheyLink(m, y, a, r)

Spec == Init /\ [][Next]_link
=============================================================================
