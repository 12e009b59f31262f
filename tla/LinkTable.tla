------------------------------ MODULE LinkTable ------------------------------
(***************************************************************************)
(* The links of the gateway's modules to remote systems: the table         *)
(* to_remote_g2 of CQnetLink and every handler that changes it, the rows   *)
(* of LINKSTATUS it keeps for the dashboard, and the logins a REF          *)
(* reflector holds.  CQnetLink::Process is one thread: every packet is     *)
(* handled to its end, and once a second send_heartbeat walks the table;   *)
(* `beat` is the module it is at.                                          *)
(*                                                                         *)
(* The remote systems are the environment: what they send is any packet    *)
(* the protocols allow, at any time, or nothing for ever.  Two systems may *)
(* share an address (a multi-protocol reflector), since CSockAddress       *)
(* compares addresses without their ports; and one system may have several *)
(* (it moves, or the hosts file is read again), since every link is made   *)
(* with a new look-up of the name.  Of the streams the links carry only    *)
(* the countdowns they renew are part of the module.                       *)
(***************************************************************************)
EXTENDS Naturals, FiniteSets

CONSTANTS
  N,           \* the local modules, numbered from 1 (A, B and C in the code)
  Systems,     \* the callsigns of remote systems
  RemoteMods,  \* the modules of a remote system
  Addrs,       \* the addresses of remote systems
  Kind,        \* the protocol of a system, by its port in the hosts file
  Hosts,       \* the addresses a look-up of a system may come to
  Named,       \* the systems whose callsign begins with REF or DCS
  Repeaters,   \* the systems whose callsign is one of a repeater
  Origins,     \* the addresses a repeater may send its link request from
  InPorts,     \* the ports it may send it from, as we see them
  AutoLink,    \* the modules with auto_link
  Timed,       \* the modules with an rf_inactivity_timer
  Timeout      \* TIMEOUT (50 in the code)

Modules == 1 .. N
Kinds == {"XRF", "REF", "DCS"}
Ports == Kinds \cup {"odd"}   \* "odd": the port an address translator chose

\* No system, no address or no port: cs[0] = '\0', a cleared CSockAddress.
None == "none"
Blank == "blank"  \* ' ', the to_mod of a module that is not linked
Nul   == "nul"    \* '\0', the to_mod g2link leaves where it gives up

\* A system that is not in the hosts file, or whose name has no address now.
Unlisted   == "unlisted"
Unresolved == "unresolved"
Lookups(s) == Hosts[s] \cup {Unlisted, Unresolved}

ASSUME SizeAssumption == N \in Nat /\ Timeout \in Nat \ {0}
ASSUME HostAssumption ==
  /\ Kind \in [Systems -> Kinds] /\ Hosts \in [Systems -> SUBSET Addrs]
  /\ Named \subseteq Systems
  /\ Repeaters \subseteq Systems /\ Origins \in [Repeaters -> SUBSET Addrs]
  /\ InPorts \subseteq {"XRF", "odd"}
ASSUME RepeaterAssumption == \A s \in Repeaters : s \notin Named /\ Kind[s] = "XRF"
ASSUME NameAssumption ==
  /\ None \notin Systems /\ {None, Unlisted, Unresolved} \cap Addrs = {}
  /\ {Blank, Nul} \cap RemoteMods = {}
ASSUME ConfigAssumption ==
  AutoLink \subseteq Modules /\ Timed \subseteq Modules

VARIABLES
  link,     \* to_remote_g2
  status,   \* LINKSTATUS: the system in its row for an address, or None
  session,  \* the addresses of REF reflectors that hold our login
  silent,   \* the addresses from which nothing comes any more
  beat      \* 0, or the module send_heartbeat looks at

vars == <<link, status, session, silent, beat>>

Entry == [cs : Systems \cup {None}, addr : Addrs \cup {None},
          port : Ports \cup {None}, to : RemoteMods \cup {Blank, Nul},
          up : BOOLEAN, left : 0 .. Timeout]

\* The entry of a module that is not linked: Free is what every handler leaves
\* when it unlinks, GaveUp what g2link leaves when it finds no address.
Unlinked(t) == [cs |-> None, addr |-> None, port |-> None, to |-> t,
                up |-> FALSE, left |-> 0]
Free   == Unlinked(Blank)
GaveUp == Unlinked(Nul)

TypeOK ==
  /\ link \in [Modules -> Entry]
  /\ status \in [Addrs -> Systems \cup {None}]
  /\ session \subseteq Addrs /\ silent \subseteq Addrs
  /\ beat \in 0 .. N

Init ==
  /\ link = [m \in Modules |-> Free]
  /\ status = [a \in Addrs |-> None]
  /\ session = {} /\ silent = {} /\ beat = 0

\* A module that waits for, or has, a link.
Used(m) == link[m].cs # None

\* The entries a packet from address a on the socket of protocol p is for.
From(a, p) == {m \in Modules : link[m].addr = a /\ link[m].port = p}

\* A packet from a is handled between two heartbeats.
Arrives(a) == beat = 0 /\ a \notin silent

\* qnDB.UpdateLS and qnDB.DeleteLS: one row for an address.
UpdateLS(m) == [status EXCEPT ![link[m].addr] = link[m].cs]
DeleteLS(a) == [status EXCEPT ![a] = None]

LeastOf(S) == CHOOSE m \in S : \A n \in S : m <= n
LastOf(S)  == CHOOSE m \in S : \A n \in S : n <= m

-----------------------------------------------------------------------------
(* g2link: what it makes of the entry of module m for system s, module r,  *)
(* when the look-up of the name comes to h.                                *)

\* The other modules that are linked to s, or wait for it.
Siblings(m, s) == {n \in Modules \ {m} : link[n].cs = s}

\* Mutant: only modules that are connected count as linked.
TakenIfUp(m, s, r) ==
  s \in Named /\ \E n \in Siblings(m, s) : link[n].to = r /\ link[n].up

\* "Another mod is already linked", for systems named REF or DCS.
Taken(m, s, r) == s \in Named /\ \E n \in Siblings(m, s) : link[n].to = r

\* A second module on a REF system takes part in the login of the first.
Shares(m, s) == /\ Kind[s] = "REF" /\ Siblings(m, s) # {}
                /\ link[LeastOf(Siblings(m, s))].up

G2Link(m, s, r, h) ==
  IF h = Unlisted THEN GaveUp
  ELSE IF Taken(m, s, r) THEN Free
  ELSE IF h = Unresolved THEN GaveUp
  ELSE [cs |-> s, addr |-> h, port |-> Kind[s], to |-> r,
        up |-> Shares(m, s), left |-> Timeout]

-----------------------------------------------------------------------------
(* Commands of the local users.                                            *)

\* "xxxxxxyL" on a module that is not connected.
UserLink(m, s, r, h) ==
  /\ beat = 0 /\ ~link[m].up
  /\ link' = [link EXCEPT ![m] = G2Link(m, s, r, h)]
  /\ UNCHANGED <<status, session, silent, beat>>

\* Mutant: DISCONNECT is sent whoever else is linked there.
UserUnlinkAlone(m) ==
  /\ beat = 0 /\ Used(m)
  /\ session' = IF link[m].port = "REF" THEN session \ {link[m].addr} ELSE session
  /\ status' = DeleteLS(link[m].addr)
  /\ link' = [link EXCEPT ![m] = Free]
  /\ UNCHANGED <<silent, beat>>

\* "       U": a REF reflector gets DISCONNECT if no other module is there.
UserUnlink(m) ==
  /\ beat = 0 /\ Used(m)
  /\ session' = IF From(link[m].addr, "REF") = {m} THEN session \ {link[m].addr}
                                                   ELSE session
  /\ status' = DeleteLS(link[m].addr)
  /\ link' = [link EXCEPT ![m] = Free]
  /\ UNCHANGED <<silent, beat>>

-----------------------------------------------------------------------------
(* ProcessXRF.                                                             *)

\* A keepalive connects every module linked to its address.
XrfKeepalive(a) ==
  /\ Arrives(a) /\ From(a, "XRF") # {}
  /\ link' = [m \in Modules |->
                IF m \in From(a, "XRF")
                  THEN [link[m] EXCEPT !.up = TRUE, !.left = Timeout] ELSE link[m]]
  /\ UNCHANGED <<status, session, silent, beat>>

\* A header or frame of a stream.
XrfVoice(a) ==
  /\ Arrives(a) /\ From(a, "XRF") # {}
  /\ link' = [m \in Modules |->
                IF m \in From(a, "XRF") THEN [link[m] EXCEPT !.left = Timeout]
                                        ELSE link[m]]
  /\ UNCHANGED <<status, session, silent, beat>>

XrfAck(a, m) ==
  /\ Arrives(a) /\ m \in From(a, "XRF") /\ ~link[m].up
  /\ link' = [link EXCEPT ![m].up = TRUE]
  /\ status' = UpdateLS(m)
  /\ UNCHANGED <<session, silent, beat>>

\* The rejected module is unlinked; its row stays.
XrfNak(a, m) ==
  /\ Arrives(a) /\ m \in From(a, "XRF")
  /\ link' = [link EXCEPT ![m] = Free]
  /\ UNCHANGED <<status, session, silent, beat>>

\* The remote module r unlinks from every module of ours.
XrfUnlinkRequest(a, r) ==
  LET gone == {m \in From(a, "XRF") : link[m].to = r} IN
  /\ Arrives(a) /\ gone # {}
  /\ link' = [m \in Modules |-> IF m \in gone THEN Free ELSE link[m]]
  /\ status' = DeleteLS(a)
  /\ UNCHANGED <<session, silent, beat>>

\* Mutant: a link to the address is renewed, whatever the module.
XrfLinkRequestByAddress(s, a, p, r, m) ==
  LET known == m \in From(a, "XRF")
      new   == [cs |-> s, addr |-> a, port |-> p, to |-> r,
                up |-> TRUE, left |-> Timeout] IN
  /\ Arrives(a)
  /\ known \/ link[m].to = Blank
  /\ link' = [link EXCEPT ![m] = new]
  /\ status' = IF known THEN status ELSE [status EXCEPT ![a] = s]
  /\ UNCHANGED <<session, silent, beat>>

\* Repeater s asks, from address a and port p, to link its module r to m:
\* a link to that address and module is renewed in the name of s, a new one is
\* made if m is not linked.  Else, or if the hosts file does not have s, it
\* gets a NAK, or nothing.
XrfLinkRequest(s, a, p, r, m) ==
  LET known == m \in From(a, "XRF") /\ link[m].to = r
      new   == [cs |-> s, addr |-> a, port |-> p, to |-> r,
                up |-> TRUE, left |-> Timeout] IN
  /\ Arrives(a)
  /\ known \/ link[m].to = Blank
  /\ link' = [link EXCEPT ![m] = new]
  /\ status' = IF known THEN status ELSE [status EXCEPT ![a] = s]
  /\ UNCHANGED <<session, silent, beat>>

-----------------------------------------------------------------------------
(* ProcessDCS.  The packets name the module they are for.                  *)

\* A keepalive, the ACK of our link request, or (if it is up) a voice frame.
DcsAlive(a, m) ==
  /\ Arrives(a) /\ m \in From(a, "DCS")
  /\ link' = [link EXCEPT ![m].up = TRUE, ![m].left = Timeout]
  /\ status' = IF link[m].up THEN status ELSE UpdateLS(m)
  /\ UNCHANGED <<session, silent, beat>>

\* Mutant: the row of the rejected module stays.
DcsNakKeepsRow(a, m) ==
  /\ Arrives(a) /\ m \in From(a, "DCS")
  /\ link' = [link EXCEPT ![m] = Free]
  /\ UNCHANGED <<status, session, silent, beat>>

DcsNak(a, m) ==
  /\ Arrives(a) /\ m \in From(a, "DCS")
  /\ link' = [link EXCEPT ![m] = Free]
  /\ status' = DeleteLS(a)
  /\ UNCHANGED <<session, silent, beat>>

-----------------------------------------------------------------------------
(* ProcessREF.  The packets are for every module linked to their address.  *)

\* DISCONNECT: the modules are unlinked; their row stays.
RefDisconnect(a) ==
  /\ Arrives(a) /\ From(a, "REF") # {}
  /\ link' = [m \in Modules |-> IF m \in From(a, "REF") THEN Free ELSE link[m]]
  /\ session' = session \ {a}
  /\ UNCHANGED <<status, silent, beat>>

\* OKRW: every module that waits is connected; the last one has the row.
RefLoginOk(a) ==
  LET waiting == {m \in From(a, "REF") : ~link[m].up} IN
  /\ Arrives(a) /\ waiting # {}
  /\ link' = [m \in Modules |->
                IF m \in waiting
                  THEN [link[m] EXCEPT !.up = TRUE, !.left = Timeout] ELSE link[m]]
  /\ status' = UpdateLS(LastOf(waiting))
  /\ session' = session \cup {a}
  /\ UNCHANGED <<silent, beat>>

\* FAIL and BUSY: like DISCONNECT.
RefLoginFail(a) ==
  /\ Arrives(a) /\ From(a, "REF") # {}
  /\ link' = [m \in Modules |-> IF m \in From(a, "REF") THEN Free ELSE link[m]]
  /\ session' = session \ {a}
  /\ UNCHANGED <<status, silent, beat>>

\* A keepalive, or a header or frame of a stream.
RefKeepalive(a) ==
  /\ Arrives(a) /\ From(a, "REF") # {}
  /\ link' = [m \in Modules |->
                IF m \in From(a, "REF") THEN [link[m] EXCEPT !.left = Timeout]
                                        ELSE link[m]]
  /\ UNCHANGED <<status, session, silent, beat>>

-----------------------------------------------------------------------------
(* send_heartbeat: the heartbeats go out, then the modules are visited.    *)

BeatBegins ==
  /\ beat = 0 /\ N > 0
  /\ beat' = 1
  /\ UNCHANGED <<link, status, session, silent>>

NextModule == beat' = IF beat = N THEN 0 ELSE beat + 1

Skip(m) ==
  /\ beat = m /\ ~Used(m)
  /\ NextModule
  /\ UNCHANGED <<link, status, session, silent>>

\* Mutant: the countdown is for modules that wait for a link.
CountDownWaiting(m) ==
  /\ beat = m /\ Used(m) /\ link[m].left > 0
  /\ link' = IF link[m].up THEN link ELSE [link EXCEPT ![m].left = @ - 1]
  /\ NextModule
  /\ UNCHANGED <<status, session, silent>>

CountDown(m) ==
  /\ beat = m /\ Used(m) /\ link[m].left > 0
  /\ link' = [link EXCEPT ![m].left = @ - 1]
  /\ NextModule
  /\ UNCHANGED <<status, session, silent>>

\* The countdown is over: unlink, and with auto_link link again.
Relinked(m, h) ==
  IF m \in AutoLink THEN G2Link(m, link[m].cs, link[m].to, h) ELSE Free

Expire(m, h) ==
  /\ beat = m /\ Used(m) /\ link[m].left = 0
  /\ status' = DeleteLS(link[m].addr)
  /\ link' = [link EXCEPT ![m] = Relinked(m, h)]
  /\ NextModule
  /\ UNCHANGED <<session, silent>>

\* No RF user for too long: unlink; from a REF reflector with every module
\* that has an entry for its address, whatever the port.
Inactive(m) ==
  /\ beat = m /\ m \in Timed /\ link[m].up /\ link[m].left > 0
  /\ LET ref  == link[m].port = "REF"
         gone == {m} \cup IF ref THEN {n \in Modules : link[n].addr = link[m].addr}
                                 ELSE {} IN
     /\ link' = [n \in Modules |-> IF n \in gone THEN Free ELSE link[n]]
     /\ session' = IF ref THEN session \ {link[m].addr} ELSE session
  /\ status' = DeleteLS(link[m].addr)
  /\ NextModule
  /\ UNCHANGED silent

Heartbeat ==
  \/ BeatBegins
  \/ \E m \in Modules :
       \/ Skip(m) \/ CountDown(m) \/ Inactive(m)
       \/ Used(m) /\ \E h \in Lookups(link[m].cs) : Expire(m, h)

-----------------------------------------------------------------------------
\* The remote systems at a stop for good, with whatever they held.
FallsSilent(a) ==
  /\ silent' = silent \cup {a} /\ session' = session \ {a}
  /\ UNCHANGED <<link, status, beat>>

User ==
  \E m \in Modules :
    \/ UserUnlink(m)
    \/ \E s \in Systems, r \in RemoteMods : \E h \in Lookups(s) : UserLink(m, s, r, h)

Packet ==
  \E a \in Addrs :
    \/ XrfKeepalive(a) \/ XrfVoice(a)
    \/ \E m \in Modules : XrfAck(a, m) \/ XrfNak(a, m)
    \/ \E r \in RemoteMods : XrfUnlinkRequest(a, r)
    \/ \E s \in Repeaters, p \in InPorts, r \in RemoteMods, m \in Modules :
         a \in Origins[s] /\ XrfLinkRequest(s, a, p, r, m)
    \/ \E m \in Modules : DcsAlive(a, m) \/ DcsNak(a, m)
    \/ RefDisconnect(a) \/ RefLoginOk(a) \/ RefLoginFail(a) \/ RefKeepalive(a)

Next == User \/ Packet \/ Heartbeat \/ \E a \in Addrs : FallsSilent(a)

Spec == Init /\ [][Next]_vars

\* Process calls send_heartbeat every second, which visits every module.
FairSpec == Spec /\ WF_vars(Heartbeat)

-----------------------------------------------------------------------------
(* The inductive invariant behind the safety properties.                   *)

\* An entry is free, or has a system, an address and a port.
EntriesWhole ==
  \A m \in Modules :
    /\ link[m].cs = None => /\ link[m].addr = None /\ link[m].port = None
                            /\ ~link[m].up
    /\ link[m].cs # None => /\ link[m].addr \in Addrs /\ link[m].port \in Ports
                            /\ link[m].to \in RemoteMods

\* Only a repeater that linked to us has another port than that of its protocol.
PortsOfKinds ==
  \A m \in Modules : link[m].cs # None /\ link[m].port # Kind[link[m].cs]
    => link[m].cs \in Repeaters /\ link[m].port = "odd"

Shape == EntriesWhole /\ PortsOfKinds

-----------------------------------------------------------------------------
(* Properties.                                                             *)

\* Two modules are never linked, or waiting to be linked, to the same module
\* of a system named REF or DCS: g2link refuses ("Another mod is already
\* linked"), and no answer, timeout or new link gets round it.
ExclusiveModule ==
  \A m, n \in Modules :
    m # n /\ link[m].cs = link[n].cs /\ link[m].cs \in Named => link[m].to # link[n].to

IInv == TypeOK /\ Shape /\ ExclusiveModule

\* A step that ends our login at a REF reflector leaves no module linked there,
\* nor waiting: "nothing else is linked there, send DISCONNECT"
\* (QnetLink.cpp:2930), whatever callsign the others linked by.
LoginKept ==
  [][\A a \in session \ session' : a \in silent' \/
       \A m \in Modules : ~(link'[m].addr = a /\ link'[m].port = "REF")]_vars

\* A row of LINKSTATUS for a DCS reflector means that a module is connected to
\* it, through every way a link can end, modules that share an address included.
DcsRowBacked ==
  \A a \in Addrs : status[a] # None /\ Kind[status[a]] = "DCS" =>
    \E m \in Modules : link[m].up /\ link[m].cs = status[a] /\ link[m].addr = a

\* What the voice streams see of the table: the calls and answers of Links,
\* also where a handler goes by address, and unlinks, connects or takes over
\* entries that another callsign made.
View(e) == [sys |-> e.cs, at |-> e.addr, to |-> IF e.cs = None THEN None ELSE e.to,
            up |-> e.up]
view == [m \in Modules |-> View(link[m])]

Seen == INSTANCE Links WITH link <- view, Single <- Named, Callers <- Repeaters

IsLinks == Seen!Spec

\* A system that is silent is not taken for connected for ever: "if the target
\* [...] becomes unavailable, QnetLink will attempt to re-link approximately
\* every 50 seconds" (OPERATING:81-82).
LossIsNoticed ==
  \A m \in Modules, a \in Addrs :
    (a \in silent /\ link[m].addr = a /\ link[m].up) ~> ~(link[m].addr = a /\ link[m].up)

\* What a step may do to a link m has: end it, leave it, count it down on a
\* visit of send_heartbeat, or make it again from another module's.
Ends(m)   == ~(link'[m].up /\ link'[m].addr = link[m].addr)
Stays(m)  == link'[m] = link[m] /\ (beat = m => beat' = m)
Counts(m) == /\ beat = m /\ beat' # m /\ link[m].left > 0
             /\ link'[m] = [link[m] EXCEPT !.left = @ - 1]
Revives(m) == /\ beat = m /\ link[m].left = 0 /\ m \in AutoLink
              /\ Kind[link[m].cs] = "REF" /\ \E n \in Siblings(m, link[m].cs) : link[n].up

\* The safety half of LossIsNoticed: a link to a system that fell silent is
\* counted down by every visit of send_heartbeat and renewed by nothing, until
\* it ends; only an auto_link module of a REF system is connected again
\* by another module that is (the disagreement of MCLinkTableZombie.cfg).
SilentLinksRunOut ==
  [][\A m \in Modules : link[m].up /\ link[m].addr \in silent =>
       Ends(m) \/ Stays(m) \/ Counts(m) \/ Revives(m)]_vars

-----------------------------------------------------------------------------
(* Stated by a doc or a comment, or taken for granted by the code, and not   *)
(* kept by it.                                                               *)

\* "QnetLink will attempt to re-link [...] at least until an unlinking command
\* is sent" (OPERATING:81-83): an auto_link module whose countdown is over
\* asks the same system again.  Not where the look-up of the name fails: g2link
\* has emptied the entry by then (QnetLink.cpp:789-806), and nothing tries again.
KeepsTrying ==
  [][\A m \in AutoLink : beat = m /\ Used(m) /\ link[m].left = 0 =>
       link'[m].cs = link[m].cs]_vars

\* What is kept of it: nobody takes the module's place, only the look-up ends it.
KeepsTryingIfFound ==
  [][\A m \in AutoLink : beat = m /\ Used(m) /\ link[m].left = 0 =>
       link'[m].cs = link[m].cs \/ link'[m] = GaveUp]_vars

\* Modules on the same REF system are connected together or not at all, which
\* g2link takes for granted (QnetLink.cpp:905).  Not where the system has moved
\* between the links: OKRW is for the modules at its address.
SiblingsAgree ==
  \A m, n \in Modules :
    link[m].cs = link[n].cs /\ link[m].port = "REF" => link[m].up = link[n].up

\* A module that is connected to a REF reflector has the login of its address.
\* Not where g2link connected it because of another module (QnetLink.cpp:908),
\* at an address the system has moved to.
LoggedInWhileUp ==
  \A m \in Modules :
    link[m].up /\ link[m].port = "REF" => link[m].addr \in session \cup silent

\* Module m makes send_heartbeat write to its address: an earlier module with
\* the same callsign does it for the later ones.
Beats(m) ==
  \/ link[m].port = "DCS"
  \/ link[m].port = "XRF" /\ \A n \in 1 .. m - 1 : link[n].cs # link[m].cs
  \/ link[m].port = "REF" /\ link[m].up /\ \A n \in 1 .. m - 1 : link[n].cs # link[m].cs

\* Every connected system gets heartbeats ("send heartbeat to linked XRF
\* repeaters/reflectors", QnetLink.cpp:175).  Not where an earlier module has the
\* callsign at another address or port, since send_heartbeat compares callsigns
\* only; nor a repeater whose packets do not come from the port of XRF.
HeartbeatCovers ==
  \A m \in Modules : link[m].up =>
    \E n \in Modules : /\ Beats(n) /\ link[n].addr = link[m].addr
                       /\ link[n].port = link[m].port
=============================================================================
