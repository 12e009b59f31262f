---------------------------- MODULE RoutingCache ----------------------------
(***************************************************************************)
(* The routing caches (CCacheManager), one for each ircDDB network, as the *)
(* callbacks of the client threads write them and as QnetGateway reads     *)
(* them when a local user calls a user or a repeater.                      *)
(*                                                                         *)
(* A repeater is a base (seven characters) and a module, its gateway is    *)
(* known by a base.  A gateway's program is on the channel under the nick  *)
(* base-1, or base-2 .. if that is taken, maybe by its own last session.   *)
(* Each call of the cache takes its mutex; of the two that a callback      *)
(* makes, only the one for the gateway is read by a call.                  *)
(***************************************************************************)
EXTENDS Naturals

CONSTANTS
  Nets,     \* the networks are 0 and 1: bound, the set of those in use
  Users,
  Bases,    \* callsigns of repeaters and gateways, without their last letter
  Mods,     \* the modules of a repeater
  Sessions, \* the digits of nicks
  Short,    \* the first six characters of a base: what doUpdate compares
  AddrOf,   \* the address of a nick, <<base, digit>>
  Comes,    \* bound: the nicks that come to a network's channel
  None      \* no entry in a map

Rptrs == Bases \X Mods
Nicks == Bases \X Sessions
Addrs == {AddrOf[k] : k \in Nicks}

ASSUME NetsAssumption == Nets \subseteq {0, 1}
ASSUME NoneAssumption == None \notin Rptrs \cup Bases \cup Addrs \cup Sessions
ASSUME ComesAssumption == Comes \in [Nets -> SUBSET Nicks]

VARIABLES
  userRptr, \* UserRptr of a network's cache
  rptrGate, \* RptrGate
  gateAddr, \* GateAddr
  nameNick, \* NameNick: the digit of the nick
  ready,    \* initReady
  said,     \* the gateway that the last record of a repeater named, its own before
  chan,     \* the nicks on the channel, as the client was told
  ghost     \* bases of which a nick left while another stayed

mapVars == <<userRptr, rptrGate, gateAddr, nameNick>>
vars == <<mapVars, ready, said, chan, ghost>>

TypeOK ==
  /\ userRptr \in [Nets -> [Users -> Rptrs \cup {None}]]
  /\ rptrGate \in [Nets -> [Rptrs -> Bases \cup {None}]]
  /\ gateAddr \in [Nets -> [Bases -> Addrs \cup {None}]]
  /\ nameNick \in [Nets -> [Bases -> Sessions \cup {None}]]
  /\ ready \in [Nets -> BOOLEAN] /\ chan \in [Nets -> SUBSET Nicks]
  /\ ghost \in [Nets -> SUBSET Bases] /\ said \in [Nets -> [Rptrs -> Bases]]

Empty(S) == [n \in Nets |-> [x \in S |-> None]]

Init ==
  /\ userRptr = Empty(Users) /\ rptrGate = Empty(Rptrs)
  /\ gateAddr = Empty(Bases) /\ nameNick = Empty(Bases)
  /\ ready = [n \in Nets |-> FALSE] /\ said = [n \in Nets |-> [r \in Rptrs |-> r[1]]]
  /\ chan = [n \in Nets |-> {}] /\ ghost = [n \in Nets |-> {}]

-----------------------------------------------------------------------------
(* Callbacks of the client threads.                                        *)

\* Mutant: the nick's digit and its address are swapped.
JoinedSwapped(n, b, k) ==
  /\ nameNick' = [nameNick EXCEPT ![n][b] = AddrOf[<<b, k>>]]
  /\ gateAddr' = [gateAddr EXCEPT ![n][b] = k]

\* The last nick to join is the one that is known.
Joined(n, b, k) ==
  /\ nameNick' = [nameNick EXCEPT ![n][b] = k]
  /\ gateAddr' = [gateAddr EXCEPT ![n][b] = AddrOf[<<b, k>>]]

UserJoin(n, b, k) ==
  /\ <<b, k>> \in Comes[n] \ chan[n]
  /\ Joined(n, b, k)
  /\ chan' = [chan EXCEPT ![n] = @ \cup {<<b, k>>}]
  /\ ghost' = [ghost EXCEPT ![n] = @ \ {b}]
  /\ UNCHANGED <<userRptr, rptrGate, ready, said>>

\* Mutant: the name is erased, the gateway stays.
LeftByName(n, b) == nameNick' = [nameNick EXCEPT ![n][b] = None] /\ UNCHANGED gateAddr

\* Mutant: the table is cleared, as when a connection ends.
LeftClears(n, b) == /\ nameNick' = [nameNick EXCEPT ![n][b] = None]
                    /\ gateAddr' = [gateAddr EXCEPT ![n] = Empty(Bases)[n]]

\* The digit of the nick that leaves is not looked at.
Left(n, b) == /\ nameNick' = [nameNick EXCEPT ![n][b] = None]
              /\ gateAddr' = [gateAddr EXCEPT ![n][b] = None]

\* Mutant: the repeaters behind the gateway go with it.
UserLeaveForgets(n, b, k) ==
  /\ <<b, k>> \in chan[n]
  /\ Left(n, b)
  /\ rptrGate' = [rptrGate EXCEPT ![n] =
                    [r \in Rptrs |-> IF @[r] = b THEN None ELSE @[r]]]
  /\ chan' = [chan EXCEPT ![n] = @ \ {<<b, k>>}]
  /\ ghost' = [ghost EXCEPT ![n] = @ \cup {b}]
  /\ UNCHANGED <<userRptr, ready, said>>

UserLeave(n, b, k) ==
  /\ <<b, k>> \in chan[n]
  /\ Left(n, b)
  /\ chan' = [chan EXCEPT ![n] = @ \ {<<b, k>>}]
  /\ ghost' = [ghost EXCEPT ![n] = @ \cup {b}]
  /\ UNCHANGED <<userRptr, rptrGate, ready, said>>

\* Mutant: everything is cleared.
UserListResetAll(n) ==
  /\ gateAddr' = [gateAddr EXCEPT ![n] = Empty(Bases)[n]]
  /\ nameNick' = [nameNick EXCEPT ![n] = Empty(Bases)[n]]
  /\ rptrGate' = [rptrGate EXCEPT ![n] = Empty(Rptrs)[n]]
  /\ userRptr' = [userRptr EXCEPT ![n] = Empty(Users)[n]]
  /\ chan' = [chan EXCEPT ![n] = {}] /\ ghost' = [ghost EXCEPT ![n] = {}]
  /\ UNCHANGED <<ready, said>>

\* The connection is over: clearGate.
UserListReset(n) ==
  /\ gateAddr' = [gateAddr EXCEPT ![n] = Empty(Bases)[n]]
  /\ nameNick' = [nameNick EXCEPT ![n] = Empty(Bases)[n]]
  /\ chan' = [chan EXCEPT ![n] = {}] /\ ghost' = [ghost EXCEPT ![n] = {}]
  /\ UNCHANGED <<userRptr, rptrGate, ready, said>>

\* The application finds a server, or loses it; see IrcDDBApp.
SetReady(n, on) ==
  ready' = [ready EXCEPT ![n] = on] /\ UNCHANGED <<mapVars, said, chan, ghost>>

\* A record of table 0: user u was heard on repeater r.
UserReport(n, u, r) ==
  /\ ready[n]
  /\ userRptr' = [userRptr EXCEPT ![n][u] = r]
  /\ UNCHANGED <<rptrGate, gateAddr, nameNick, ready, said, chan, ghost>>

\* A record of table 1: repeater r is behind gateway g.  One that names the
\* repeater's own gateway, or one alike in six characters, is not stored.
RptrReport(n, r, g) ==
  /\ ready[n]
  /\ rptrGate' = IF Short[r[1]] # Short[g] THEN [rptrGate EXCEPT ![n][r] = g] ELSE rptrGate
  /\ said' = [said EXCEPT ![n][r] = g]
  /\ UNCHANGED <<userRptr, gateAddr, nameNick, ready, chan, ghost>>

-----------------------------------------------------------------------------
(* Calls of local users.                                                   *)

\* findRptrGate: a repeater that is in no record is behind its own gateway.
FindRptrGate(n, r) == IF rptrGate[n][r] = None THEN r[1] ELSE rptrGate[n][r]

\* The gateway and the address that a network's cache has for a repeater.
Behind(n, r) == [net |-> n, gate |-> FindRptrGate(n, r),
                 addr |-> gateAddr[n][FindRptrGate(n, r)]]

First(S) == {x \in S : x.addr # None /\ \A y \in S : y.addr # None => x.net <= y.net}

\* Where a call to repeater r, or user u, is sent: none or one place.
RouteToRptr(r) == First({Behind(n, r) : n \in Nets})
RouteToUser(u) ==
  First({Behind(n, userRptr[n][u]) : n \in {m \in Nets : userRptr[m][u] # None}})

-----------------------------------------------------------------------------
Next ==
  \E n \in Nets :
    \/ \E b \in Bases, k \in Sessions : UserJoin(n, b, k) \/ UserLeave(n, b, k)
    \/ UserListReset(n) \/ \E on \in BOOLEAN : SetReady(n, on)
    \/ \E r \in Rptrs : \/ \E u \in Users : UserReport(n, u, r)
                        \/ \E g \in Bases : RptrReport(n, r, g)

Spec == Init /\ [][Next]_vars

-----------------------------------------------------------------------------
(* Properties.                                                             *)

Routes == UNION ({RouteToUser(u) : u \in Users} \cup {RouteToRptr(r) : r \in Rptrs})

\* A call is only sent to a gateway that is on the channel of the network it
\* was found on, at the address under which it joined: not to one that
\* left, nor to one of an earlier connection, whatever records are left.
\* PINGs, too, are sent to nicks that are on the channel.
CallsReachTheLiving ==
  /\ \A p \in Routes : \E k \in Sessions :
       <<p.gate, k>> \in chan[p.net] /\ AddrOf[<<p.gate, k>>] = p.addr
  /\ \A n \in Nets, b \in Bases :
       nameNick[n][b] # None => <<b, nameNick[n][b]>> \in chan[n]

\* A gateway that is on the channel can be called, unless another nick of
\* its own left after it joined: userLeave erases both.
PresentIsFound ==
  \A n \in Nets : \A k \in chan[n] :
    k[1] \notin ghost[n] => gateAddr[n][k[1]] # None

\* Without that exception the code does not have the property: a gateway whose
\* program came back under its second nick, before the first left, is not found.
EveryPresentIsFound ==
  \A n \in Nets : \A k \in chan[n] : gateAddr[n][k[1]] # None

\* A repeater that is behind another gateway is called there, at the one that
\* the last of its records named, whatever connections ended since.
LastRecordCounts ==
  \A n \in Nets, r \in Rptrs :
    Short[said[n][r]] # Short[r[1]] => FindRptrGate(n, r) = said[n][r]

\* A cache does not always know the gateway that a repeater's last record named:
\* it does not give a repeater back to its own gateway.
ZonesAsSaid == \A n \in Nets, r \in Rptrs : FindRptrGate(n, r) = said[n][r]

\* A cache is a directory: each record of a repeater counts until the next, but
\* for those that name its own gateway, whatever comes between: names and
\* addresses go when a connection ends while users and repeaters stay, records
\* are dropped while the application is not ready, and a repeater without a
\* record is at home.
Dir(n) == INSTANCE Directory WITH
  Gates <- Bases, Own <- [r \in Rptrs |-> r[1]],
  Alike <- {p \in Rptrs \X Bases : Short[p[1][1]] = Short[p[2]]},
  home <- userRptr[n], zone <- [r \in Rptrs |-> FindRptrGate(n, r)],
  said <- said[n], addr <- gateAddr[n]

IsDirectory ==
  /\ \A n \in Nets : Dir(n)!Init
  /\ [][\A n \in Nets :
           [Dir(n)!Next]_<<userRptr[n], rptrGate[n], said[n], gateAddr[n]>>]_vars
=============================================================================
