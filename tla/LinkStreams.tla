----------------------------- MODULE LinkStreams -----------------------------
(***************************************************************************)
(* The voice streams QnetLink carries over its links: from a linked system *)
(* to the gateway, with copies for the other local modules on the same     *)
(* XRF module; from a dongle or a repeater to the system its module is     *)
(* linked to; and from the local radio to that system.                     *)
(*                                                                         *)
(* A header leaves the streamid in a slot (in_streamid, out_streamid,      *)
(* brd_from_xrf, brd_from_rptr) and a voice frame, which names nothing     *)
(* but its streamid, goes where a slot has it.  Any header, frame or end   *)
(* may come at any time, so loss, delay and repetition need no channel.    *)
(*                                                                         *)
(* How links come and go is LinkTable's subject, which implements Links:   *)
(* here a step of Links is taken at any time, with what it does to the     *)
(* streams.  A system may have other addresses at other times, and an      *)
(* address other systems; a packet says where it is from by its socket,    *)
(* its address and rpt1.  (A link whose port is of no protocol carries no  *)
(* voice; here it may.)  Streamids are never used twice.                   *)
(***************************************************************************)
EXTENDS Naturals, FiniteSets

CONSTANTS
  N,          \* the local modules are 1 .. N (A, B, C in the code)
  Systems,    \* the remote systems
  Addrs,      \* the addresses there are
  Kind,       \* the protocol of a system: "XRF", "REF" or "DCS"
  Named,      \* the systems whose callsign begins with XRF
  Single,     \* the systems whose callsign begins with REF or DCS
  Callers,    \* the repeaters that link to us
  RemoteMods, \* the modules of a system, numbered by their letters too
  Private,    \* those to which no local stream is broadcast ('E')
  Dongles,    \* the addresses of dongle users
  Theirs,     \* the streams of reflectors: rpt1 is a module of their own
  Ours,       \* the streams of dongles and repeaters: rpt1 is one of ours
  Local,      \* the streams of the local radios
  Proto,      \* the protocol by which a stream of Theirs or Ours comes in
  From,       \* the address it comes from
  Origin,     \* the system a stream of Theirs names in rpt1
  FromMod,    \* the remote module a stream of Theirs comes from
  Rpt1,       \* the local module a stream of Ours is for
  Src,        \* the local module a stream of Local comes from
  FrameNos,   \* the sequence numbers of voice frames that are not the last
  Reach,      \* bound: the links that may be made, <<module, system, address>>
  None        \* no system, streamid 0, dcs_seq 0xff

VARIABLES
  link,    \* to_remote_g2: system, address, remote module, is_connected
  hosted,  \* the modules that a repeater linked to
  ins,     \* in_streamid
  outs,    \* out_streamid
  seq,     \* dcs_seq
  caller,  \* whose callsign rptr_2_dcs, ref_2_dcs and xrf_2_dcs have
  brdX,    \* brd_from_xrf
  brdR,    \* brd_from_rptr
  dongles, \* inbound_list
  open,    \* streams begun on a module's present link, and not ended there
  atGate,  \* streams begun at the gateway, and not ended there
  copying  \* copies begun at the gateway, and not ended there

linkVars == <<link, hosted, dongles>>
slotVars == <<ins, outs, seq, caller>>
gateVars == <<atGate, copying>>
vars == <<linkVars, slotVars, brdX, brdR, open, gateVars>>

L == INSTANCE Links

Modules == 1 .. N
Remote  == Theirs \cup Ours
Streams == Remote \cup Local

\* The streamids of copies: the code adds 1 and 2 to that of the stream.
Copies == Streams \X {1, 2}

ASSUME SystemAssumption ==
  /\ N \in 1 .. 3 /\ RemoteMods \subseteq Nat /\ Kind \in [Systems -> {"XRF", "REF", "DCS"}]
  /\ Named \subseteq {y \in Systems : Kind[y] = "XRF"}
  /\ Callers \subseteq {y \in Systems : Kind[y] = "XRF"}
  /\ \A y \in Systems : Kind[y] = "DCS" => y \in Single
  /\ Reach \subseteq Modules \X Systems \X Addrs
ASSUME StreamAssumption ==
  /\ Theirs \cap Ours = {} /\ Remote \cap Local = {} /\ Dongles \subseteq Addrs
  /\ Proto \in [Remote -> {"XRF", "REF", "DCS"}] /\ From \in [Remote -> Addrs]
  /\ Origin \in [Theirs -> Systems] /\ FromMod \in [Theirs -> RemoteMods]
  /\ Rpt1 \in [Ours -> Modules] /\ Src \in [Local -> Modules]
  /\ \A s \in Theirs : Kind[Origin[s]] = Proto[s]
  /\ \A s \in Ours : Proto[s] # "DCS"
ASSUME NoneAssumption ==
  /\ None \notin Systems /\ None \notin Addrs /\ None \notin Streams
  /\ None \notin Copies /\ None \notin FrameNos

Entry == [sys : Systems, at : Addrs, to : RemoteMods, up : BOOLEAN]

Broadcast == [from : Streams \cup {None}, to : [{1, 2} -> Copies \cup {None}]]
Silent == [from |-> None, to |-> [k \in {1, 2} |-> None]]

TypeOK ==
  /\ link \in [Modules -> Entry \cup {L!Free}]
  /\ hosted \subseteq Modules /\ dongles \subseteq Dongles
  /\ ins \in [Modules -> Remote \cup {None}]
  /\ outs \in [Modules -> Local \cup {None}]
  /\ seq \in [Modules -> FrameNos \cup {None}]
  /\ caller \in [Modules -> [{"rptr", "ref", "xrf"} -> Streams \cup {None}]]
  /\ brdX \in Broadcast /\ brdR \in Broadcast
  /\ open \in [Modules -> SUBSET Streams]
  /\ atGate \subseteq Remote /\ copying \subseteq Copies

Init ==
  /\ L!Init /\ hosted = {} /\ dongles = {}
  /\ ins = [m \in Modules |-> None] /\ outs = [m \in Modules |-> None]
  /\ seq = [m \in Modules |-> None]
  /\ caller = [m \in Modules |-> [v \in {"rptr", "ref", "xrf"} |-> None]]
  /\ brdX = Silent /\ brdR = Silent
  /\ open = [m \in Modules |-> {}] /\ atGate = {} /\ copying = {}

First(S, m) == m \in S /\ \A j \in S : m <= j

-----------------------------------------------------------------------------
(* Links and dongles.                                                      *)

\* Mutant: a module that is linked anew goes on with its streams.
NewLinkKeepsStreams(m) ==
  /\ open' = [open EXCEPT ![m] = {}] /\ hosted' = hosted \ {m}
  /\ ins' = [ins EXCEPT ![m] = None] /\ UNCHANGED outs

\* g2link: both slots are emptied.
NewLink(m) ==
  /\ open' = [open EXCEPT ![m] = {}] /\ hosted' = hosted \ {m}
  /\ ins' = [ins EXCEPT ![m] = None] /\ outs' = [outs EXCEPT ![m] = None]

Ask(m, y, a, r) ==
  /\ <<m, y, a>> \in Reach /\ L!Ask(m, y, a, r)
  /\ NewLink(m)
  /\ UNCHANGED <<dongles, seq, caller, brdX, brdR, gateVars>>

AskInVain(m) ==
  /\ L!AskInVain(m)
  /\ NewLink(m)
  /\ UNCHANGED <<dongles, seq, caller, brdX, brdR, gateVars>>

Connect(S) ==
  /\ L!Connect(S)
  /\ UNCHANGED <<hosted, dongles, slotVars, brdX, brdR, open, gateVars>>

\* out_streamid stays.
Unlink(S) ==
  /\ L!Unlink(S) /\ hosted' = hosted \ S
  /\ open' = [m \in Modules |-> IF m \in S THEN {} ELSE open[m]]
  /\ ins' = [m \in Modules |-> IF m \in S THEN None ELSE ins[m]]
  /\ UNCHANGED <<dongles, outs, seq, caller, brdX, brdR, gateVars>>

\* in_streamid is emptied, out_streamid stays.
TheyLink(m, y, a, r) ==
  /\ <<m, y, a>> \in Reach /\ L!TheyLink(m, y, a, r)
  /\ hosted' = IF link[m] = L!Free THEN hosted \cup {m} ELSE hosted
  /\ ins' = [ins EXCEPT ![m] = None]
  /\ UNCHANGED <<dongles, outs, seq, caller, brdX, brdR, open, gateVars>>

DongleComes(d) ==
  /\ dongles' = dongles \cup {d}
  /\ UNCHANGED <<link, hosted, slotVars, brdX, brdR, open, gateVars>>

DongleGoes(d) ==
  /\ dongles' = dongles \ {d}
  /\ UNCHANGED <<link, hosted, slotVars, brdX, brdR, open, gateVars>>

-----------------------------------------------------------------------------
(* Streams from outside, by the XRF and the REF protocol.                  *)

\* The modules whose entry has the address and the port that s comes from.
Sender(s) == {m \in Modules : /\ link[m].sys # None /\ link[m].at = From[s]
                              /\ Kind[link[m].sys] = Proto[s]}

\* The packets of s are accepted: `found`.  A dongle is one of REF.
Known(s) == Sender(s) # {} \/ (Proto[s] = "REF" /\ From[s] \in dongles)

\* The modules whose link is to the remote module that s names.
Linked(s) == {m \in Sender(s) : link[m].sys = Origin[s] /\ link[m].to = FromMod[s]}

\* The local module that a header is for, if there is one: rpt1, where the
\* remote module is replaced by ours.  ProcessXRF looks no further than a
\* module whose letter is that of the remote one ("it is a repeater").
ForRef(s, m) == IF s \in Ours THEN m = Rpt1[s] ELSE First(Linked(s), m)
ForXrf(s, m) ==
  IF s \in Ours THEN m = Rpt1[s]
  ELSE /\ m \in Linked(s)
       /\ \A n \in Sender(s) : n < m => n \notin Linked(s) /\ n # FromMod[s]

\* Mutant: the callsign for the frames is not saved.
SavedNowhere(m, v, s) == caller

\* A DCS reflector gets no header: its frames carry the callsign.
SavedFor(m, v, s) ==
  IF Kind[link[m].sys] = "DCS" THEN [caller EXCEPT ![m][v] = s] ELSE caller

\* The system that m is linked to is told of s, unless s came from there, is
\* no CQ call, or has odd flags.
Relay(m, s, cq, v) ==
  IF link[m].up /\ link[m].at # From[s] /\ cq
    THEN /\ ins' = [ins EXCEPT ![m] = s]
         /\ caller' = SavedFor(m, v, s)
         /\ open' = [open EXCEPT ![m] = @ \cup {s}]
    ELSE UNCHANGED <<ins, caller, open>>

\* The later modules on the same XRF module as m, at the address of s.
Siblings(m, s) ==
  {j \in m + 1 .. N : /\ link[j].sys \in Named /\ link[j].at = From[s]
                      /\ link[j].sys = link[m].sys /\ link[j].to = link[m].to}

\* Mutant: the id is raised after the header is sent.
CopyIdsLate(s, S) == {<<s, k - 1>> : k \in 1 .. Cardinality(S)}

\* The ids of the copies of s for the modules in S.
CopyIds(s, S) == {<<s, k>> : k \in 1 .. Cardinality(S)}

\* A broadcast begins; a slot that no copy takes keeps what it has.
ToBroadcast(b, s, S) ==
  IF S = {} THEN b
  ELSE [from |-> s,
        to |-> [k \in {1, 2} |-> IF <<s, k>> \in CopyIds(s, S) THEN <<s, k>> ELSE b.to[k]]]

XrfHeader(s, cq) ==
  /\ Proto[s] = "XRF" /\ Known(s)
  /\ \E m \in Modules :
       /\ ForXrf(s, m)
       /\ atGate' = atGate \cup {s}
       /\ copying' = copying \cup CopyIds(s, Siblings(m, s))
       /\ brdX' = ToBroadcast(brdX, s, Siblings(m, s))
       /\ Relay(m, s, cq, "xrf")
  /\ UNCHANGED <<linkVars, outs, seq, brdR>>

RefHeader(s, cq) ==
  /\ Proto[s] = "REF" /\ Known(s)
  /\ \E m \in Modules :
       /\ ForRef(s, m)
       /\ atGate' = atGate \cup {s}
       /\ Relay(m, s, cq, "ref")
  /\ UNCHANGED <<linkVars, outs, seq, brdX, brdR, copying>>

\* The copies a frame of s is sent under.
CopiedTo(b, s) == IF b.from = s THEN {b.to[1], b.to[2]} \ {None} ELSE {}

\* Mutant: only the slot of the stream is emptied.
EndBroadcastKeepingCopies(b, s) == IF b.from = s THEN [b EXCEPT !.to[1] = None] ELSE b

EndBroadcast(b, s) == IF b.from = s THEN Silent ELSE b

Relayed(s) == {m \in Modules : link[m].up /\ link[m].at # From[s] /\ ins[m] = s}

\* The last frame of s.  Other frames change nothing: they go to the gateway,
\* under the ids of the copies too, and where the slots say.
RemoteEnd(s) ==
  LET closes(m) == First(Relayed(s), m) IN
  /\ Known(s) /\ Proto[s] # "DCS"
  /\ atGate' = atGate \ {s}
  /\ copying' = copying \ IF Proto[s] = "XRF" THEN CopiedTo(brdX, s) ELSE {}
  /\ brdX' = IF Proto[s] = "XRF" THEN EndBroadcast(brdX, s) ELSE brdX
  /\ ins' = [m \in Modules |-> IF closes(m) THEN None ELSE ins[m]]
  /\ open' = [m \in Modules |-> IF closes(m) THEN open[m] \ {s} ELSE open[m]]
  /\ UNCHANGED <<linkVars, outs, seq, caller, brdR>>

-----------------------------------------------------------------------------
(* Streams of DCS reflectors, which have no headers.                       *)

\* Mutant: a stream is new only where none is in progress.
NewAt(m, s) == ins[m] = None

\* The first frame of s that m gets: a header is made up for the gateway.
New(m, s) == ins[m] # s

\* The module that a frame of s from a DCS reflector is for.
ForDcs(s, m) == Proto[s] = "DCS" /\ First({j \in Linked(s) : link[j].up}, m)

\* A frame with the number of the last one is dropped.
DcsFrame(s, m, n) ==
  /\ ForDcs(s, m)
  /\ New(m, s) \/ seq[m] # n
  /\ ins' = [ins EXCEPT ![m] = s] /\ seq' = [seq EXCEPT ![m] = n]
  /\ atGate' = IF New(m, s) THEN atGate \cup {s} ELSE atGate
  /\ UNCHANGED <<linkVars, outs, caller, brdX, brdR, open, copying>>

\* The number of the last frame has a bit that no other has.
DcsEnd(s, m) ==
  /\ ForDcs(s, m)
  /\ ins' = [ins EXCEPT ![m] = None] /\ seq' = [seq EXCEPT ![m] = None]
  /\ atGate' = atGate \ {s}
  /\ UNCHANGED <<linkVars, outs, caller, brdX, brdR, open, copying>>

-----------------------------------------------------------------------------
(* Streams of the local radios.                                            *)

\* The other modules on the same XRF module as m.
Peers(m) ==
  {j \in Modules \ {m} :
     /\ link[m].up /\ link[j].up /\ link[j].sys = link[m].sys
     /\ link[m].sys \in Named
     /\ link[j].to = link[m].to /\ link[j].to \notin Private}

\* A CQ call by way of this gateway.  (Other headers do nothing here.)
LocalHeader(s) ==
  LET m == Src[s] IN
  /\ link[m].up
  /\ outs' = [outs EXCEPT ![m] = s]
  /\ caller' = SavedFor(m, "rptr", s)
  /\ open' = [open EXCEPT ![m] = @ \cup {s}]
  /\ brdR' = ToBroadcast(brdR, s, Peers(m))
  /\ copying' = copying \cup CopyIds(s, Peers(m))
  /\ UNCHANGED <<linkVars, ins, seq, brdX, atGate>>

\* The last frame; as above, other frames change nothing.
LocalEnd(s) ==
  \E m \in Modules :
    /\ First({j \in Modules : link[j].up /\ outs[j] = s}, m)
    /\ outs' = [outs EXCEPT ![m] = None]
    /\ open' = [open EXCEPT ![m] = @ \ {s}]
    /\ brdR' = EndBroadcast(brdR, s)
    /\ copying' = copying \ CopiedTo(brdR, s)
    /\ UNCHANGED <<linkVars, ins, seq, caller, brdX, atGate>>

-----------------------------------------------------------------------------
Linking ==
  \/ \E S \in SUBSET Modules : Connect(S) \/ Unlink(S)
  \/ \E m \in Modules :
       \/ AskInVain(m)
       \/ \E y \in Systems, a \in Addrs, r \in RemoteMods :
            Ask(m, y, a, r) \/ TheyLink(m, y, a, r)

Voice ==
  \/ \E s \in Remote : \/ RemoteEnd(s)
                       \/ \E cq \in BOOLEAN : XrfHeader(s, cq) \/ RefHeader(s, cq)
  \/ \E s \in Theirs, m \in Modules :
       DcsEnd(s, m) \/ \E n \in FrameNos : DcsFrame(s, m, n)
  \/ \E s \in Local : LocalHeader(s) \/ LocalEnd(s)

Next == Linking \/ Voice \/ \E d \in Dongles : DongleComes(d) \/ DongleGoes(d)

Spec == Init /\ [][Next]_vars

-----------------------------------------------------------------------------
(* Properties.                                                             *)

\* A system is sent only the frames of streams whose header (or, if it is a
\* DCS reflector, whose callsign) it was sent over the same link, and no
\* frame after the last: in_streamid and out_streamid name no stream of an
\* earlier link, however that ended; but for a module that a repeater linked
\* to, where out_streamid may (see EveryLinkAfterHeader).
RelayedAfterHeader ==
  \A m \in Modules : link[m].up =>
    /\ ins[m] # None => ins[m] \in open[m] \/ From[ins[m]] = link[m].at
    /\ outs[m] # None => outs[m] \in open[m] \/ m \in hosted

\* The gateway gets frames only under ids it had a header for and no end yet:
\* of copies, also those that a lost end left behind; and of DCS streams,
\* of which no header is ever sent to us, also for a link made in the
\* middle of the stream.
GatewayAfterHeader ==
  /\ \A b \in {brdX, brdR} : {b.to[1], b.to[2]} \subseteq copying \cup {None}
  /\ \A m \in Modules : link[m].up /\ ins[m] # None /\ From[ins[m]] = link[m].at
       => ins[m] \in atGate

\* The frames sent to a DCS reflector carry the callsign of whoever is heard
\* in them, whatever was relayed before by another protocol.
OwnCallsign ==
  \A m \in Modules : link[m].up /\ Kind[link[m].sys] = "DCS" =>
    /\ outs[m] # None => caller[m]["rptr"] = outs[m]
    /\ ins[m] # None /\ From[ins[m]] # link[m].at =>
         caller[m][IF Proto[ins[m]] = "XRF" THEN "xrf" ELSE "ref"] = ins[m]

\* The same for every link.  A repeater's link request empties in_streamid and
\* leaves out_streamid (QnetLink.cpp:1092-1125), so that a repeater who links to
\* the module of a user who talks gets his frames with no header.
EveryLinkAfterHeader ==
  \A m \in Modules : link[m].up /\ outs[m] # None => outs[m] \in open[m]

\* A copy carries the stream it was begun for ("save streamid for use with
\* the audio packets that will arrive after this header", QnetLink.cpp:1340).
CopiesOfThisStream ==
  \A b \in {brdX, brdR} : \A k \in {1, 2} : b.to[k] \in {None, <<b.from, k>>}

\* What a reflector sends to a module of ours that is linked to it arrives
\* there ("A reflector will send to us its own RPT1", QnetLink.cpp:1191).
ReflectorIsHeard ==
  \A s \in Theirs : Proto[s] = "XRF" /\ Linked(s) # {} =>
    \E m \in Modules : ForXrf(s, m)
=============================================================================
