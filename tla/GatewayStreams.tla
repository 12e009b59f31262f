--------------------------- MODULE GatewayStreams ---------------------------
(***************************************************************************)
(* The voice streams of QnetGateway, module by module: the one that goes   *)
(* to the radio (toRptr), the one that comes from it (band_txt), its route *)
(* to a remote gateway (to_remote_g2), the recording of an echo test       *)
(* (recd) and of voicemail (vm), and ProcessTimeouts, which ends them.     *)
(*                                                                         *)
(* One thread does all of it.  PlayFileThread is no exception: the future  *)
(* of std::async is thrown away, and its destructor waits for the thread,  *)
(* so a playback stops the loop while time passes.                         *)
(*                                                                         *)
(* Packets are lost, repeated and delayed: the header, a frame or the end  *)
(* of any stream, local or remote, may come at any time, and again.        *)
(***************************************************************************)
EXTENDS Naturals

CONSTANTS
  N,           \* the modules are 1 .. N (A, B, C in the code)
  Remote,      \* streams of other gateways and of QnetLink
  Local,       \* streams of the local radios (and of qnremote)
  Dest,        \* the module a remote stream is sent to (rpt1)
  Src,         \* the module a local stream comes from
  None,        \* streamid 0
  Stray,       \* the streamid sdheader happens to hold: no code sets it
  RemoteWait,  \* TIMING_TIMEOUT_REMOTE_G2 + 1: the seconds that are too many
  LocalWait,   \* TIMING_TIMEOUT_LOCAL_RPTR + 1
  EchoWait,    \* TIMING_TIMEOUT_ECHO + 1
  VmWait,      \* TIMING_TIMEOUT_VOICEMAIL + 1
  Longest,     \* bound: the seconds a playback takes
  Callers,     \* bound: the local streams that are routed or cross-banded
  Recorders    \* bound: the local streams that use the recordings

Modules == 1 .. N

ASSUME ModuleAssumption ==
  N \in Nat \ {0} /\ Dest \in [Remote -> Modules] /\ Src \in [Local -> Modules]
ASSUME StreamAssumption ==
  /\ Remote \cap Local = {} /\ None # Stray
  /\ None \notin Remote \cup Local /\ Stray \notin Remote \cup Local
ASSUME BoundAssumption == Callers \subseteq Local /\ Recorders \subseteq Local
ASSUME WaitAssumption ==
  /\ RemoteWait \in Nat \ {0} /\ LocalWait \in Nat \ {0}
  /\ EchoWait \in Nat \ {0} /\ VmWait \in Nat \ {0} /\ Longest \in Nat \ {0}

VARIABLES
  at,         \* the module ProcessTimeouts is at, 0 outside of it
  rptr,       \* toRptr: saved_hdr.streamid and last_time
  onAir,      \* streams whose header the radio got, and not their end
  band,       \* band_txt: streamID and last_time
  index,      \* Index >= 0: the last header's lookup found an ircDDB network
  again,      \* the modules whose talker had a route when his header came
  notInCache, \* playNotInCache
  route,      \* to_remote_g2: streamid and last_time
  recd,       \* the echo recording: streamid and last_time
  echoFile,   \* its file
  vm,         \* the voicemail recording
  vmFile      \* its file

airVars   == <<rptr, onAir>>
talkVars  == <<band, index, again, notInCache>>
echoVars  == <<recd, echoFile>>
vmVars    == <<vm, vmFile>>
vars == <<at, airVars, talkVars, route, echoVars, vmVars>>

\* last_time as a countdown: 0 is last_time = 0 (idle), 1 is "timed out".
Idle == [id |-> None, timer |-> 0]
Started(s, wait) == [id |-> s, timer |-> wait + 1]
Expired(f, i) == f[i].timer = 1

\* Mutant: the countdown does not stop.
LaterUntested(t, k) == t - k

\* k seconds pass.
Later(t, k) == IF t > k THEN t - k ELSE IF t = 0 THEN 0 ELSE 1
Aged(f, k) == [m \in Modules |-> [id |-> f[m].id, timer |-> Later(f[m].timer, k)]]

Slot(ids, wait) == [Modules -> [id : ids \cup {None}, timer : 0 .. wait + 1]]
Files == {"none", "header", "audio"}

TypeOK ==
  /\ at \in 0 .. N
  /\ rptr \in Slot(Remote \cup {Stray}, RemoteWait)
  /\ onAir \in [Modules -> SUBSET (Remote \cup Local \cup {Stray})]
  /\ band \in Slot(Local, LocalWait)
  /\ index \in [Modules -> BOOLEAN] /\ again \subseteq Modules
  /\ notInCache \in BOOLEAN
  /\ route \in Slot(Local, LocalWait)
  /\ recd \in Slot(Local, EchoWait) /\ echoFile \in [Modules -> Files]
  /\ vm \in Slot(Local, VmWait) /\ vmFile \in [Modules -> Files]

\* A voicemail of an earlier run may be there, where somebody recalls it.
Init ==
  /\ at = 0
  /\ rptr = [m \in Modules |-> Idle] /\ onAir = [m \in Modules |-> {}]
  /\ band = [m \in Modules |-> Idle]
  /\ index = [m \in Modules |-> FALSE] /\ again = {} /\ notInCache = FALSE
  /\ route = [m \in Modules |-> Idle]
  /\ recd = [m \in Modules |-> Idle] /\ echoFile = [m \in Modules |-> "none"]
  /\ vm = [m \in Modules |-> Idle]
  /\ \E S \in SUBSET {Src[s] : s \in Recorders} :
       vmFile = [m \in Modules |-> IF m \in S THEN "audio" ELSE "none"]

-----------------------------------------------------------------------------
(* From outside to the radio: ProcessG2Header and ProcessG2.               *)

\* Nothing goes to the radio of module m and nobody talks there.
RadioFree(m) == rptr[m].timer = 0 /\ band[m].timer = 0

\* ProcessG2Header starts stream s on module m.
StartOn(m, s) ==
  /\ rptr' = [rptr EXCEPT ![m] = Started(s, RemoteWait)]
  /\ onAir' = [onAir EXCEPT ![m] = @ \cup {s}]

\* Mutant: a header is let through while another stream is going out.
G2HeaderUntested(s) ==
  /\ at = 0 /\ band[Dest[s]].timer = 0
  /\ StartOn(Dest[s], s)
  /\ UNCHANGED <<at, talkVars, route, echoVars, vmVars>>

\* A header that finds its module busy is dropped.
G2Header(s) ==
  /\ at = 0 /\ RadioFree(Dest[s])
  /\ StartOn(Dest[s], s)
  /\ UNCHANGED <<at, talkVars, route, echoVars, vmVars>>

\* The module of a frame is the first with its streamid saved, idle or not.
Saved(s) == {m \in Modules : rptr[m].id = s}
First(S, m) == m \in S /\ \A j \in S : m <= j

\* A voice frame.  The frame of a stream that timed out goes out like any
\* other and starts the timer again; the header is not sent again, for the
\* code that would is reached only if no module matches, and looks for one.
G2Frame(s, end) ==
  /\ at = 0
  /\ \E m \in Modules :
       /\ First(Saved(s), m)
       /\ rptr' = [rptr EXCEPT ![m] = IF end THEN Idle ELSE Started(s, RemoteWait)]
       /\ onAir' = IF end THEN [onAir EXCEPT ![m] = @ \ {s}] ELSE onAir
  /\ UNCHANGED <<at, talkVars, route, echoVars, vmVars>>

\* ProcessIncomingSD: frames no module expects spell out a header.  It is
\* processed like one that came as a packet, under the streamid of sdheader.
G2SlowHeader(s) ==
  /\ at = 0 /\ Saved(s) = {} /\ RadioFree(Dest[s])
  /\ StartOn(Dest[s], Stray)
  /\ UNCHANGED <<at, talkVars, route, echoVars, vmVars>>

-----------------------------------------------------------------------------
(* From the radio: ProcessIcom, headers.                                   *)

\* band_txt takes s as the talker of its module, who may have been it before.
TalkerIs(s) ==
  /\ band' = [band EXCEPT ![Src[s]] = Started(s, LocalWait)]
  /\ again' = IF route[Src[s]].id = s THEN again \cup {Src[s]} ELSE again \ {Src[s]}

\* Mutant: the lookup is taken back by a header with other flags too.
KeyedUnflagged(s, ok, found) ==
  /\ at = 0 /\ IF ok THEN TalkerIs(s) ELSE UNCHANGED <<band, again>>
  /\ index' = [index EXCEPT ![Src[s]] = found]

\* The header of s, from this repeater and with normal flags if ok, opens
\* band_txt and takes back the lookup; found is the lookup's new outcome.
Keyed(s, ok, found) ==
  /\ at = 0 /\ IF ok THEN TalkerIs(s) ELSE UNCHANGED <<band, again>>
  /\ index' = IF ok THEN [index EXCEPT ![Src[s]] = found] ELSE index

\* CQ, a reflector command, an invalid callsign, or a command that cannot
\* be obeyed: nothing else happens.
Talk(s, ok) ==
  /\ Keyed(s, ok, FALSE)
  /\ UNCHANGED <<at, airVars, notInCache, route, echoVars, vmVars>>

\* /repeater: looked up only if the module has no route.
ZoneRoute(s) ==
  /\ route[Src[s]].id = None
  /\ Keyed(s, TRUE, TRUE)
  /\ route' = [route EXCEPT ![Src[s]] = Started(s, LocalWait)]
  /\ UNCHANGED <<at, airVars, notInCache, echoVars, vmVars>>

\* A callsign whose gateway is known and is another.
CallRoute(s) ==
  /\ Keyed(s, TRUE, TRUE)
  /\ route' = IF route[Src[s]].id = None
                THEN [route EXCEPT ![Src[s]] = Started(s, LocalWait)]
                ELSE route
  /\ UNCHANGED <<at, airVars, notInCache, echoVars, vmVars>>

\* A callsign not in the cache; the link commands do not ask to be told.
CallNotFound(s) ==
  /\ Keyed(s, TRUE, FALSE)
  /\ notInCache' = TRUE
  /\ UNCHANGED <<at, airVars, route, echoVars, vmVars>>

\* The header of s is sent to module j.  The timer starts; the streamid that
\* toRptr holds stays.
CrossTo(j, s) ==
  IF j # Src[s] /\ RadioFree(j)
    THEN /\ rptr' = [rptr EXCEPT ![j].timer = RemoteWait + 1]
         /\ onAir' = [onAir EXCEPT ![j] = @ \cup {s}]
    ELSE UNCHANGED airVars

\* A callsign last heard on module j of this repeater.
CallLocal(s, j) ==
  /\ Keyed(s, TRUE, TRUE)
  /\ CrossTo(j, s)
  /\ UNCHANGED <<at, notInCache, route, echoVars, vmVars>>

\* CQ with another module in rpt2.
ZoneLocal(s, j, ok) ==
  /\ j # Src[s]
  /\ Keyed(s, ok, FALSE)
  /\ CrossTo(j, s)
  /\ UNCHANGED <<at, notInCache, route, echoVars, vmVars>>

\* E: the file is created, and must not exist.
EchoStart(s, ok) ==
  /\ recd[Src[s]].id = None /\ echoFile[Src[s]] = "none"
  /\ Keyed(s, ok, FALSE)
  /\ recd' = [recd EXCEPT ![Src[s]] = Started(s, EchoWait)]
  /\ echoFile' = [echoFile EXCEPT ![Src[s]] = "header"]
  /\ UNCHANGED <<at, airVars, notInCache, route, vmVars>>

\* S0: the file is created, or overwritten.
VoicemailStart(s, ok) ==
  /\ vm[Src[s]].id = None
  /\ Keyed(s, ok, FALSE)
  /\ vm' = [vm EXCEPT ![Src[s]] = Started(s, VmWait)]
  /\ vmFile' = [vmFile EXCEPT ![Src[s]] = "header"]
  /\ UNCHANGED <<at, airVars, notInCache, route, echoVars>>

\* Mutant: C0 does not look whether the file is being written.
VoicemailClearUntested(s, ok) ==
  /\ vmFile[Src[s]] # "none"
  /\ Keyed(s, ok, FALSE)
  /\ vmFile' = [vmFile EXCEPT ![Src[s]] = "none"]
  /\ UNCHANGED <<at, airVars, notInCache, route, echoVars, vm>>

\* C0
VoicemailClear(s, ok) ==
  /\ vm[Src[s]].id = None /\ vmFile[Src[s]] # "none"
  /\ Keyed(s, ok, FALSE)
  /\ vmFile' = [vmFile EXCEPT ![Src[s]] = "none"]
  /\ UNCHANGED <<at, airVars, notInCache, route, echoVars, vm>>

\* PlayFileThread plays a file with at least one frame; it takes a while.
PlayTime(file) == IF file = "audio" THEN 1 .. Longest ELSE {0}

\* R0: band_txt is closed, and the file is played in the handler.
VoicemailPlay(s, ok) ==
  LET i == Src[s] IN
  /\ at = 0
  /\ vm[i].id = None /\ vmFile[i] # "none"
  /\ index' = IF ok THEN [index EXCEPT ![i] = FALSE] ELSE index
  /\ \E k \in PlayTime(vmFile[i]) :
       /\ rptr' = Aged(rptr, k)
       /\ band' = Aged([band EXCEPT ![i] = Idle], k)
       /\ route' = Aged(route, k)
       /\ recd' = Aged(recd, k) /\ vm' = Aged(vm, k)
  /\ UNCHANGED <<at, onAir, again, notInCache, echoFile, vmFile>>

-----------------------------------------------------------------------------
(* From the radio: ProcessIcom, frames.                                    *)

\* band_txt after a frame of s.
Heard(s, end) ==
  [m \in Modules |-> IF band[m].id # s THEN band[m]
                     ELSE IF end THEN Idle ELSE Started(s, LocalWait)]

\* The end of any talker has "not in cache" announced.
Announced(s, end) == end /\ \E m \in Modules : band[m].id = s

Routed(s) == {m \in Modules : route[m].id = s /\ index[m]}
Takers(s) == Routed(s)
  \cup {m \in Modules : s \in {recd[m].id, vm[m].id, rptr[m].id}}

FrameRouted(s, end) ==
  /\ at = 0
  /\ \E m \in Routed(s) :
       /\ First(Takers(s), m)
       /\ route' = [route EXCEPT ![m] = IF end THEN Idle ELSE Started(s, LocalWait)]
  /\ band' = Heard(s, end) /\ notInCache' = (notInCache /\ ~Announced(s, end))
  /\ UNCHANGED <<at, airVars, index, again, echoVars, vmVars>>

\* The end of an echo test has it played back, and its file deleted.
FrameEchoed(s, end) ==
  /\ at = 0
  /\ \E m \in Modules, k \in PlayTime(IF end THEN "audio" ELSE "none") :
       /\ First(Takers(s), m) /\ m \notin Routed(s) /\ recd[m].id = s
       /\ recd' = Aged([recd EXCEPT ![m] =
                          IF end THEN Idle ELSE Started(s, EchoWait)], k)
       /\ echoFile' = [echoFile EXCEPT ![m] = IF end THEN "none" ELSE "audio"]
       /\ rptr' = Aged(rptr, k) /\ band' = Aged(Heard(s, end), k)
       /\ route' = Aged(route, k) /\ vm' = Aged(vm, k)
  /\ notInCache' = (notInCache /\ ~Announced(s, end))
  /\ UNCHANGED <<at, onAir, index, again, vmFile>>

FrameStored(s, end) ==
  /\ at = 0
  /\ \E m \in Modules :
       /\ First(Takers(s), m) /\ m \notin Routed(s) /\ recd[m].id # s
       /\ vm[m].id = s
       /\ vm' = [vm EXCEPT ![m] = IF end THEN Idle ELSE Started(s, VmWait)]
       /\ vmFile' = [vmFile EXCEPT ![m] = "audio"]
  /\ band' = Heard(s, end) /\ notInCache' = (notInCache /\ ~Announced(s, end))
  /\ UNCHANGED <<at, airVars, index, again, route, echoVars>>

\* A frame of a stream that none of the three takes goes to the module whose
\* saved header has its streamid, if there is one.
FrameCrossed(s, end) ==
  /\ at = 0
  /\ \A m \in Takers(s) : rptr[m].id = s /\ s \notin {recd[m].id, vm[m].id}
                            /\ m \notin Routed(s)
  /\ rptr' = [m \in Modules |->
       IF ~First(Takers(s), m) THEN rptr[m]
       ELSE [id |-> s, timer |-> IF end THEN 0 ELSE RemoteWait + 1]]
  /\ onAir' = [m \in Modules |->
       IF end /\ First(Takers(s), m) THEN onAir[m] \ {s} ELSE onAir[m]]
  /\ band' = Heard(s, end) /\ notInCache' = (notInCache /\ ~Announced(s, end))
  /\ UNCHANGED <<at, index, again, route, echoVars, vmVars>>

-----------------------------------------------------------------------------
(* Time.                                                                   *)

Slots == <<rptr, band, route, recd, vm>>
TimedOut == \E n \in DOMAIN Slots, m \in Modules : Expired(Slots[n], m)
Running == \E n \in DOMAIN Slots, m \in Modules : Slots[n][m].timer > 0

\* A second.  The loop turns many times in one, so nothing stays timed out.
Tick ==
  /\ at = 0 /\ ~TimedOut /\ Running
  /\ rptr' = Aged(rptr, 1) /\ band' = Aged(band, 1) /\ route' = Aged(route, 1)
  /\ recd' = Aged(recd, 1) /\ vm' = Aged(vm, 1)
  /\ UNCHANGED <<at, onAir, index, again, notInCache, echoFile, vmFile>>

\* A pass of ProcessTimeouts that finds something to do.
PassBegins ==
  /\ at = 0 /\ TimedOut
  /\ at' = 1
  /\ UNCHANGED <<airVars, talkVars, route, echoVars, vmVars>>

\* Mutant: a stream that timed out stays open on the radio.
ClosedSilently(f, i) == onAir

\* end_of_audio goes out under the streamid that is saved.
Closed(f, i) ==
  IF Expired(f, i) THEN [onAir EXCEPT ![i] = @ \ {f[i].id}] ELSE onAir

\* Mutant: the slot is left as it is.
ExpireForgotten(f, i) == f
Expire(f, i) == IF Expired(f, i) THEN [f EXCEPT ![i] = Idle] ELSE f

\* Module i in a pass: the echo recording first, and if it is played, what
\* comes after finds later times.
TimeoutsOf(i) ==
  /\ at = i
  /\ at' = IF i = N THEN 0 ELSE i + 1
  /\ \E k \in PlayTime(IF Expired(recd, i) THEN echoFile[i] ELSE "none") :
       /\ recd' = Aged(Expire(recd, i), k)
       /\ echoFile' = [echoFile EXCEPT ![i] = IF k > 0 THEN "none" ELSE @]
       /\ vm' = Expire(Aged(vm, k), i)
       /\ rptr' = [Aged(rptr, k) EXCEPT ![i].timer = IF @ = 1 THEN 0 ELSE @]
       /\ onAir' = Closed(Aged(rptr, k), i)
       /\ band' = Expire(Aged(band, k), i)
       /\ route' = Expire(Aged(route, k), i)
  /\ UNCHANGED <<index, again, notInCache, vmFile>>

-----------------------------------------------------------------------------
FromOutside(s) ==
  G2Header(s) \/ G2SlowHeader(s) \/ \E end \in BOOLEAN : G2Frame(s, end)

KeyUp(s) == \E ok \in BOOLEAN : Talk(s, ok)

KeyUpCall(s) == \/ ZoneRoute(s) \/ CallRoute(s) \/ CallNotFound(s)
                \/ \E j \in Modules : CallLocal(s, j)
                \/ \E ok \in BOOLEAN, j \in Modules : ZoneLocal(s, j, ok)

KeyUpRecord(s) ==
  \E ok \in BOOLEAN :
    \/ EchoStart(s, ok)
    \/ VoicemailStart(s, ok) \/ VoicemailClear(s, ok) \/ VoicemailPlay(s, ok)

Frame(s, end) == \/ FrameRouted(s, end) \/ FrameEchoed(s, end)
                 \/ FrameStored(s, end) \/ FrameCrossed(s, end)

Packet == \/ \E s \in Remote : FromOutside(s)
          \/ \E s \in Callers : KeyUpCall(s)
          \/ \E s \in Recorders : KeyUpRecord(s)
          \/ \E s \in Local : KeyUp(s) \/ \E end \in BOOLEAN : Frame(s, end)

Passing == Tick \/ PassBegins \/ \E i \in Modules : TimeoutsOf(i)

Next == Packet \/ Passing

Spec == Init /\ [][Next]_vars

\* Time passes, and the loop turns.
FairSpec == Spec /\ WF_vars(Passing)

-----------------------------------------------------------------------------
(* The inductive invariant behind the safety properties.                   *)

\* A stream that came from outside is on the air of a module only while the
\* module's slot holds it and its timer runs: there are never two, and the
\* slot is never given to the next before the radio got the end of the last.
\* (The two tests of last_time in ProcessG2Header and ProcessIcom, and
\* end_of_audio in ProcessTimeouts.)
TrackedOnAir ==
  \A m \in Modules : \A s \in onAir[m] \ Local :
    rptr[m].id = s /\ rptr[m].timer > 0

\* The talker whose stream is routed is forwarded to the remote gateway, if
\* his header came once: Index, which every header takes back, is the one of
\* his own lookup, also when another stream on the module found no route or
\* found one taken.  (If it came again, see RepeatedHeaderForwards.)
TalkerIsForwarded ==
  \A m \in Modules \ again :
    route[m].id # None /\ route[m].id = band[m].id => index[m]

\* A recording that is open writes to a file that is there: neither C0 nor a
\* playback deletes it.
RecordingHasFile ==
  \A m \in Modules : /\ recd[m].id # None => echoFile[m] # "none"
                     /\ vm[m].id # None => vmFile[m] # "none"

IInv == TypeOK /\ TrackedOnAir /\ TalkerIsForwarded /\ RecordingHasFile

-----------------------------------------------------------------------------
(* Properties.                                                             *)

\* The gateway implements a channel with one stream at a time for the
\* streams it brings to each module from outside.
Radio == INSTANCE RadioChannel
           WITH Streams <- Remote \cup {Stray},
                channel <- [m \in Modules |-> onAir[m] \ Local]
OneAtATime == Radio!Spec

Quiet ==
  /\ ~Running
  /\ \A m \in Modules : onAir[m] \subseteq Local

\* Once no more packets come, every stream and recording is over after a
\* while, those whose end was lost too, and the radio was told so.
SilenceFreesAll == <>[][Passing]_vars => <>[]Quiet

\* Slot f has become g: nobody took it, and its time, if it changed, ran on.
Worn(f, g) == \A m \in Modules : g[m].id \in {f[m].id, None} /\ g[m].timer <= f[m].timer

\* The safety half of SilenceFreesAll: time and timeouts, playbacks included,
\* begin nothing and give no stream more time; a second wears every timer that
\* runs, and a module that ProcessTimeouts is done with has no slot timed out.
SilenceRunsOut ==
  [][/\ Passing => /\ \A m \in Modules : onAir'[m] \subseteq onAir[m]
                   /\ Worn(rptr, rptr') /\ Worn(band, band') /\ Worn(route, route')
                   /\ Worn(recd, recd') /\ Worn(vm, vm')
     /\ Tick => \A m \in Modules :
          /\ rptr[m].timer > 0 => rptr'[m].timer < rptr[m].timer
          /\ band[m].timer > 0 => band'[m].timer < band[m].timer
          /\ route[m].timer > 0 => route'[m].timer < route[m].timer
          /\ recd[m].timer > 0 => recd'[m].timer < recd[m].timer
          /\ vm[m].timer > 0 => vm'[m].timer < vm[m].timer
     /\ \A i \in Modules : TimeoutsOf(i) =>
          /\ ~Expired(rptr', i) /\ ~Expired(band', i) /\ ~Expired(route', i)
          /\ ~Expired(recd', i) /\ ~Expired(vm', i)]_vars

\* A header that comes again leaves the talker's route as it was.  (A zone route
\* is not looked up while the module has one, QnetGateway.cpp:1413, and Index
\* is taken back before, 1331.)
RepeatedHeaderForwards ==
  \A m \in again :
    route[m].id # None /\ route[m].id = band[m].id => index[m]

\* When a local stream ends, so does its cross-band transmission ("maybe
\* this is cross-banding data" sends its frames and its end there).
CrossBandEnds ==
  [][\A s \in Local : FrameCrossed(s, TRUE) =>
       \A m \in Modules : s \notin onAir'[m]]_vars

\* A recording of an echo test that is over leaves no file ("when the
\* echotest thread runs, it deletes the file"), so the next can be made.
EchoFileDeleted ==
  \A m \in Modules : recd[m].id = None => echoFile[m] = "none"
=============================================================================
