------------------------ MODULE GatewayStreams_proof ------------------------
(***************************************************************************)
(* Proofs about GatewayStreams, for any number of modules, any streams and *)
(* any timeouts: what is on the air from outside is what the slots say,    *)
(* so the gateway implements a channel with one stream at a time.          *)
(***************************************************************************)
EXTENDS GatewayStreams, TLAPS

-----------------------------------------------------------------------------
(* The slots: what each way to change one keeps.                           *)

\* Time never makes a slot idle, and never fills it.
LEMMA AgedSlot ==
  ASSUME NEW ids, NEW wait \in Nat, NEW f \in Slot(ids, wait), NEW k \in Nat
  PROVE  /\ Aged(f, k) \in Slot(ids, wait)
         /\ \A m \in Modules : /\ Aged(f, k)[m].id = f[m].id
                               /\ Aged(f, k)[m].timer > 0 <=> f[m].timer > 0
<1>1. ASSUME NEW m \in Modules
      PROVE  /\ f[m].id \in ids \cup {None} /\ f[m].timer \in 0 .. wait + 1
             /\ Later(f[m].timer, k) \in 0 .. wait + 1
             /\ Later(f[m].timer, k) > 0 <=> f[m].timer > 0
  <2>1. f[m] \in [id : ids \cup {None}, timer : 0 .. wait + 1]
    BY DEF Slot
  <2>2. f[m].id \in ids \cup {None} /\ f[m].timer \in 0 .. wait + 1
    BY <2>1
  <2>3. QED
    BY <2>2 DEF Later
<1>2. QED
  BY <1>1 DEF Aged, Slot

\* A slot is started, or goes idle.
LEMMA SetSlot ==
  ASSUME NEW ids, NEW wait \in Nat, NEW f \in Slot(ids, wait),
         NEW i \in Modules, NEW s \in ids
  PROVE  /\ [f EXCEPT ![i] = Started(s, wait)] \in Slot(ids, wait)
         /\ [f EXCEPT ![i] = Idle] \in Slot(ids, wait)
  BY DEF Slot, Started, Idle

\* A slot that timed out goes idle, and no other changes.
LEMMA ExpireSlot ==
  ASSUME NEW ids, NEW wait \in Nat, NEW f \in Slot(ids, wait), NEW i \in Modules
  PROVE  /\ Expire(f, i) \in Slot(ids, wait)
         /\ \A m \in Modules : Expire(f, i)[m].id \in {f[m].id, None}
  BY DEF Slot, Expire, Expired, Idle

\* Whatever happens to band_txt after a frame, its slots stay slots, and no
\* module gets another talker.
LEMMA HeardSlot ==
  ASSUME NEW s \in Local, NEW end \in BOOLEAN, LocalWait \in Nat,
         band \in Slot(Local, LocalWait)
  PROVE  /\ Heard(s, end) \in Slot(Local, LocalWait)
         /\ \A m \in Modules : Heard(s, end)[m].id \in {band[m].id, None}
  BY DEF Slot, Heard, Started, Idle

\* A playback takes a natural number of seconds.
LEMMA PlayTimeNat == ASSUME NEW file PROVE PlayTime(file) \subseteq Nat
  BY WaitAssumption DEF PlayTime

-----------------------------------------------------------------------------
(* The inductive invariant.                                                *)

LEMMA InitIInv == Init => IInv
<1> SUFFICES ASSUME Init PROVE IInv
  OBVIOUS
<1>1. TypeOK
  <2>1. ASSUME NEW ids, NEW wait \in Nat
        PROVE  [m \in Modules |-> Idle] \in Slot(ids, wait)
    BY DEF Slot, Idle
  <2>2. echoFile \in [Modules -> Files] /\ vmFile \in [Modules -> Files]
    BY DEF Init, Files
  <2>3. index \in [Modules -> BOOLEAN] /\ again \subseteq Modules /\ notInCache \in BOOLEAN
    BY DEF Init
  <2>4. at \in 0 .. N /\ onAir \in [Modules -> SUBSET (Remote \cup Local \cup {Stray})]
    BY ModuleAssumption DEF Init
  <2>5. QED
    BY <2>1, <2>2, <2>3, <2>4, WaitAssumption DEF Init, TypeOK
<1>2. TrackedOnAir /\ TalkerIsForwarded /\ RecordingHasFile
  BY DEF Init, TrackedOnAir, TalkerIsForwarded, RecordingHasFile, Idle
<1>3. QED
  BY <1>1, <1>2 DEF IInv

\* The headers and frames from outside.
LEMMA OutsideIInv ==
  ASSUME IInv, NEW s \in Remote, FromOutside(s)
  PROVE  IInv'
<1> USE DEF IInv
<1>0. /\ rptr \in Slot(Remote \cup {Stray}, RemoteWait)
      /\ RemoteWait \in Nat /\ Dest[s] \in Modules
  BY WaitAssumption, ModuleAssumption DEF TypeOK
<1>1. ASSUME NEW m \in Modules, NEW x \in Remote \cup {Stray},
             at = 0, RadioFree(m), StartOn(m, x),
             UNCHANGED <<at, talkVars, route, echoVars, vmVars>>
      PROVE  IInv'
  <2>1. rptr' \in Slot(Remote \cup {Stray}, RemoteWait)
    BY <1>0, <1>1, SetSlot DEF StartOn
  <2>2. TypeOK'
    BY <1>1, <2>1 DEF TypeOK, StartOn, talkVars, echoVars, vmVars
  <2>3. TrackedOnAir'
    <3> SUFFICES ASSUME NEW n \in Modules, NEW y \in onAir'[n] \ Local
                 PROVE  rptr'[n].id = y /\ rptr'[n].timer > 0
      BY DEF TrackedOnAir
    <3>1. CASE n # m
      BY <3>1, <1>1 DEF TypeOK, Slot, StartOn, TrackedOnAir
    <3>2. CASE n = m
      <4>1. onAir[m] \ Local = {}
        BY <1>1 DEF TrackedOnAir, RadioFree
      <4>2. y = x
        BY <4>1, <3>2, <1>1 DEF StartOn, TypeOK
      <4>3. QED
        BY <4>2, <3>2, <1>0, <1>1 DEF StartOn, Started, TypeOK, Slot
    <3>3. QED
      BY <3>1, <3>2
  <2>4. (TalkerIsForwarded /\ RecordingHasFile)'
    BY <1>1 DEF TalkerIsForwarded, RecordingHasFile, talkVars, echoVars, vmVars
  <2>5. QED
    BY <2>2, <2>3, <2>4
<1>2. CASE G2Header(s)
  BY <1>0, <1>1, <1>2 DEF G2Header
<1>3. CASE G2SlowHeader(s)
  BY <1>0, <1>1, <1>3 DEF G2SlowHeader
<1>4. ASSUME NEW end \in BOOLEAN, G2Frame(s, end)
      PROVE  IInv'
  <2>1. PICK m \in Modules :
          /\ rptr[m].id = s
          /\ rptr' = [rptr EXCEPT ![m] = IF end THEN Idle ELSE Started(s, RemoteWait)]
          /\ onAir' = IF end THEN [onAir EXCEPT ![m] = @ \ {s}] ELSE onAir
    BY <1>4 DEF G2Frame, First, Saved
  <2>2. rptr' \in Slot(Remote \cup {Stray}, RemoteWait)
    BY <1>0, <2>1, SetSlot
  <2>3. TypeOK'
    BY <1>4, <2>1, <2>2 DEF TypeOK, G2Frame, talkVars, echoVars, vmVars
  <2>4. TrackedOnAir'
    <3> SUFFICES ASSUME NEW n \in Modules, NEW y \in onAir'[n] \ Local
                 PROVE  rptr'[n].id = y /\ rptr'[n].timer > 0
      BY DEF TrackedOnAir
    <3>1. y \in onAir[n] \ Local /\ rptr[n].id = y /\ rptr[n].timer > 0
      BY <2>1 DEF TrackedOnAir, TypeOK
    <3>2. CASE n # m
      BY <3>1, <3>2, <2>1 DEF TypeOK, Slot
    <3>3. CASE n = m
      BY <3>1, <3>3, <2>1, <1>0 DEF TypeOK, Slot, Started
    <3>4. QED
      BY <3>2, <3>3
  <2>5. (TalkerIsForwarded /\ RecordingHasFile)'
    BY <1>4 DEF G2Frame, TalkerIsForwarded, RecordingHasFile, talkVars, echoVars, vmVars
  <2>6. QED
    BY <2>3, <2>4, <2>5
<1>5. QED
  BY <1>2, <1>3, <1>4 DEF FromOutside

\* What every header of a local stream does.
LEMMA KeyedIInv ==
  ASSUME IInv, NEW s \in Local, NEW ok \in BOOLEAN, NEW found \in BOOLEAN,
         Keyed(s, ok, found)
  PROVE  /\ Src[s] \in Modules
         /\ band' \in Slot(Local, LocalWait)
         /\ index' \in [Modules -> BOOLEAN] /\ again' \subseteq Modules
         /\ \A m \in Modules \ again' :
              route[m].id # None /\ route[m].id = band'[m].id => index'[m]
<1> USE DEF IInv
<1>1. Src[s] \in Modules /\ LocalWait \in Nat /\ s # None
  BY ModuleAssumption, WaitAssumption, StreamAssumption
<1>2. band \in Slot(Local, LocalWait) /\ index \in [Modules -> BOOLEAN]
  BY DEF TypeOK
<1>3. [band EXCEPT ![Src[s]] = Started(s, LocalWait)] \in Slot(Local, LocalWait)
  BY <1>1, <1>2, SetSlot
<1>4. again \subseteq Modules
  BY DEF TypeOK
<1>5. \A m \in Modules \ again' :
        route[m].id # None /\ route[m].id = band'[m].id => index'[m]
  <2> SUFFICES ASSUME NEW m \in Modules \ again', route[m].id # None,
                      route[m].id = band'[m].id
               PROVE  index'[m]
    OBVIOUS
  <2>1. CASE ok
    <3>1. CASE m = Src[s]
      BY <3>1, <2>1, <1>1, <1>2, <1>4 DEF Keyed, TalkerIs, Started, Slot
    <3>2. CASE m # Src[s]
      BY <3>2, <2>1, <1>1, <1>2 DEF Keyed, TalkerIs, Slot, TalkerIsForwarded
    <3>3. QED
      BY <3>1, <3>2
  <2>2. CASE ~ok
    BY <2>2 DEF Keyed, TalkerIsForwarded
  <2>3. QED
    BY <2>1, <2>2
<1>6. QED
  BY <1>1, <1>2, <1>3, <1>4, <1>5 DEF Keyed, TalkerIs

\* A header that does no more than that.
LEMMA KeyedAlone ==
  ASSUME IInv, NEW s \in Local, NEW ok \in BOOLEAN, NEW found \in BOOLEAN,
         Keyed(s, ok, found), notInCache' \in BOOLEAN,
         UNCHANGED <<at, airVars, route, echoVars, vmVars>>
  PROVE  IInv'
<1>1. /\ band' \in Slot(Local, LocalWait) /\ index' \in [Modules -> BOOLEAN]
      /\ again' \subseteq Modules
      /\ \A m \in Modules \ again' :
           route[m].id # None /\ route[m].id = band'[m].id => index'[m]
  BY KeyedIInv
<1>2. TypeOK'
  BY <1>1 DEF IInv, TypeOK, airVars, echoVars, vmVars
<1>3. TalkerIsForwarded'
  BY <1>1 DEF TalkerIsForwarded
<1>4. TrackedOnAir' /\ RecordingHasFile'
  BY DEF IInv, TrackedOnAir, RecordingHasFile, airVars, echoVars, vmVars
<1>5. QED
  BY <1>2, <1>3, <1>4 DEF IInv

\* A header that is sent to the radio of another module starts its timer
\* and leaves what came from outside alone: there is nothing.
LEMMA CrossToIInv ==
  ASSUME IInv, NEW s \in Local, NEW j \in Modules, CrossTo(j, s)
  PROVE  /\ rptr' \in Slot(Remote \cup {Stray}, RemoteWait)
         /\ onAir' \in [Modules -> SUBSET (Remote \cup Local \cup {Stray})]
         /\ TrackedOnAir'
<1> USE DEF IInv
<1>1. rptr \in Slot(Remote \cup {Stray}, RemoteWait) /\ RemoteWait \in Nat
  BY WaitAssumption DEF TypeOK
<1>2. CASE j # Src[s] /\ RadioFree(j)
  <2>1. rptr' = [rptr EXCEPT ![j].timer = RemoteWait + 1]
    BY <1>2 DEF CrossTo
  <2>2. onAir' = [onAir EXCEPT ![j] = @ \cup {s}]
    BY <1>2 DEF CrossTo
  <2>3. rptr' \in Slot(Remote \cup {Stray}, RemoteWait)
    BY <2>1, <1>1 DEF Slot
  <2>4. ASSUME NEW n \in Modules, NEW y \in onAir'[n] \ Local
        PROVE  rptr'[n].id = y /\ rptr'[n].timer > 0
    BY <2>1, <2>2, <1>1, <1>2 DEF TypeOK, Slot, TrackedOnAir, RadioFree
  <2>5. QED
    BY <2>2, <2>3, <2>4 DEF TypeOK, TrackedOnAir
<1>3. CASE ~(j # Src[s] /\ RadioFree(j))
  BY <1>3, <1>1 DEF CrossTo, airVars, TypeOK, TrackedOnAir
<1>4. QED
  BY <1>2, <1>3

\* The headers of the local radios that are routed or cross-banded.
LEMMA CallIInv ==
  ASSUME IInv, NEW s \in Local, (\E ok \in BOOLEAN : Talk(s, ok)) \/ KeyUpCall(s)
  PROVE  IInv'
<1> USE DEF IInv
<1>0. LocalWait \in Nat /\ route \in Slot(Local, LocalWait) /\ s # None
      /\ Src[s] \in Modules
  BY WaitAssumption, StreamAssumption, ModuleAssumption DEF TypeOK
<1>1. ASSUME NEW ok \in BOOLEAN, Talk(s, ok)
      PROVE  IInv'
  <2>1. Keyed(s, ok, FALSE) /\ UNCHANGED <<at, airVars, notInCache, route, echoVars, vmVars>>
    BY <1>1 DEF Talk
  <2>2. QED
    BY <2>1, KeyedAlone DEF TypeOK
<1>2. ASSUME Keyed(s, TRUE, TRUE),
             route' = [route EXCEPT ![Src[s]] = Started(s, LocalWait)],
             UNCHANGED <<at, airVars, notInCache, echoVars, vmVars>>
      PROVE  IInv'
  <2>1. route' \in Slot(Local, LocalWait)
    BY <1>0, <1>2, SetSlot
  <2>2. TypeOK' /\ TrackedOnAir' /\ RecordingHasFile'
    BY <1>2, <2>1, KeyedIInv
    DEF TypeOK, TrackedOnAir, RecordingHasFile, airVars, echoVars, vmVars
  <2>3. index'[Src[s]]
    BY <1>0, <1>2 DEF Keyed, TypeOK
  <2>4. TalkerIsForwarded'
    <3> SUFFICES ASSUME NEW m \in Modules \ again', route'[m].id # None,
                        route'[m].id = band'[m].id
                 PROVE  index'[m]
      BY DEF TalkerIsForwarded
    <3>1. CASE m = Src[s]
      BY <3>1, <2>3
    <3>2. CASE m # Src[s]
      <4>1. route'[m] = route[m]
        BY <3>2, <1>0, <1>2 DEF Slot
      <4>2. QED
        BY <4>1, <1>2, KeyedIInv
    <3>3. QED
      BY <3>1, <3>2
  <2>5. QED
    BY <2>2, <2>4
<1>3. CASE ZoneRoute(s)
  BY <1>2, <1>3 DEF ZoneRoute
<1>4. CASE CallRoute(s)
  <2>1. CASE route[Src[s]].id = None
    BY <2>1, <1>2, <1>4 DEF CallRoute
  <2>2. CASE route[Src[s]].id # None
    <3>1. Keyed(s, TRUE, TRUE) /\ UNCHANGED <<at, airVars, notInCache, route, echoVars, vmVars>>
      BY <2>2, <1>4 DEF CallRoute
    <3>2. QED
      BY <3>1, KeyedAlone DEF TypeOK
  <2>3. QED
    BY <2>1, <2>2
<1>5. CASE CallNotFound(s)
  <2>1. Keyed(s, TRUE, FALSE) /\ notInCache' = TRUE
        /\ UNCHANGED <<at, airVars, route, echoVars, vmVars>>
    BY <1>5 DEF CallNotFound
  <2>2. QED
    BY <2>1, KeyedAlone DEF TypeOK
<1>6. ASSUME NEW j \in Modules, NEW ok \in BOOLEAN, NEW found \in BOOLEAN,
             Keyed(s, ok, found), CrossTo(j, s),
             UNCHANGED <<at, notInCache, route, echoVars, vmVars>>
      PROVE  IInv'
  BY <1>6, KeyedIInv, CrossToIInv
  DEF TypeOK, TalkerIsForwarded, RecordingHasFile, echoVars, vmVars
<1>7. ASSUME NEW j \in Modules, CallLocal(s, j)
      PROVE  IInv'
  BY <1>6, <1>7 DEF CallLocal
<1>8. ASSUME NEW j \in Modules, NEW ok \in BOOLEAN, ZoneLocal(s, j, ok)
      PROVE  IInv'
  BY <1>6, <1>8 DEF ZoneLocal
<1>9. QED
  BY <1>1, <1>3, <1>4, <1>5, <1>7, <1>8 DEF KeyUpCall

\* A step that gives no module another talker or route keeps the lookup of
\* the talker.
LEMMA SameTalkers ==
  ASSUME TalkerIsForwarded, UNCHANGED <<index, again>>,
         \A m \in Modules : /\ band'[m].id \in {band[m].id, None}
                            /\ route'[m].id \in {route[m].id, None}
  PROVE  TalkerIsForwarded'
  BY DEF TalkerIsForwarded

\* Time changes no streamid.
LEMMA AgedId ==
  ASSUME NEW f, NEW k PROVE \A m \in Modules : Aged(f, k)[m].id = f[m].id
  BY DEF Aged

\* The slots that hold streams of the local radios stay slots.
LEMMA AgedLocal ==
  ASSUME NEW k \in Nat, NEW wait \in Nat, NEW f \in Slot(Local, wait)
  PROVE  Aged(f, k) \in Slot(Local, wait)
  BY AgedSlot

\* Time that passes, playing a file or not, leaves the radios as they are.
LEMMA AgedRadio ==
  ASSUME IInv, NEW k \in Nat, rptr' = Aged(rptr, k), UNCHANGED onAir
  PROVE  rptr' \in Slot(Remote \cup {Stray}, RemoteWait) /\ TrackedOnAir'
<1>1. rptr \in Slot(Remote \cup {Stray}, RemoteWait) /\ RemoteWait \in Nat
  BY WaitAssumption DEF IInv, TypeOK
<1>2. /\ Aged(rptr, k) \in Slot(Remote \cup {Stray}, RemoteWait)
      /\ \A m \in Modules : /\ Aged(rptr, k)[m].id = rptr[m].id
                            /\ Aged(rptr, k)[m].timer > 0 <=> rptr[m].timer > 0
  BY <1>1, AgedSlot
<1>3. QED
  BY <1>2 DEF IInv, TrackedOnAir

\* The headers of the local radios that use the recordings.
LEMMA RecordIInv ==
  ASSUME IInv, NEW s \in Local, KeyUpRecord(s)
  PROVE  IInv'
<1> USE DEF IInv
<1>0. /\ Src[s] \in Modules /\ LocalWait \in Nat /\ EchoWait \in Nat /\ VmWait \in Nat
      /\ band \in Slot(Local, LocalWait) /\ route \in Slot(Local, LocalWait)
      /\ recd \in Slot(Local, EchoWait) /\ vm \in Slot(Local, VmWait)
      /\ echoFile \in [Modules -> Files] /\ vmFile \in [Modules -> Files]
  BY ModuleAssumption, WaitAssumption DEF TypeOK
<1>1. ASSUME NEW ok \in BOOLEAN, EchoStart(s, ok)
      PROVE  IInv'
  <2>1. /\ Keyed(s, ok, FALSE)
        /\ recd' = [recd EXCEPT ![Src[s]] = Started(s, EchoWait)]
        /\ echoFile' = [echoFile EXCEPT ![Src[s]] = "header"]
        /\ UNCHANGED <<at, airVars, notInCache, route, vmVars>>
    BY <1>1 DEF EchoStart
  <2>2. recd' \in Slot(Local, EchoWait) /\ echoFile' \in [Modules -> Files]
    BY <1>0, <2>1, SetSlot DEF Files
  <2>3. TypeOK' /\ TrackedOnAir' /\ TalkerIsForwarded'
    <3>1. /\ band' \in Slot(Local, LocalWait) /\ index' \in [Modules -> BOOLEAN]
          /\ again' \subseteq Modules
          /\ \A m \in Modules \ again' :
               route[m].id # None /\ route[m].id = band'[m].id => index'[m]
      BY <2>1, KeyedIInv
    <3>2. TypeOK'
      BY <2>1, <2>2, <3>1 DEF TypeOK, airVars, vmVars
    <3>3. QED
      BY <2>1, <3>1, <3>2 DEF TrackedOnAir, TalkerIsForwarded, airVars
  <2>4. RecordingHasFile'
    BY <1>0, <2>1 DEF RecordingHasFile, Slot, vmVars
  <2>5. QED
    BY <2>3, <2>4
<1>2. ASSUME NEW ok \in BOOLEAN, VoicemailStart(s, ok)
      PROVE  IInv'
  <2>1. /\ Keyed(s, ok, FALSE)
        /\ vm' = [vm EXCEPT ![Src[s]] = Started(s, VmWait)]
        /\ vmFile' = [vmFile EXCEPT ![Src[s]] = "header"]
        /\ UNCHANGED <<at, airVars, notInCache, route, echoVars>>
    BY <1>2 DEF VoicemailStart
  <2>2. vm' \in Slot(Local, VmWait) /\ vmFile' \in [Modules -> Files]
    BY <1>0, <2>1, SetSlot DEF Files
  <2>3. TypeOK' /\ TrackedOnAir' /\ TalkerIsForwarded'
    <3>1. /\ band' \in Slot(Local, LocalWait) /\ index' \in [Modules -> BOOLEAN]
          /\ again' \subseteq Modules
          /\ \A m \in Modules \ again' :
               route[m].id # None /\ route[m].id = band'[m].id => index'[m]
      BY <2>1, KeyedIInv
    <3>2. TypeOK'
      BY <2>1, <2>2, <3>1 DEF TypeOK, airVars, echoVars
    <3>3. QED
      BY <2>1, <3>1, <3>2 DEF TrackedOnAir, TalkerIsForwarded, airVars
  <2>4. RecordingHasFile'
    BY <1>0, <2>1 DEF RecordingHasFile, Slot, echoVars
  <2>5. QED
    BY <2>3, <2>4
<1>3. ASSUME NEW ok \in BOOLEAN, VoicemailClear(s, ok)
      PROVE  IInv'
  <2>1. /\ Keyed(s, ok, FALSE) /\ vm[Src[s]].id = None
        /\ vmFile' = [vmFile EXCEPT ![Src[s]] = "none"]
        /\ UNCHANGED <<at, airVars, notInCache, route, echoVars, vm>>
    BY <1>3 DEF VoicemailClear
  <2>2. vmFile' \in [Modules -> Files]
    BY <1>0, <2>1 DEF Files
  <2>3. TypeOK' /\ TrackedOnAir' /\ TalkerIsForwarded'
    <3>1. /\ band' \in Slot(Local, LocalWait) /\ index' \in [Modules -> BOOLEAN]
          /\ again' \subseteq Modules
          /\ \A m \in Modules \ again' :
               route[m].id # None /\ route[m].id = band'[m].id => index'[m]
      BY <2>1, KeyedIInv
    <3>2. TypeOK'
      BY <2>1, <2>2, <3>1 DEF TypeOK, airVars, echoVars
    <3>3. QED
      BY <2>1, <3>1, <3>2 DEF TrackedOnAir, TalkerIsForwarded, airVars
  <2>4. RecordingHasFile'
    BY <1>0, <2>1 DEF RecordingHasFile, echoVars
  <2>5. QED
    BY <2>3, <2>4
<1>4. ASSUME NEW ok \in BOOLEAN, VoicemailPlay(s, ok)
      PROVE  IInv'
  <2>1. PICK k \in PlayTime(vmFile[Src[s]]) :
          /\ rptr' = Aged(rptr, k)
          /\ band' = Aged([band EXCEPT ![Src[s]] = Idle], k)
          /\ route' = Aged(route, k)
          /\ recd' = Aged(recd, k) /\ vm' = Aged(vm, k)
    BY <1>4 DEF VoicemailPlay
  <2>2. /\ index' = IF ok THEN [index EXCEPT ![Src[s]] = FALSE] ELSE index
        /\ UNCHANGED <<at, onAir, again, notInCache, echoFile, vmFile>>
    BY <1>4 DEF VoicemailPlay
  <2>3. k \in Nat
    BY PlayTimeNat
  <2>4. rptr' \in Slot(Remote \cup {Stray}, RemoteWait) /\ TrackedOnAir'
    BY <2>1, <2>2, <2>3, AgedRadio
  <2>5. [band EXCEPT ![Src[s]] = Idle] \in Slot(Local, LocalWait)
    BY <1>0, SetSlot
  <2>6. /\ band' \in Slot(Local, LocalWait)
        /\ \A m \in Modules : band'[m].id = [band EXCEPT ![Src[s]] = Idle][m].id
    <3>1. band' \in Slot(Local, LocalWait)
      BY <1>0, <2>1, <2>3, <2>5, AgedLocal
    <3>2. QED
      BY <3>1, <2>1, AgedId
  <2>7. route' \in Slot(Local, LocalWait)
    BY <1>0, <2>1, <2>3, AgedLocal
  <2>8. recd' \in Slot(Local, EchoWait) /\ vm' \in Slot(Local, VmWait)
    BY <1>0, <2>1, <2>3, AgedLocal
  <2>0. \A m \in Modules : /\ route'[m].id = route[m].id /\ recd'[m].id = recd[m].id
                           /\ vm'[m].id = vm[m].id
    BY <2>1, AgedId
  <2>9. TypeOK'
    BY <1>0, <2>2, <2>4, <2>6, <2>7, <2>8 DEF TypeOK
  <2>10. TalkerIsForwarded'
    <3> SUFFICES ASSUME NEW m \in Modules \ again', route'[m].id # None,
                        route'[m].id = band'[m].id
                 PROVE  index'[m]
      BY DEF TalkerIsForwarded
    <3>1. CASE m = Src[s]
      <4>1. band'[m].id = None
        BY <3>1, <1>0, <2>6 DEF Slot, Idle
      <4>2. QED
        BY <4>1
    <3>2. CASE m # Src[s]
      <4>1. band'[m].id = band[m].id
        BY <3>2, <1>0, <2>6 DEF Slot
      <4>2. QED
        BY <3>2, <4>1, <2>2, <2>0 DEF TalkerIsForwarded, TypeOK
    <3>3. QED
      BY <3>1, <3>2
  <2>11. RecordingHasFile'
    BY <2>2, <2>0 DEF RecordingHasFile
  <2>12. QED
    BY <2>4, <2>9, <2>10, <2>11
<1>5. QED
  BY <1>1, <1>2, <1>3, <1>4 DEF KeyUpRecord

\* What the frames of a local stream do: none of them is saved on a radio,
\* so a cross-banded stream gets no frame.
LEMMA FrameIInv ==
  ASSUME IInv, NEW s \in Local, NEW end \in BOOLEAN, Frame(s, end)
  PROVE  IInv'
<1> USE DEF IInv
<1>0. /\ LocalWait \in Nat /\ EchoWait \in Nat /\ VmWait \in Nat
      /\ band \in Slot(Local, LocalWait) /\ route \in Slot(Local, LocalWait)
      /\ recd \in Slot(Local, EchoWait) /\ vm \in Slot(Local, VmWait)
      /\ echoFile \in [Modules -> Files] /\ vmFile \in [Modules -> Files]
      /\ index \in [Modules -> BOOLEAN] /\ again \subseteq Modules /\ notInCache \in BOOLEAN
      /\ s # None
  BY WaitAssumption, StreamAssumption DEF TypeOK
<1>1. /\ Heard(s, end) \in Slot(Local, LocalWait)
      /\ \A m \in Modules : Heard(s, end)[m].id \in {band[m].id, None}
  BY <1>0, HeardSlot
<1>2. CASE FrameRouted(s, end)
  <2>1. PICK m \in Modules :
          /\ route[m].id = s
          /\ route' = [route EXCEPT ![m] = IF end THEN Idle ELSE Started(s, LocalWait)]
    BY <1>2 DEF FrameRouted, Routed
  <2>2. /\ band' = Heard(s, end) /\ notInCache' = (notInCache /\ ~Announced(s, end))
        /\ UNCHANGED <<at, airVars, index, again, echoVars, vmVars>>
    BY <1>2 DEF FrameRouted
  <2>3. route' \in Slot(Local, LocalWait)
    BY <1>0, <2>1, SetSlot
  <2>4. \A n \in Modules : route'[n].id \in {route[n].id, None}
    BY <1>0, <2>1 DEF Slot, Started, Idle
  <2>5. TalkerIsForwarded'
    BY <1>1, <2>2, <2>4, SameTalkers
  <2>6. TypeOK'
    BY <1>0, <1>1, <2>2, <2>3 DEF TypeOK, airVars, echoVars, vmVars
  <2>7. TrackedOnAir' /\ RecordingHasFile'
    BY <2>2 DEF TrackedOnAir, RecordingHasFile, airVars, echoVars, vmVars
  <2>8. QED
    BY <2>5, <2>6, <2>7
<1>3. CASE FrameEchoed(s, end)
  <2>1. PICK m \in Modules, k \in PlayTime(IF end THEN "audio" ELSE "none") :
          /\ recd[m].id = s
          /\ recd' = Aged([recd EXCEPT ![m] =
                             IF end THEN Idle ELSE Started(s, EchoWait)], k)
          /\ echoFile' = [echoFile EXCEPT ![m] = IF end THEN "none" ELSE "audio"]
          /\ rptr' = Aged(rptr, k) /\ band' = Aged(Heard(s, end), k)
          /\ route' = Aged(route, k) /\ vm' = Aged(vm, k)
    BY <1>3 DEF FrameEchoed
  <2>2. /\ notInCache' = (notInCache /\ ~Announced(s, end))
        /\ UNCHANGED <<at, onAir, index, again, vmFile>>
    BY <1>3 DEF FrameEchoed
  <2>3. k \in Nat
    BY PlayTimeNat
  <2>4. rptr' \in Slot(Remote \cup {Stray}, RemoteWait) /\ TrackedOnAir'
    BY <2>1, <2>2, <2>3, AgedRadio
  <2>5. band' \in Slot(Local, LocalWait) /\ route' \in Slot(Local, LocalWait)
    BY <1>0, <1>1, <2>1, <2>3, AgedLocal
  <2>6. vm' \in Slot(Local, VmWait)
    BY <1>0, <2>1, <2>3, AgedLocal
  <2>7. [recd EXCEPT ![m] = IF end THEN Idle ELSE Started(s, EchoWait)]
          \in Slot(Local, EchoWait)
    BY <1>0, SetSlot
  <2>8. recd' \in Slot(Local, EchoWait)
    BY <1>0, <2>1, <2>3, <2>7, AgedLocal
  <2>9. echoFile' \in [Modules -> Files]
    BY <1>0, <2>1 DEF Files
  <2>10. TypeOK'
    BY <2>2, <2>4, <2>5, <2>6, <2>8, <2>9 DEF TypeOK
  <2>11. \A n \in Modules : /\ band'[n].id = Heard(s, end)[n].id
                            /\ route'[n].id = route[n].id /\ vm'[n].id = vm[n].id
    BY <2>1, AgedId
  <2>12. TalkerIsForwarded'
    BY <1>1, <2>2, <2>11, SameTalkers
  <2>13. ASSUME NEW n \in Modules, recd'[n].id # None
         PROVE  echoFile'[n] # "none"
    <3>1. recd'[n].id = [recd EXCEPT ![m] =
                           IF end THEN Idle ELSE Started(s, EchoWait)][n].id
      BY <2>1, Zenon DEF Aged
    <3>2. CASE n = m
      BY <3>1, <3>2, <2>1, <2>13, <1>0 DEF Slot, Idle
    <3>3. CASE n # m
      BY <3>1, <3>3, <2>1, <2>13, <1>0 DEF Slot, RecordingHasFile
    <3>4. QED
      BY <3>2, <3>3
  <2>14. RecordingHasFile'
    BY <2>2, <2>11, <2>13 DEF RecordingHasFile
  <2>15. QED
    BY <2>4, <2>10, <2>12, <2>14
<1>4. CASE FrameStored(s, end)
  <2>1. PICK m \in Modules :
          /\ vm' = [vm EXCEPT ![m] = IF end THEN Idle ELSE Started(s, VmWait)]
          /\ vmFile' = [vmFile EXCEPT ![m] = "audio"]
    BY <1>4 DEF FrameStored
  <2>2. /\ band' = Heard(s, end) /\ notInCache' = (notInCache /\ ~Announced(s, end))
        /\ UNCHANGED <<at, airVars, index, again, route, echoVars>>
    BY <1>4 DEF FrameStored
  <2>3. vm' \in Slot(Local, VmWait) /\ vmFile' \in [Modules -> Files]
    BY <1>0, <2>1, SetSlot DEF Files
  <2>4. TypeOK'
    BY <1>0, <1>1, <2>2, <2>3 DEF TypeOK, airVars, echoVars
  <2>5. TalkerIsForwarded'
    BY <1>1, <2>2, SameTalkers
  <2>6. RecordingHasFile'
    BY <1>0, <2>1, <2>2 DEF RecordingHasFile, Slot, echoVars
  <2>7. TrackedOnAir'
    BY <2>2 DEF TrackedOnAir, airVars
  <2>8. QED
    BY <2>4, <2>5, <2>6, <2>7
<1>5. CASE FrameCrossed(s, end)
  <2>1. /\ band' = Heard(s, end) /\ notInCache' = (notInCache /\ ~Announced(s, end))
        /\ UNCHANGED <<at, index, again, route, echoVars, vmVars>>
    BY <1>5 DEF FrameCrossed
  <2>2. Takers(s) = {}
    <3>1. \A m \in Modules : rptr[m].id # s
      <4>1. s \notin Remote \cup {Stray} \cup {None}
        BY StreamAssumption
      <4>2. QED
        BY <4>1 DEF TypeOK, Slot
    <3>2. Takers(s) \subseteq Modules
      BY DEF Takers, Routed
    <3>3. QED
      BY <3>1, <3>2, <1>5 DEF FrameCrossed
  <2>3. rptr' = rptr
    <3>1. rptr' = [m \in Modules |-> rptr[m]]
      BY <2>2, <1>5 DEF FrameCrossed, First
    <3>2. QED
      BY <3>1 DEF TypeOK, Slot
  <2>4. onAir' = onAir
    <3>1. onAir' = [m \in Modules |-> onAir[m]]
      BY <2>2, <1>5 DEF FrameCrossed, First
    <3>2. QED
      BY <3>1 DEF TypeOK
  <2>5. TypeOK'
    BY <1>0, <1>1, <2>1, <2>3, <2>4 DEF TypeOK, echoVars, vmVars
  <2>6. TalkerIsForwarded'
    BY <1>1, <2>1, SameTalkers
  <2>7. TrackedOnAir' /\ RecordingHasFile'
    BY <2>1, <2>3, <2>4 DEF TrackedOnAir, RecordingHasFile, echoVars, vmVars
  <2>8. QED
    BY <2>5, <2>6, <2>7
<1>6. QED
  BY <1>2, <1>3, <1>4, <1>5 DEF Frame

\* The steps of ProcessTimeouts, and time.
LEMMA PassingIInv ==
  ASSUME IInv, Passing
  PROVE  IInv'
<1> USE DEF IInv
<1>0. /\ LocalWait \in Nat /\ EchoWait \in Nat /\ VmWait \in Nat
      /\ band \in Slot(Local, LocalWait) /\ route \in Slot(Local, LocalWait)
      /\ recd \in Slot(Local, EchoWait) /\ vm \in Slot(Local, VmWait)
      /\ echoFile \in [Modules -> Files] /\ vmFile \in [Modules -> Files]
      /\ rptr \in Slot(Remote \cup {Stray}, RemoteWait) /\ RemoteWait \in Nat
  BY WaitAssumption DEF TypeOK
<1>1. CASE Tick
  <2>1. /\ rptr' = Aged(rptr, 1) /\ band' = Aged(band, 1) /\ route' = Aged(route, 1)
        /\ recd' = Aged(recd, 1) /\ vm' = Aged(vm, 1)
        /\ UNCHANGED <<at, onAir, index, again, notInCache, echoFile, vmFile>>
    BY <1>1 DEF Tick
  <2>2. rptr' \in Slot(Remote \cup {Stray}, RemoteWait) /\ TrackedOnAir'
    BY <2>1, AgedRadio
  <2>3. band' \in Slot(Local, LocalWait) /\ route' \in Slot(Local, LocalWait)
    BY <1>0, <2>1, AgedLocal
  <2>4. recd' \in Slot(Local, EchoWait) /\ vm' \in Slot(Local, VmWait)
    BY <1>0, <2>1, AgedLocal
  <2>5. TypeOK'
    BY <2>1, <2>2, <2>3, <2>4 DEF TypeOK
  <2>6. \A m \in Modules : /\ band'[m].id = band[m].id /\ route'[m].id = route[m].id
                           /\ recd'[m].id = recd[m].id /\ vm'[m].id = vm[m].id
    BY <2>1, AgedId
  <2>7. TalkerIsForwarded'
    BY <2>1, <2>6, SameTalkers
  <2>8. RecordingHasFile'
    BY <2>1, <2>6 DEF RecordingHasFile
  <2>9. QED
    BY <2>2, <2>5, <2>7, <2>8
<1>2. CASE PassBegins
  <2>1. at' \in 0 .. N
    BY <1>2, ModuleAssumption DEF PassBegins
  <2>2. QED
    BY <1>2, <2>1 DEF PassBegins, TypeOK, TrackedOnAir, TalkerIsForwarded,
                      RecordingHasFile, airVars, talkVars, echoVars, vmVars
<1>3. ASSUME NEW i \in Modules, TimeoutsOf(i)
      PROVE  IInv'
  <2>1. PICK k \in PlayTime(IF Expired(recd, i) THEN echoFile[i] ELSE "none") :
          /\ recd' = Aged(Expire(recd, i), k)
          /\ echoFile' = [echoFile EXCEPT ![i] = IF k > 0 THEN "none" ELSE @]
          /\ vm' = Expire(Aged(vm, k), i)
          /\ rptr' = [Aged(rptr, k) EXCEPT ![i].timer = IF @ = 1 THEN 0 ELSE @]
          /\ onAir' = Closed(Aged(rptr, k), i)
          /\ band' = Expire(Aged(band, k), i)
          /\ route' = Expire(Aged(route, k), i)
    BY <1>3 DEF TimeoutsOf
  <2>2. k \in Nat
    BY PlayTimeNat
  <2>3. /\ at' = (IF i = N THEN 0 ELSE i + 1)
        /\ UNCHANGED <<index, again, notInCache, vmFile>>
    BY <1>3 DEF TimeoutsOf
  <2>4. at' \in 0 .. N
    BY <2>3, ModuleAssumption DEF Modules
  <2>5. echoFile' \in [Modules -> Files]
    BY <1>0, <2>1 DEF Files
  <2>6. recd' \in Slot(Local, EchoWait)
    <3>1. Expire(recd, i) \in Slot(Local, EchoWait)
      BY <1>0, ExpireSlot
    <3>2. QED
      BY <1>0, <3>1, <2>1, <2>2, AgedLocal
  <2>7. band' \in Slot(Local, LocalWait) /\ route' \in Slot(Local, LocalWait)
    <3>1. Aged(band, k) \in Slot(Local, LocalWait) /\ Aged(route, k) \in Slot(Local, LocalWait)
      BY <1>0, <2>2, AgedLocal
    <3>2. QED
      BY <1>0, <3>1, <2>1, ExpireSlot
  <2>8. vm' \in Slot(Local, VmWait)
    <3>1. Aged(vm, k) \in Slot(Local, VmWait)
      BY <1>0, <2>2, AgedLocal
    <3>2. QED
      BY <1>0, <3>1, <2>1, ExpireSlot
  <2>9. /\ Aged(rptr, k) \in Slot(Remote \cup {Stray}, RemoteWait)
        /\ \A m \in Modules : /\ Aged(rptr, k)[m].id = rptr[m].id
                              /\ Aged(rptr, k)[m].timer > 0 <=> rptr[m].timer > 0
    BY <1>0, <2>2, AgedSlot
  <2>10. rptr' \in Slot(Remote \cup {Stray}, RemoteWait)
    BY <1>0, <2>1, <2>9 DEF Slot
  <2>11. onAir' \in [Modules -> SUBSET (Remote \cup Local \cup {Stray})]
    BY <2>1 DEF Closed, TypeOK
  <2>12. TypeOK'
    BY <1>0, <2>3, <2>4, <2>5, <2>6, <2>7, <2>8, <2>10, <2>11 DEF TypeOK
  <2>13. TrackedOnAir'
    <3> SUFFICES ASSUME NEW n \in Modules, NEW y \in onAir'[n] \ Local
                 PROVE  rptr'[n].id = y /\ rptr'[n].timer > 0
      BY DEF TrackedOnAir
    <3>1. y \in onAir[n] \ Local
      BY <2>1 DEF Closed, TypeOK
    <3>2. rptr[n].id = y /\ rptr[n].timer > 0
      BY <3>1 DEF TrackedOnAir
    <3>3. Aged(rptr, k)[n].id = y /\ Aged(rptr, k)[n].timer > 0
      BY <3>2, <2>9
    <3>4. CASE n # i
      BY <3>3, <3>4, <2>1, <2>9 DEF Slot
    <3>5. CASE n = i /\ Expired(Aged(rptr, k), i)
      BY <3>3, <3>5, <2>1 DEF Closed, TypeOK
    <3>6. CASE n = i /\ ~Expired(Aged(rptr, k), i)
      BY <3>3, <3>6, <2>1, <2>9 DEF Slot, Expired
    <3>7. QED
      BY <3>4, <3>5, <3>6
  <2>14. \A m \in Modules : /\ Aged(band, k)[m].id = band[m].id
                            /\ Aged(route, k)[m].id = route[m].id
                            /\ Aged(vm, k)[m].id = vm[m].id
    BY AgedId
  <2>15. \A m \in Modules : /\ band'[m].id \in {band[m].id, None}
                            /\ route'[m].id \in {route[m].id, None}
                            /\ vm'[m].id \in {vm[m].id, None}
    <3>1. /\ Aged(band, k) \in Slot(Local, LocalWait)
          /\ Aged(route, k) \in Slot(Local, LocalWait)
          /\ Aged(vm, k) \in Slot(Local, VmWait)
      BY <1>0, <2>2, AgedLocal
    <3>2. /\ \A m \in Modules : band'[m].id \in {Aged(band, k)[m].id, None}
          /\ \A m \in Modules : route'[m].id \in {Aged(route, k)[m].id, None}
          /\ \A m \in Modules : vm'[m].id \in {Aged(vm, k)[m].id, None}
      BY <3>1, <1>0, <2>1, ExpireSlot
    <3>3. QED
      BY <3>2, <2>14
  <2>16. TalkerIsForwarded'
    BY <2>3, <2>15, SameTalkers
  <2>17. ASSUME NEW n \in Modules, recd'[n].id # None
         PROVE  echoFile'[n] # "none"
    <3>1. recd'[n].id = Expire(recd, i)[n].id
      BY <2>1, AgedId
    <3>2. recd[n].id # None /\ ~(n = i /\ Expired(recd, i))
      BY <3>1, <2>17, <1>0 DEF Expire, Idle, Slot
    <3>3. n = i => k = 0
      BY <3>2, <2>1 DEF PlayTime
    <3>4. QED
      BY <3>2, <3>3, <2>1, <1>0 DEF RecordingHasFile
  <2>18. RecordingHasFile'
    BY <2>3, <2>15, <2>17 DEF RecordingHasFile
  <2>19. QED
    BY <2>12, <2>13, <2>16, <2>18
<1>4. QED
  BY <1>1, <1>2, <1>3 DEF Passing

LEMMA StepIInv == IInv /\ [Next]_vars => IInv'
<1> SUFFICES ASSUME IInv, [Next]_vars PROVE IInv'
  OBVIOUS
<1>1. ASSUME NEW s \in Remote, FromOutside(s) PROVE IInv'
  BY <1>1, OutsideIInv
<1>2. ASSUME NEW s \in Callers, KeyUpCall(s) PROVE IInv'
  BY <1>2, CallIInv, BoundAssumption
<1>3. ASSUME NEW s \in Recorders, KeyUpRecord(s) PROVE IInv'
  BY <1>3, RecordIInv, BoundAssumption
<1>4. ASSUME NEW s \in Local, KeyUp(s) PROVE IInv'
  BY <1>4, CallIInv DEF KeyUp
<1>5. ASSUME NEW s \in Local, NEW end \in BOOLEAN, Frame(s, end) PROVE IInv'
  BY <1>5, FrameIInv
<1>6. CASE Passing
  BY <1>6, PassingIInv
<1>7. CASE UNCHANGED vars
  BY <1>7 DEF vars, airVars, talkVars, echoVars, vmVars, IInv, TypeOK, TrackedOnAir,
              TalkerIsForwarded, RecordingHasFile
<1>8. QED
  BY <1>1, <1>2, <1>3, <1>4, <1>5, <1>6, <1>7 DEF Next, Packet

\* The inductive invariant holds of every behaviour of the gateway.
THEOREM IInvHolds == Spec => []IInv
  BY InitIInv, StepIInv, PTL DEF Spec

-----------------------------------------------------------------------------
(* What follows.                                                           *)

\* The variables of the gateway have their types.
THEOREM TypeCorrect == Spec => []TypeOK
<1>1. IInv => TypeOK
  BY DEF IInv
<1>2. QED
  BY <1>1, IInvHolds, PTL

\* Whatever packets come, a module has at most the one stream on the air that
\* its slot and its running timer account for.
THEOREM RadioIsTracked == Spec => []TrackedOnAir
<1>1. IInv => TrackedOnAir
  BY DEF IInv
<1>2. QED
  BY <1>1, IInvHolds, PTL

\* Index never says "not routed" of the talker whose stream is routed, whatever
\* headers of other streams come: only his own, come again, may say so.
THEOREM TalkerRouted == Spec => []TalkerIsForwarded
<1>1. IInv => TalkerIsForwarded
  BY DEF IInv
<1>2. QED
  BY <1>1, IInvHolds, PTL

\* No open recording loses its file.
THEOREM RecordingSafe == Spec => []RecordingHasFile
<1>1. IInv => RecordingHasFile
  BY DEF IInv
<1>2. QED
  BY <1>1, IInvHolds, PTL

-----------------------------------------------------------------------------
(* The refinement: the streams from outside that are on the air are the    *)
(* channel of RadioChannel.                                                *)

Chan == [m \in Modules |-> onAir[m] \ Local]

\* A header that is let through opens the channel.
LEMMA HeaderOpens ==
  ASSUME IInv, NEW m \in Modules, NEW x \in Remote \cup {Stray},
         RadioFree(m), StartOn(m, x)
  PROVE  Radio!Open(m, x)
<1>1. Chan[m] = {}
  BY DEF Chan, IInv, TrackedOnAir, RadioFree
<1>2. x \notin Local
  BY StreamAssumption
<1>3. onAir' = [onAir EXCEPT ![m] = @ \cup {x}] /\ onAir \in [Modules -> SUBSET (Remote \cup Local \cup {Stray})]
  BY DEF StartOn, IInv, TypeOK
<1>4. Chan' = [Chan EXCEPT ![m] = {x}]
  BY <1>1, <1>2, <1>3 DEF Chan
<1>5. QED
  BY <1>1, <1>4 DEF Radio!Open, Chan

\* What ends the stream that is saved closes the channel, or finds it closed.
LEMMA EndCloses ==
  ASSUME IInv, NEW m \in Modules,
         onAir' = [onAir EXCEPT ![m] = @ \ {rptr[m].id}]
  PROVE  Radio!Close(m) \/ Chan' = Chan
<1>1. onAir \in [Modules -> SUBSET (Remote \cup Local \cup {Stray})]
  BY DEF IInv, TypeOK
<1>2. Chan[m] \subseteq {rptr[m].id}
  BY DEF Chan, IInv, TrackedOnAir
<1>3. Chan' = [Chan EXCEPT ![m] = {}]
  BY <1>1, <1>2 DEF Chan
<1>4. CASE Chan[m] = {}
  BY <1>3, <1>4 DEF Chan
<1>5. CASE Chan[m] # {}
  BY <1>3, <1>5 DEF Radio!Close, Chan
<1>6. QED
  BY <1>4, <1>5

\* The streams of the local radios come and go beside it.
LEMMA LocalStutters ==
  ASSUME \A m \in Modules : onAir'[m] \ Local = onAir[m] \ Local
  PROVE  Chan' = Chan
  BY DEF Chan

LEMMA StepRefines == IInv /\ [Next]_vars => [Radio!Next]_Chan
<1> SUFFICES ASSUME IInv, [Next]_vars PROVE Radio!Next \/ Chan' = Chan
  OBVIOUS
<1>0. onAir \in [Modules -> SUBSET (Remote \cup Local \cup {Stray})]
  BY DEF IInv, TypeOK
<1>1. ASSUME NEW m \in Modules, NEW x \in Remote \cup {Stray},
             RadioFree(m), StartOn(m, x)
      PROVE  Radio!Next
  BY <1>1, HeaderOpens DEF Radio!Next
<1>2. ASSUME NEW m \in Modules, onAir' = [onAir EXCEPT ![m] = @ \ {rptr[m].id}]
      PROVE  Radio!Next \/ Chan' = Chan
  BY <1>2, EndCloses DEF Radio!Next
<1>3. CASE onAir' = onAir
  BY <1>3, LocalStutters
<1>4. ASSUME NEW s \in Remote, FromOutside(s)
      PROVE  Radio!Next \/ Chan' = Chan
  <2>1. Dest[s] \in Modules
    BY ModuleAssumption
  <2>2. CASE G2Header(s)
    BY <2>1, <2>2, <1>1 DEF G2Header
  <2>3. CASE G2SlowHeader(s)
    BY <2>1, <2>3, <1>1 DEF G2SlowHeader
  <2>4. ASSUME NEW end \in BOOLEAN, G2Frame(s, end)
        PROVE  Radio!Next \/ Chan' = Chan
    BY <2>4, <1>2, <1>3 DEF G2Frame, First, Saved
  <2>5. QED
    BY <2>2, <2>3, <2>4, <1>4 DEF FromOutside
<1>5. ASSUME NEW s \in Local, NEW j \in Modules, CrossTo(j, s)
      PROVE  Chan' = Chan
  BY <1>0, <1>5, LocalStutters DEF CrossTo, airVars
<1>6. ASSUME NEW s \in Local, KeyUpCall(s)
      PROVE  Chan' = Chan
  <2>1. CASE ZoneRoute(s) \/ CallRoute(s) \/ CallNotFound(s)
    BY <2>1, LocalStutters DEF ZoneRoute, CallRoute, CallNotFound, airVars
  <2>2. ASSUME NEW j \in Modules, CallLocal(s, j)
        PROVE  Chan' = Chan
    BY <2>2, <1>5 DEF CallLocal
  <2>3. ASSUME NEW j \in Modules, NEW ok \in BOOLEAN, ZoneLocal(s, j, ok)
        PROVE  Chan' = Chan
    BY <2>3, <1>5 DEF ZoneLocal
  <2>4. QED
    BY <1>6, <2>1, <2>2, <2>3 DEF KeyUpCall
<1>7. ASSUME NEW s \in Local, KeyUpRecord(s)
      PROVE  Chan' = Chan
  BY <1>7, LocalStutters DEF KeyUpRecord, EchoStart, VoicemailStart, VoicemailClear,
                             VoicemailPlay, airVars
<1>8. ASSUME NEW s \in Local, KeyUp(s)
      PROVE  Chan' = Chan
  BY <1>8, LocalStutters DEF KeyUp, Talk, airVars
<1>9. ASSUME NEW s \in Local, NEW end \in BOOLEAN, Frame(s, end)
      PROVE  Chan' = Chan
  <2>1. CASE FrameCrossed(s, end)
    BY <2>1, LocalStutters DEF FrameCrossed
  <2>2. CASE FrameRouted(s, end) \/ FrameEchoed(s, end) \/ FrameStored(s, end)
    BY <2>2, LocalStutters DEF FrameRouted, FrameEchoed, FrameStored, airVars
  <2>3. QED
    BY <2>1, <2>2, <1>9 DEF Frame
<1>10. CASE Tick \/ PassBegins
  BY <1>3, <1>10 DEF Tick, PassBegins, airVars
<1>11. ASSUME NEW i \in Modules, TimeoutsOf(i)
       PROVE  Radio!Next \/ Chan' = Chan
  <2>1. PICK k \in Nat : onAir' = Closed(Aged(rptr, k), i)
    BY <1>11, PlayTimeNat DEF TimeoutsOf
  <2>2. Aged(rptr, k)[i].id = rptr[i].id
    BY AgedId
  <2>3. QED
    BY <2>1, <2>2, <1>2, <1>3 DEF Closed
<1>12. CASE UNCHANGED vars
  BY <1>3, <1>12 DEF vars, airVars
<1>13. QED
  BY <1>4, <1>6, <1>7, <1>8, <1>9, <1>10, <1>11, <1>12, BoundAssumption
  DEF Next, Packet, Passing

\* The gateway implements RadioChannel: whatever packets come, lost and late
\* ones too, a module's radio gets one stream from outside at a time, and its
\* end before the header of the next.
THEOREM GatewayIsRadioChannel == Spec => OneAtATime
<1>1. Init => Radio!Init
  BY DEF Init, Radio!Init
<1>2. IInv /\ [Next]_vars => [Radio!Next]_Chan
  BY StepRefines
<1>3. QED
  BY <1>1, <1>2, IInvHolds, PTL DEF Spec, OneAtATime, Radio!Spec, Chan

-----------------------------------------------------------------------------
(* When packets no longer come.                                            *)

\* Time wears a slot, and one that ran but was not timed out in one second.
LEMMA AgedWears ==
  ASSUME NEW ids, NEW wait \in Nat, NEW f \in Slot(ids, wait), NEW k \in Nat
  PROVE  /\ Worn(f, Aged(f, k))
         /\ \A m \in Modules : ~Expired(f, m) /\ f[m].timer > 0
              => Aged(f, 1)[m].timer < f[m].timer
         /\ k = 0 => \A m \in Modules : Aged(f, k)[m].timer = f[m].timer
<1>1. ASSUME NEW m \in Modules
      PROVE  /\ f[m].timer \in Nat
             /\ Aged(f, k)[m].id = f[m].id /\ Aged(f, k)[m].timer = Later(f[m].timer, k)
             /\ Aged(f, 1)[m].timer = Later(f[m].timer, 1)
  BY DEF Slot, Aged
<1>2. QED
  BY <1>1 DEF Worn, Later, Expired

\* A timeout wears a slot and leaves none of the module's timed out.
LEMMA ExpireWears ==
  ASSUME NEW ids, NEW wait \in Nat, NEW f \in Slot(ids, wait), NEW i \in Modules
  PROVE  Worn(f, Expire(f, i)) /\ ~Expired(Expire(f, i), i)
  BY DEF Slot, Worn, Expire, Expired, Idle

LEMMA WornTwice ==
  ASSUME NEW ids, NEW wait \in Nat, NEW f \in Slot(ids, wait),
         NEW g \in Slot(ids, wait), NEW h \in Slot(ids, wait), Worn(f, g), Worn(g, h)
  PROVE  Worn(f, h)
  BY DEF Slot, Worn

\* What a pass of ProcessTimeouts does to a local slot.
LEMMA AgedExpired ==
  ASSUME NEW wait \in Nat, NEW f \in Slot(Local, wait), NEW i \in Modules, NEW k \in Nat
  PROVE  Worn(f, Expire(Aged(f, k), i)) /\ ~Expired(Expire(Aged(f, k), i), i)
<1>1. Aged(f, k) \in Slot(Local, wait) /\ Worn(f, Aged(f, k))
  BY AgedLocal, AgedWears
<1>2. /\ Expire(Aged(f, k), i) \in Slot(Local, wait)
      /\ Worn(Aged(f, k), Expire(Aged(f, k), i)) /\ ~Expired(Expire(Aged(f, k), i), i)
  BY <1>1, ExpireSlot, ExpireWears
<1>3. QED
  BY <1>1, <1>2, WornTwice

Wears == /\ \A m \in Modules : onAir'[m] \subseteq onAir[m]
         /\ Worn(rptr, rptr') /\ Worn(band, band') /\ Worn(route, route')
         /\ Worn(recd, recd') /\ Worn(vm, vm')

Seconds == \A m \in Modules :
  /\ rptr[m].timer > 0 => rptr'[m].timer < rptr[m].timer
  /\ band[m].timer > 0 => band'[m].timer < band[m].timer
  /\ route[m].timer > 0 => route'[m].timer < route[m].timer
  /\ recd[m].timer > 0 => recd'[m].timer < recd[m].timer
  /\ vm[m].timer > 0 => vm'[m].timer < vm[m].timer

Served(i) == /\ ~Expired(rptr', i) /\ ~Expired(band', i) /\ ~Expired(route', i)
             /\ ~Expired(recd', i) /\ ~Expired(vm', i)

LEMMA SlotTypes ==
  ASSUME IInv
  PROVE  /\ LocalWait \in Nat /\ EchoWait \in Nat /\ VmWait \in Nat /\ RemoteWait \in Nat
         /\ band \in Slot(Local, LocalWait) /\ route \in Slot(Local, LocalWait)
         /\ recd \in Slot(Local, EchoWait) /\ vm \in Slot(Local, VmWait)
         /\ rptr \in Slot(Remote \cup {Stray}, RemoteWait)
         /\ onAir \in [Modules -> SUBSET (Remote \cup Local \cup {Stray})]
  BY WaitAssumption DEF IInv, TypeOK

LEMMA TickWears ==
  ASSUME IInv, Tick
  PROVE  Wears /\ Seconds
<1>1. /\ rptr' = Aged(rptr, 1) /\ band' = Aged(band, 1) /\ route' = Aged(route, 1)
      /\ recd' = Aged(recd, 1) /\ vm' = Aged(vm, 1) /\ onAir' = onAir
  BY DEF Tick
<1>2. \A m \in Modules : /\ ~Expired(rptr, m) /\ ~Expired(band, m) /\ ~Expired(route, m)
                         /\ ~Expired(recd, m) /\ ~Expired(vm, m)
  <2>1. \A n \in 1 .. 5, m \in Modules : ~Expired(Slots[n], m)
    BY DEF Tick, TimedOut, Slots
  <2>2. QED
    BY <2>1 DEF Slots
<1>3. Wears
  BY <1>1, SlotTypes, AgedWears DEF Wears
<1>4. Seconds
  BY <1>1, <1>2, SlotTypes, AgedWears DEF Seconds
<1>5. QED
  BY <1>3, <1>4

\* Module i in ProcessTimeouts: a recording that timed out is played and its
\* slot freed, so only a slot that does not run sees the playback pass.
LEMMA TimeoutsWear ==
  ASSUME IInv, NEW i \in Modules, TimeoutsOf(i)
  PROVE  Wears /\ Served(i)
<1>1. PICK k \in PlayTime(IF Expired(recd, i) THEN echoFile[i] ELSE "none") :
        /\ recd' = Aged(Expire(recd, i), k)
        /\ vm' = Expire(Aged(vm, k), i)
        /\ rptr' = [Aged(rptr, k) EXCEPT ![i].timer = IF @ = 1 THEN 0 ELSE @]
        /\ onAir' = Closed(Aged(rptr, k), i)
        /\ band' = Expire(Aged(band, k), i)
        /\ route' = Expire(Aged(route, k), i)
  BY DEF TimeoutsOf
<1>2. k \in Nat /\ (~Expired(recd, i) => k = 0)
  BY PlayTimeNat DEF PlayTime
<1>3. /\ Worn(band, band') /\ Worn(route, route') /\ Worn(vm, vm')
      /\ ~Expired(band', i) /\ ~Expired(route', i) /\ ~Expired(vm', i)
  BY <1>1, <1>2, SlotTypes, AgedExpired
<1>4. Worn(recd, recd') /\ ~Expired(recd', i)
  <2>1. /\ Expire(recd, i) \in Slot(Local, EchoWait) /\ Worn(recd, Expire(recd, i))
        /\ ~Expired(Expire(recd, i), i)
    BY SlotTypes, ExpireSlot, ExpireWears
  <2>2. /\ recd' \in Slot(Local, EchoWait) /\ Worn(Expire(recd, i), recd')
        /\ k = 0 => \A m \in Modules : recd'[m].timer = Expire(recd, i)[m].timer
    BY <1>1, <1>2, <2>1, SlotTypes, AgedLocal, AgedWears
  <2>3. Worn(recd, recd')
    BY <2>1, <2>2, SlotTypes, WornTwice
  <2>4. CASE k = 0
    BY <2>1, <2>2, <2>3, <2>4 DEF Expired
  <2>5. CASE Expired(recd, i)
    <3>1. Expire(recd, i)[i].timer = 0
      BY <2>5, SlotTypes DEF Expire, Idle, Slot
    <3>2. recd'[i].timer = 0
      BY <1>1, <1>2, <3>1 DEF Aged, Later
    <3>3. QED
      BY <2>3, <3>2 DEF Expired
  <2>6. QED
    BY <1>2, <2>4, <2>5
<1>5. Worn(rptr, rptr') /\ ~Expired(rptr', i)
  <2> DEFINE f == Aged(rptr, k)
  <2>1. f \in Slot(Remote \cup {Stray}, RemoteWait) /\ Worn(rptr, f)
    BY <1>2, SlotTypes, AgedSlot, AgedWears
  <2>2. rptr' = [f EXCEPT ![i].timer = IF @ = 1 THEN 0 ELSE @]
    BY <1>1
  <2> HIDE DEF f
  <2>3. \A m \in Modules : /\ rptr'[m].id = f[m].id
                           /\ rptr'[m].timer = IF m = i /\ f[m].timer = 1 THEN 0 ELSE f[m].timer
    BY <2>1, <2>2 DEF Slot
  <2>4. \A m \in Modules : f[m].timer \in Nat /\ rptr[m].timer \in Nat
    BY <2>1, SlotTypes DEF Slot
  <2>5. QED
    BY <2>1, <2>3, <2>4 DEF Worn, Expired
<1>6. \A m \in Modules : onAir'[m] \subseteq onAir[m]
  BY <1>1, SlotTypes DEF Closed
<1>7. QED
  BY <1>3, <1>4, <1>5, <1>6 DEF Wears, Served

\* The start of a pass changes no slot.
LEMMA PassWears ==
  ASSUME IInv, PassBegins
  PROVE  Wears
<1>1. UNCHANGED <<rptr, onAir, band, route, recd, vm>>
  BY DEF PassBegins, airVars, talkVars, echoVars, vmVars
<1>2. \A m \in Modules : /\ rptr[m].timer \in Nat /\ band[m].timer \in Nat
                         /\ route[m].timer \in Nat /\ recd[m].timer \in Nat
                         /\ vm[m].timer \in Nat
  BY SlotTypes DEF Slot
<1>3. QED
  BY <1>1, <1>2 DEF Wears, Worn

\* Without packets every stream and recording runs out: what SilenceFreesAll
\* needs besides fairness.
THEOREM SilenceCorrect == Spec => SilenceRunsOut
<1>1. ASSUME IInv
      PROVE  [/\ Passing => Wears
              /\ Tick => Seconds
              /\ \A i \in Modules : TimeoutsOf(i) => Served(i)]_vars
  BY <1>1, TickWears, TimeoutsWear, PassWears DEF Passing
<1>2. QED
  BY <1>1, IInvHolds, PTL DEF SilenceRunsOut, Wears, Seconds, Served
=============================================================================
