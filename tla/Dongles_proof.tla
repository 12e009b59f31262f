---------------------------- MODULE Dongles_proof ----------------------------
(***************************************************************************)
(* Proofs about Dongles, for any finite set of users, any max_dongles and  *)
(* any timeout: the list keeps to its limit and to the rows of the         *)
(* dashboard, and a heartbeat removes only users who were silent.          *)
(***************************************************************************)
EXTENDS Dongles, FiniteSetTheorems, TLAPS

\* What a listed user has left, and has been silent for, make a timeout: a
\* user that a broken walk leaves out is only late to be removed.
Accounted == \A u \in listed : left[u] + quiet[u] >= Timeout

IInv == TypeOK /\ Accounted

\* Whoever leaves makes room.
LEMMA FewerFit ==
  ASSUME TypeOK, NEW S \in SUBSET listed
  PROVE  Cardinality(S) <= allowed
<1>1. IsFiniteSet(listed)
  BY FS_Subset, UsersAssumption DEF TypeOK
<1>2. /\ Cardinality(S) <= Cardinality(listed)
      /\ Cardinality(S) \in Int /\ Cardinality(listed) \in Int
  BY <1>1, FS_Subset, FS_CardinalityType
<1>3. allowed \in Int /\ Cardinality(listed) <= allowed
  BY LimitAssumption DEF TypeOK
<1>4. QED
  BY <1>2, <1>3

\* One more than there are is let in only if there is room for him.
LEMMA OneMoreFits ==
  ASSUME TypeOK, NEW u \in Users, u \notin listed, ~Full
  PROVE  Cardinality(listed \cup {u}) <= allowed
<1>1. IsFiniteSet(listed)
  BY FS_Subset, UsersAssumption DEF TypeOK
<1>2. Cardinality(listed \cup {u}) = Cardinality(listed) + 1
  BY <1>1, FS_AddElement
<1>3. Cardinality(listed) \in Int /\ allowed \in Int
  BY <1>1, FS_CardinalityType, LimitAssumption DEF TypeOK
<1>4. QED
  BY <1>2, <1>3 DEF Full

\* Nobody fits any limit.
LEMMA NobodyFits == Cardinality({}) = 0 /\ 0 <= Max /\ Max \in Int
BY FS_EmptySet, LimitAssumption

LEMMA InitIInv == Init => IInv
BY NobodyFits, LimitAssumption DEF Init, IInv, TypeOK, Accounted

-----------------------------------------------------------------------------
\* A new user has the whole timeout left.
LEMMA LoginIInv ==
  ASSUME IInv, NEW u \in Users, Login(u)
  PROVE  IInv'
<1>1. TypeOK'
  <2>1. Cardinality(listed') <= allowed'
    BY OneMoreFits DEF IInv, Login
  <2>2. QED
    BY <2>1, LimitAssumption DEF IInv, TypeOK, Login
<1>2. Accounted'
  BY LimitAssumption DEF IInv, TypeOK, Accounted, Login
<1>3. QED
  BY <1>1, <1>2 DEF IInv

\* The packets of a user renew his countdown with what is counted of him.
LEMMA PacketIInv ==
  ASSUME IInv, NEW u \in Users, Packet(u)
  PROVE  IInv'
BY LimitAssumption DEF IInv, TypeOK, Accounted, Packet

\* Who is removed, with the rows of those who are, leaves the others as they
\* were: logouts, stops, crashes and blocks.
LEMMA RemovalIInv ==
  ASSUME IInv, listed' \subseteq listed, listed' \subseteq rows', rows' \subseteq rows,
         UNCHANGED <<left, quiet, silent>>,
         allowed' \in {0, Max}, listed' = {} \/ allowed' = allowed
  PROVE  IInv'
<1>1. Cardinality(listed') <= allowed'
  <2>1. CASE listed' = {}
    BY <2>1, NobodyFits
  <2>2. CASE allowed' = allowed
    BY <2>2, FewerFit DEF IInv
  <2>3. QED
    BY <2>1, <2>2
<1>2. TypeOK'
  BY <1>1 DEF IInv, TypeOK
<1>3. Accounted'
  BY DEF IInv, Accounted
<1>4. QED
  BY <1>2, <1>3 DEF IInv

\* A countdown loses at most what the silence gains.
LEMMA HeartbeatIInv ==
  ASSUME IInv, Heartbeat
  PROVE  IInv'
<1>1. PICK visited \in SUBSET listed :
        /\ listed' = listed \ Late(visited) /\ rows' = rows \ Late(visited)
        /\ left' = [u \in Users |-> IF u \in visited THEN Down(u) ELSE left[u]]
  BY DEF Heartbeat
<1>2. \A u \in Users : /\ quiet[u] \in 0 .. Timeout + 1
                       /\ quiet'[u] = IF u \in listed /\ quiet[u] <= Timeout
                                      THEN quiet[u] + 1 ELSE quiet[u]
  BY DEF Heartbeat, IInv, TypeOK
<1>3. \A u \in Users : /\ left[u] \in 0 .. Timeout /\ left'[u] \in 0 .. Timeout
                       /\ left'[u] >= left[u] - 1
  BY <1>1, LimitAssumption DEF Down, IInv, TypeOK
<1>4. TypeOK'
  <2>1. Cardinality(listed') <= allowed'
    BY <1>1, FewerFit DEF Heartbeat, IInv
  <2>2. left' \in [Users -> 0 .. Timeout] /\ quiet' \in [Users -> 0 .. Timeout + 1]
    BY <1>1, <1>2, <1>3, LimitAssumption DEF Heartbeat
  <2>3. QED
    BY <1>1, <2>1, <2>2 DEF Heartbeat, IInv, TypeOK
<1>5. Accounted'
  BY <1>1, <1>2, <1>3, LimitAssumption DEF IInv, TypeOK, Accounted
<1>6. QED
  BY <1>4, <1>5 DEF IInv

\* More are let in than before.
LEMMA AdmitIInv == IInv /\ Admit => IInv'
<1> SUFFICES ASSUME IInv, Admit PROVE IInv'
  OBVIOUS
<1>1. Cardinality(listed) <= Max
  <2>1. IsFiniteSet(listed)
    BY FS_Subset, UsersAssumption DEF IInv, TypeOK
  <2>2. Cardinality(listed) \in Int
    BY <2>1, FS_CardinalityType
  <2>3. QED
    BY <2>2, LimitAssumption DEF IInv, TypeOK
<1>2. QED
  BY <1>1 DEF IInv, TypeOK, Accounted, Admit

LEMMA StepIInv == IInv /\ [Next]_vars => IInv'
<1> SUFFICES ASSUME IInv, [Next]_vars PROVE IInv'
  OBVIOUS
<1>1. ASSUME NEW u \in Users, Login(u) PROVE IInv'
  BY <1>1, LoginIInv
<1>2. ASSUME NEW u \in Users, Packet(u) PROVE IInv'
  BY <1>2, PacketIInv
<1>3. ASSUME NEW u \in Users, Logout(u) PROVE IInv'
  BY <1>3, RemovalIInv DEF Logout, IInv, TypeOK
<1>4. ASSUME NEW u \in Users, FallsSilent(u) PROVE IInv'
  BY <1>4 DEF FallsSilent, IInv, TypeOK, Accounted
<1>5. CASE Heartbeat
  BY <1>5, HeartbeatIInv
<1>6. CASE HeartbeatDies \/ Stop \/ Crash
  <2>1. /\ listed' = {} /\ allowed' = Max /\ rows' \subseteq rows
        /\ UNCHANGED <<left, quiet, silent>>
    BY <1>6 DEF HeartbeatDies, Stop, Crash, Restarted
  <2>2. QED
    BY <2>1, RemovalIInv
<1>7. CASE Block
  BY <1>7, RemovalIInv DEF Block
<1>8. CASE Admit
  BY <1>8, AdmitIInv
<1>9. CASE UNCHANGED vars
  BY <1>9 DEF vars, IInv, TypeOK, Accounted
<1>10. QED
  BY <1>1, <1>2, <1>3, <1>4, <1>5, <1>6, <1>7, <1>8, <1>9 DEF Next

THEOREM IInvHolds == Spec => []IInv
BY InitIInv, StepIInv, PTL DEF Spec

\* The list keeps to its limit, and its users are shown on the dashboard.
THEOREM TypeCorrect == Spec => []TypeOK
<1>1. IInv => TypeOK
  BY DEF IInv
<1>2. QED
  BY IInvHolds, <1>1, PTL

\* A heartbeat removes only users who were silent for Timeout heartbeats.
THEOREM RemovalCorrect == Spec => OnlyTheQuietAreRemoved
<1>1. IInv /\ [Next]_vars =>
        [Heartbeat => \A u \in listed \ listed' : quiet[u] >= Timeout]_vars
  <2> SUFFICES ASSUME IInv, Heartbeat, NEW u \in listed \ listed'
               PROVE  quiet[u] >= Timeout
    OBVIOUS
  <2>1. PICK visited \in SUBSET listed : listed' = listed \ Late(visited)
    BY DEF Heartbeat
  <2>2. left[u] = 0
    BY <2>1 DEF Late
  <2>3. quiet[u] \in Int /\ Timeout \in Int
    BY LimitAssumption DEF IInv, TypeOK
  <2>4. QED
    BY <2>2, <2>3 DEF IInv, Accounted
<1>2. QED
  BY IInvHolds, <1>1, PTL DEF Spec, OnlyTheQuietAreRemoved

\* A user the walk visits is counted down or removed, and one it passes by
\* comes after somebody it removes.
LEMMA HeartbeatProgress ==
  ASSUME IInv, Heartbeat, NEW u \in listed, u \in listed'
  PROVE  /\ left'[u] <= left[u]
         /\ left'[u] < left[u] \/ \E v \in listed \ listed' : v < u
<1>1. PICK visited \in SUBSET listed :
        /\ Walk(visited)
        /\ listed' = listed \ Late(visited)
        /\ left' = [w \in Users |-> IF w \in visited THEN Down(w) ELSE left[w]]
  BY DEF Heartbeat
<1>2. u \in Users /\ left[u] \in Nat
  BY LimitAssumption DEF IInv, TypeOK
<1>3. CASE u \in visited
  <2>1. left[u] # 0 /\ left'[u] = left[u] - 1
    BY <1>1, <1>2, <1>3 DEF Late, Down
  <2>2. QED
    BY <1>2, <2>1
<1>4. CASE u \notin visited
  <2>1. PICK v \in Late(visited) : v < u
    BY <1>1, <1>4 DEF Walk
  <2>2. v \in listed \ listed'
    BY <1>1, <2>1 DEF Late
  <2>3. left'[u] = left[u]
    BY <1>1, <1>2, <1>4
  <2>4. QED
    BY <1>2, <2>1, <2>2, <2>3
<1>5. QED
  BY <1>3, <1>4

\* Nothing else touches what a silent user has left.
LEMMA SilentKept ==
  ASSUME IInv, Next, ~Heartbeat, NEW u \in listed \cap silent
  PROVE  left'[u] = left[u]
<1>1. ASSUME NEW w \in Users, Login(w) \/ Packet(w) PROVE left'[u] = left[u]
  BY <1>1 DEF IInv, TypeOK, Login, Packet
<1>2. CASE (\E w \in Users : Logout(w) \/ FallsSilent(w)) \/ Block \/ Admit
  BY <1>2 DEF Logout, FallsSilent, Block, Admit
<1>3. CASE HeartbeatDies \/ Stop \/ Crash
  BY <1>3 DEF HeartbeatDies, Stop, Crash, Restarted
<1>4. QED
  BY <1>1, <1>2, <1>3 DEF Next

\* What SilentAreRemoved needs besides fairness, and besides fewer users than
\* heartbeats to a timeout.
THEOREM SilentCorrect == Spec => SilentRunOut
<1>1. ASSUME IInv, [Next]_vars
      PROVE  [\A u \in listed \cap silent : u \in listed' =>
                /\ left'[u] <= left[u]
                /\ Heartbeat => left'[u] < left[u] \/ \E v \in listed \ listed' : v < u]_vars
  <2> SUFFICES ASSUME NEW u \in listed \cap silent, u \in listed', vars' # vars
               PROVE  /\ left'[u] <= left[u]
                      /\ Heartbeat => left'[u] < left[u] \/ \E v \in listed \ listed' : v < u
    OBVIOUS
  <2>1. CASE Heartbeat
    BY <1>1, <2>1, HeartbeatProgress
  <2>2. CASE ~Heartbeat
    <3>1. left'[u] = left[u]
      BY <1>1, <2>2, SilentKept
    <3>2. u \in Users /\ left[u] \in Nat
      BY <1>1, LimitAssumption DEF IInv, TypeOK
    <3>3. QED
      BY <2>2, <3>1, <3>2
  <2>3. QED
    BY <2>1, <2>2
<1>2. QED
  BY <1>1, IInvHolds, PTL DEF Spec, SilentRunOut
=============================================================================
