------------------------- MODULE RoutingCache_proof -------------------------
(***************************************************************************)
(* Proofs about RoutingCache, for any users, repeaters, gateways, sessions *)
(* and addresses: calls reach gateways that are on the channel, and who is *)
(* on the channel is found.  And each cache implements Directory.          *)
(***************************************************************************)
EXTENDS RoutingCache, TLAPS

\* What the cache knows of a gateway is its last nick, name and address.
KnownByNick ==
  \A n \in Nets, b \in Bases :
    IF nameNick[n][b] = None THEN gateAddr[n][b] = None
    ELSE /\ <<b, nameNick[n][b]>> \in chan[n]
         /\ gateAddr[n][b] = AddrOf[<<b, nameNick[n][b]>>]

IInv == TypeOK /\ KnownByNick /\ PresentIsFound /\ LastRecordCounts

LEMMA InitIInv == Init => IInv
<1> USE DEF Init, Empty
<1>1. Init => TypeOK
  BY DEF TypeOK, Rptrs
<1>2. Init => KnownByNick /\ PresentIsFound
  BY DEF KnownByNick, PresentIsFound
<1>3. Init => LastRecordCounts
  BY DEF LastRecordCounts
<1>4. QED
  BY <1>1, <1>2, <1>3 DEF IInv

\* The records of repeaters change by records only.
LEMMA RecordsStay ==
  ASSUME LastRecordCounts, UNCHANGED <<rptrGate, said>> PROVE LastRecordCounts'
BY DEF LastRecordCounts, FindRptrGate

-----------------------------------------------------------------------------
\* The last nick of a base replaces the one before, in name and address.
LEMMA JoinIInv ==
  ASSUME IInv, NEW n \in Nets, NEW b \in Bases, NEW k \in Sessions, UserJoin(n, b, k)
  PROVE  IInv'
<1> USE DEF UserJoin, Joined, IInv
<1>1. AddrOf[<<b, k>>] \in Addrs /\ AddrOf[<<b, k>>] # None /\ k # None
  BY NoneAssumption DEF Addrs, Nicks
<1>2. TypeOK'
  BY <1>1 DEF TypeOK, Nicks
<1>3. KnownByNick'
  BY <1>1 DEF TypeOK, KnownByNick
<1>4. PresentIsFound'
  <2> SUFFICES ASSUME NEW m \in Nets, NEW j \in chan'[m], j[1] \notin ghost'[m]
               PROVE  gateAddr'[m][j[1]] # None
    BY DEF PresentIsFound
  <2>1. j[1] \in Bases
    BY <1>2 DEF TypeOK, Nicks
  <2>2. CASE m = n /\ j[1] = b
    BY <2>2, <1>1 DEF TypeOK
  <2>3. CASE m = n /\ j[1] # b
    BY <2>1, <2>3 DEF TypeOK, PresentIsFound
  <2>4. CASE m # n
    BY <2>4 DEF TypeOK, PresentIsFound
  <2>5. QED
    BY <2>2, <2>3, <2>4
<1>5. QED
  BY <1>2, <1>3, <1>4, RecordsStay

\* A nick that leaves takes its base's name and address with it.
LEMMA LeaveIInv ==
  ASSUME IInv, NEW n \in Nets, NEW b \in Bases, NEW k \in Sessions, UserLeave(n, b, k)
  PROVE  IInv'
<1> USE DEF UserLeave, Left, IInv
<1>1. TypeOK'
  BY DEF TypeOK, Nicks
<1>2. KnownByNick'
  <2> SUFFICES ASSUME NEW m \in Nets, NEW c \in Bases
               PROVE  IF nameNick'[m][c] = None THEN gateAddr'[m][c] = None
                      ELSE /\ <<c, nameNick'[m][c]>> \in chan'[m]
                           /\ gateAddr'[m][c] = AddrOf[<<c, nameNick'[m][c]>>]
    BY DEF KnownByNick
  <2>1. CASE m = n /\ c = b
    BY <2>1 DEF TypeOK
  <2>2. CASE ~(m = n /\ c = b)
    <3>1. nameNick'[m][c] = nameNick[m][c] /\ gateAddr'[m][c] = gateAddr[m][c]
      BY <2>2 DEF TypeOK
    <3>2. \A j : <<c, j>> \in chan[m] => <<c, j>> \in chan'[m]
      BY <2>2 DEF TypeOK
    <3>3. QED
      BY <3>1, <3>2 DEF KnownByNick
  <2>3. QED
    BY <2>1, <2>2
<1>3. PresentIsFound'
  <2> SUFFICES ASSUME NEW m \in Nets, NEW j \in chan'[m], j[1] \notin ghost'[m]
               PROVE  gateAddr'[m][j[1]] # None
    BY DEF PresentIsFound
  <2>1. j \in chan[m] /\ j[1] \notin ghost[m] /\ j[1] \in Bases
    BY DEF TypeOK, Nicks
  <2>2. ~(m = n /\ j[1] = b)
    BY DEF TypeOK
  <2>3. gateAddr'[m][j[1]] = gateAddr[m][j[1]]
    BY <2>1, <2>2 DEF TypeOK
  <2>4. QED
    BY <2>1, <2>3 DEF PresentIsFound
<1>4. QED
  BY <1>1, <1>2, <1>3, RecordsStay

\* When the connection ends, nobody is on the channel or known.
LEMMA ResetIInv ==
  ASSUME IInv, NEW n \in Nets, UserListReset(n)
  PROVE  IInv'
<1> USE DEF UserListReset, Empty, IInv
<1>1. TypeOK'
  BY DEF TypeOK
<1>2. KnownByNick'
  BY DEF TypeOK, KnownByNick
<1>3. PresentIsFound'
  <2> SUFFICES ASSUME NEW m \in Nets, NEW j \in chan'[m], j[1] \notin ghost'[m]
               PROVE  gateAddr'[m][j[1]] # None
    BY DEF PresentIsFound
  <2>1. m # n
    BY DEF TypeOK
  <2>2. QED
    BY <2>1 DEF TypeOK, PresentIsFound
<1>4. QED
  BY <1>1, <1>2, <1>3, RecordsStay

\* The records of users and repeaters are apart from those of gateways.
LEMMA RecordIInv ==
  ASSUME IInv, NEW n \in Nets,
         \/ \E on \in BOOLEAN : SetReady(n, on)
         \/ \E r \in Rptrs : \/ \E u \in Users : UserReport(n, u, r)
                             \/ \E g \in Bases : RptrReport(n, r, g)
  PROVE  IInv'
<1>1. UNCHANGED <<gateAddr, nameNick, chan, ghost>>
  BY DEF SetReady, UserReport, RptrReport, mapVars
<1>2. TypeOK'
  <2>1. CASE \E on \in BOOLEAN : SetReady(n, on)
    BY <2>1 DEF SetReady, mapVars, IInv, TypeOK
  <2>2. ASSUME NEW r \in Rptrs, NEW u \in Users, UserReport(n, u, r) PROVE TypeOK'
    BY <2>2 DEF UserReport, IInv, TypeOK
  <2>3. ASSUME NEW r \in Rptrs, NEW g \in Bases, RptrReport(n, r, g) PROVE TypeOK'
    BY <2>3 DEF RptrReport, IInv, TypeOK
  <2>4. QED
    BY <2>1, <2>2, <2>3
<1>3. LastRecordCounts'
  <2>1. CASE UNCHANGED <<rptrGate, said>>
    BY <2>1, RecordsStay DEF IInv
  <2>2. ASSUME NEW r \in Rptrs, NEW g \in Bases, RptrReport(n, r, g) PROVE LastRecordCounts'
    <3> SUFFICES ASSUME NEW m \in Nets, NEW q \in Rptrs, Short[said'[m][q]] # Short[q[1]]
                 PROVE  (IF rptrGate'[m][q] = None THEN q[1] ELSE rptrGate'[m][q]) = said'[m][q]
      BY DEF LastRecordCounts, FindRptrGate
    <3>1. CASE m = n /\ q = r
      <4>1. said'[m][q] = g
        BY <2>2, <3>1 DEF RptrReport, IInv, TypeOK
      <4>2. rptrGate'[m][q] = g /\ g # None
        BY <2>2, <3>1, <4>1, NoneAssumption DEF RptrReport, IInv, TypeOK
      <4>3. QED
        BY <4>1, <4>2
    <3>2. CASE ~(m = n /\ q = r)
      <4>1. said'[m][q] = said[m][q] /\ rptrGate'[m][q] = rptrGate[m][q]
        BY <2>2, <3>2 DEF RptrReport, IInv, TypeOK
      <4>2. QED
        BY <4>1 DEF IInv, LastRecordCounts, FindRptrGate
    <3>3. QED
      BY <3>1, <3>2
  <2>3. QED
    BY <2>1, <2>2 DEF SetReady, UserReport, mapVars
<1>4. QED
  BY <1>1, <1>2, <1>3 DEF IInv, KnownByNick, PresentIsFound

LEMMA StepIInv == IInv /\ [Next]_vars => IInv'
<1> SUFFICES ASSUME IInv, [Next]_vars PROVE IInv'
  OBVIOUS
<1>1. CASE UNCHANGED vars
  BY <1>1, RecordsStay DEF vars, mapVars, IInv, TypeOK, KnownByNick, PresentIsFound
<1>2. CASE Next
  BY <1>2, JoinIInv, LeaveIInv, ResetIInv, RecordIInv DEF Next
<1>3. QED
  BY <1>1, <1>2

THEOREM IInvHolds == Spec => []IInv
BY InitIInv, StepIInv, PTL DEF Spec

\* The maps, and what the client was told, keep their types.
THEOREM TypeCorrect == Spec => []TypeOK
<1>1. IInv => TypeOK
  BY DEF IInv
<1>2. QED
  BY IInvHolds, <1>1, PTL

\* A gateway that is on the channel has its address in the cache, unless
\* another nick of its own left after it joined.
THEOREM PresentCorrect == Spec => []PresentIsFound
<1>1. IInv => PresentIsFound
  BY DEF IInv
<1>2. QED
  BY IInvHolds, <1>1, PTL

\* A repeater behind another gateway is found at the one its last record named.
THEOREM RecordsCorrect == Spec => []LastRecordCounts
<1>1. IInv => LastRecordCounts
  BY DEF IInv
<1>2. QED
  BY IInvHolds, <1>1, PTL

-----------------------------------------------------------------------------
\* A repeater has a gateway, stored or its own.
LEMMA GateFound ==
  ASSUME TypeOK, NEW n \in Nets, NEW r \in Rptrs
  PROVE  FindRptrGate(n, r) \in Bases
BY DEF FindRptrGate, TypeOK, Rptrs

\* A place a call may be sent to is a repeater's on some network.
LEMMA RouteIsBehind ==
  ASSUME TypeOK, NEW p \in Routes
  PROVE  \E n \in Nets, r \in Rptrs : p = Behind(n, r) /\ p.addr # None
<1>1. CASE \E u \in Users : p \in RouteToUser(u)
  <2>1. PICK u \in Users : p \in RouteToUser(u)
    BY <1>1
  <2>2. PICK n \in Nets : /\ userRptr[n][u] # None /\ p.addr # None
                          /\ p = Behind(n, userRptr[n][u])
    BY <2>1 DEF RouteToUser, First
  <2>3. userRptr[n][u] \in Rptrs
    BY <2>2 DEF TypeOK
  <2>4. QED
    BY <2>2, <2>3
<1>2. CASE \E r \in Rptrs : p \in RouteToRptr(r)
  BY <1>2 DEF RouteToRptr, First
<1>3. QED
  BY <1>1, <1>2 DEF Routes

\* Calls and PINGs only go to gateways that are on the channel, to the
\* addresses under which they joined.
THEOREM RoutesCorrect == Spec => []CallsReachTheLiving
<1>1. ASSUME IInv PROVE CallsReachTheLiving
  <2>1. ASSUME NEW p \in Routes
        PROVE  \E k \in Sessions : <<p.gate, k>> \in chan[p.net] /\ AddrOf[<<p.gate, k>>] = p.addr
    <3>1. PICK n \in Nets, r \in Rptrs : p = Behind(n, r) /\ p.addr # None
      BY <1>1, RouteIsBehind DEF IInv
    <3>2. /\ p.net = n /\ p.gate = FindRptrGate(n, r) /\ p.gate \in Bases
          /\ p.addr = gateAddr[n][p.gate]
      BY <1>1, <3>1, GateFound DEF Behind, IInv
    <3>3. /\ nameNick[n][p.gate] # None
          /\ <<p.gate, nameNick[n][p.gate]>> \in chan[n]
          /\ gateAddr[n][p.gate] = AddrOf[<<p.gate, nameNick[n][p.gate]>>]
      BY <1>1, <3>1, <3>2 DEF IInv, KnownByNick
    <3>4. nameNick[n][p.gate] \in Sessions
      BY <1>1, <3>2, <3>3 DEF IInv, TypeOK
    <3>5. QED
      BY <3>2, <3>3, <3>4
  <2>2. \A n \in Nets, b \in Bases :
          nameNick[n][b] # None => <<b, nameNick[n][b]>> \in chan[n]
    BY <1>1 DEF IInv, KnownByNick
  <2>3. QED
    BY <2>1, <2>2 DEF CallsReachTheLiving
<1>2. QED
  BY IInvHolds, <1>1, PTL

-----------------------------------------------------------------------------
\* Empty maps are an empty directory.
LEMMA InitDirectory ==
  ASSUME Init, NEW n \in Nets PROVE Dir(n)!Init
BY DEF Init, Empty, Dir!Init, FindRptrGate

\* What a step on one network does to the directory of another, and the
\* calls of the application, are not seen.
LEMMA OthersUnseen ==
  ASSUME TypeOK, NEW m \in Nets, NEW n \in Nets \ {m},
         \/ \E b \in Bases, k \in Sessions : UserJoin(m, b, k) \/ UserLeave(m, b, k)
         \/ UserListReset(m)
         \/ \E on \in BOOLEAN : SetReady(m, on)
         \/ \E r \in Rptrs : \/ \E u \in Users : UserReport(m, u, r)
                             \/ \E g \in Bases : RptrReport(m, r, g)
  PROVE  UNCHANGED <<userRptr[n], rptrGate[n], said[n], gateAddr[n]>>
<1>1. CASE \E b \in Bases, k \in Sessions : UserJoin(m, b, k) \/ UserLeave(m, b, k)
  BY <1>1 DEF UserJoin, UserLeave, Joined, Left, TypeOK
<1>2. CASE UserListReset(m)
  BY <1>2 DEF UserListReset, TypeOK
<1>3. CASE \E on \in BOOLEAN : SetReady(m, on)
  BY <1>3 DEF SetReady, mapVars
<1>4. CASE \E r \in Rptrs : \/ \E u \in Users : UserReport(m, u, r)
                            \/ \E g \in Bases : RptrReport(m, r, g)
  BY <1>4 DEF UserReport, RptrReport, TypeOK
<1>5. QED
  BY <1>1, <1>2, <1>3, <1>4

\* A callback is a step of the directory of its network, or none.
LEMMA StepDirectory ==
  ASSUME TypeOK, [Next]_vars, NEW n \in Nets
  PROVE  [Dir(n)!Next]_<<userRptr[n], rptrGate[n], said[n], gateAddr[n]>>
<1>1. CASE UNCHANGED vars
  BY <1>1 DEF vars, mapVars
<1>2. ASSUME NEW b \in Bases, NEW k \in Sessions, UserJoin(n, b, k) PROVE Dir(n)!Next
  <2>1. AddrOf[<<b, k>>] \in Addrs
    BY DEF Addrs, Nicks
  <2>2. Dir(n)!Up(b, AddrOf[<<b, k>>])
    BY <1>2 DEF UserJoin, Joined, TypeOK, Dir!Up, FindRptrGate
  <2>3. QED
    BY <2>1, <2>2 DEF Dir!Next
<1>3. ASSUME NEW b \in Bases, NEW k \in Sessions, UserLeave(n, b, k) PROVE Dir(n)!Next
  <2>1. Dir(n)!Down(b)
    BY <1>3 DEF UserLeave, Left, TypeOK, Dir!Down, FindRptrGate
  <2>2. QED
    BY <2>1 DEF Dir!Next
<1>4. CASE UserListReset(n)
  <2>1. Dir(n)!AllDown
    BY <1>4 DEF UserListReset, Empty, TypeOK, Dir!AllDown, FindRptrGate
  <2>2. QED
    BY <2>1 DEF Dir!Next
<1>5. ASSUME NEW on \in BOOLEAN, SetReady(n, on)
      PROVE UNCHANGED <<userRptr[n], rptrGate[n], said[n], gateAddr[n]>>
  BY <1>5 DEF SetReady, mapVars
<1>6. ASSUME NEW r \in Rptrs, NEW u \in Users, UserReport(n, u, r) PROVE Dir(n)!Next
  <2>1. Dir(n)!Heard(u, r)
    BY <1>6 DEF UserReport, TypeOK, Dir!Heard, FindRptrGate
  <2>2. QED
    BY <2>1 DEF Dir!Next
<1>7. ASSUME NEW r \in Rptrs, NEW g \in Bases, RptrReport(n, r, g)
      PROVE  Dir(n)!Next
  <2>1. CASE Short[r[1]] # Short[g]
    <3>1. /\ rptrGate' = [rptrGate EXCEPT ![n][r] = g]
          /\ said' = [said EXCEPT ![n][r] = g]
          /\ UNCHANGED <<userRptr, gateAddr>>
      BY <1>7, <2>1 DEF RptrReport
    <3>2. g # None
      BY NoneAssumption
    <3>3. \A q \in Rptrs : (IF rptrGate'[n][q] = None THEN q[1] ELSE rptrGate'[n][q])
                         = (IF q = r THEN g ELSE FindRptrGate(n, q))
      BY <3>1, <3>2 DEF TypeOK, FindRptrGate
    <3>4. Dir(n)!Zoned(r, g)
      BY <2>1, <3>1, <3>3 DEF Dir!Zoned, FindRptrGate, TypeOK
    <3>5. QED
      BY <3>4 DEF Dir!Next
  <2>2. CASE Short[r[1]] = Short[g]
    <3>1. /\ said' = [said EXCEPT ![n][r] = g]
          /\ UNCHANGED <<userRptr, rptrGate, gateAddr>>
      BY <1>7, <2>2 DEF RptrReport
    <3>2. Dir(n)!Zoned(r, g)
      BY <2>2, <3>1 DEF Dir!Zoned, FindRptrGate, TypeOK
    <3>3. QED
      BY <3>2 DEF Dir!Next
  <2>3. QED
    BY <2>1, <2>2
<1>8. CASE \E m \in Nets \ {n} :
        \/ \E b \in Bases, k \in Sessions : UserJoin(m, b, k) \/ UserLeave(m, b, k)
        \/ UserListReset(m) \/ \E on \in BOOLEAN : SetReady(m, on)
        \/ \E r \in Rptrs : \/ \E u \in Users : UserReport(m, u, r)
                            \/ \E g \in Bases : RptrReport(m, r, g)
  BY <1>8, OthersUnseen
<1>9. QED
  BY <1>1, <1>2, <1>3, <1>4, <1>5, <1>6, <1>7, <1>8 DEF Next

\* The cache of each network implements Directory.
THEOREM CacheIsDirectory == Spec => IsDirectory
<1>1. Init => \A n \in Nets : Dir(n)!Init
  BY InitDirectory
<1>2. IInv /\ [Next]_vars =>
        [\A n \in Nets : [Dir(n)!Next]_<<userRptr[n], rptrGate[n], said[n], gateAddr[n]>>]_vars
  BY StepDirectory DEF IInv
<1>3. QED
  BY <1>1, <1>2, IInvHolds, PTL DEF Spec, IsDirectory
=============================================================================
