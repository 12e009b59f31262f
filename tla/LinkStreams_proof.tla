-------------------------- MODULE LinkStreams_proof --------------------------
(***************************************************************************)
(* Proofs about LinkStreams, for up to three modules and any systems,      *)
(* dongles and streams: no frame goes out, to a link or to the gateway,    *)
(* before the header or without the callsign it needs.                     *)
(***************************************************************************)
EXTENDS LinkStreams, FiniteSetTheorems, TLAPS

\* in_streamid names a stream only while the module is connected: one that
\* was relayed over this link, or one that a DCS reflector sends to it.
HeardSlot(m) ==
  ins[m] # None =>
    /\ link[m].up
    /\ ins[m] \in open[m] \/ From[ins[m]] = link[m].at
    /\ From[ins[m]] = link[m].at =>
         /\ ins[m] \in Theirs /\ Proto[ins[m]] = "DCS"
         /\ link[m].sys = Origin[ins[m]] /\ link[m].to = FromMod[ins[m]]
         /\ ins[m] \in atGate

\* out_streamid of a module that we asked to link is of a stream on this link.
SpokenSlot(m) ==
  /\ outs[m] # None /\ link[m].sys # None /\ m \notin hosted =>
       link[m].up /\ outs[m] \in open[m]
  /\ m \in hosted => link[m].sys \in Callers

\* The stored callsigns of a module that is linked to a DCS reflector, or to
\* be linked to it, are those of its slots.
Signed(m) ==
  link[m].sys # None /\ Kind[link[m].sys] = "DCS" =>
    /\ outs[m] # None => caller[m]["rptr"] = outs[m]
    /\ ins[m] # None /\ From[ins[m]] # link[m].at =>
         caller[m][IF Proto[ins[m]] = "XRF" THEN "xrf" ELSE "ref"] = ins[m]

Good(m) == HeardSlot(m) /\ SpokenSlot(m) /\ Signed(m)

\* A module of a DCS reflector is linked to one of ours.
Exclusive ==
  \A m, n \in Modules :
    /\ link[m].sys # None /\ Kind[link[m].sys] = "DCS"
    /\ link[n].sys = link[m].sys /\ link[n].to = link[m].to
    => m = n

\* The two pairs of slots hold copies of streams of their own, all begun.
CopiesBegun ==
  \A k \in {1, 2} :
    /\ brdX.to[k] \in (copying \cap (Remote \X {1, 2})) \cup {None}
    /\ brdR.to[k] \in (copying \cap (Local \X {1, 2})) \cup {None}

IInv == TypeOK /\ (\A m \in Modules : Good(m)) /\ Exclusive /\ CopiesBegun

-----------------------------------------------------------------------------
(* Copies: there are two other modules at most.                            *)

LEMMA TwoOthers ==
  ASSUME NEW m \in Modules, NEW S \in SUBSET (Modules \ {m})
  PROVE  Cardinality(S) \in Nat /\ Cardinality(S) <= 2
<1>1. N \in Nat /\ 1 <= N /\ N <= 3
  BY SystemAssumption
<1>2. IsFiniteSet(Modules) /\ Cardinality(Modules) = N
  BY <1>1, FS_Interval DEF Modules
<1>3. IsFiniteSet(Modules \ {m}) /\ Cardinality(Modules \ {m}) = N - 1
  BY <1>2, FS_RemoveElement
<1>4. IsFiniteSet(S) /\ Cardinality(S) <= Cardinality(Modules \ {m})
  BY <1>3, FS_Subset
<1>5. Cardinality(S) \in Nat
  BY <1>4, FS_CardinalityType
<1>6. QED
  BY <1>1, <1>3, <1>4, <1>5

LEMMA CopyIdsType ==
  ASSUME NEW m \in Modules, NEW S \in SUBSET (Modules \ {m}), NEW T, NEW s \in T
  PROVE  CopyIds(s, S) \subseteq T \X {1, 2}
<1>1. \A k \in 1 .. Cardinality(S) : k \in {1, 2}
  BY TwoOthers
<1>2. QED
  BY <1>1 DEF CopyIds

LEMMA SiblingsAndPeers ==
  ASSUME NEW m \in Modules, NEW s
  PROVE  Siblings(m, s) \in SUBSET (Modules \ {m}) /\ Peers(m) \in SUBSET (Modules \ {m})
<1>1. N \in Nat /\ m \in Nat /\ 1 <= m
  BY SystemAssumption DEF Modules
<1>2. QED
  BY <1>1 DEF Siblings, Peers, Modules

\* What a broadcast leaves in its slots was there, or is begun now.
LEMMA BroadcastSlots ==
  ASSUME NEW b, NEW s, NEW S, NEW k \in {1, 2}
  PROVE  /\ ToBroadcast(b, s, S).to[k] \in CopyIds(s, S) \cup {b.to[k]}
         /\ EndBroadcast(b, s).to[k] \in {None, b.to[k]}
BY DEF ToBroadcast, EndBroadcast, Silent

LEMMA BroadcastType ==
  ASSUME NEW b \in Broadcast, NEW s \in Streams,
         NEW m \in Modules, NEW S \in SUBSET (Modules \ {m})
  PROVE  ToBroadcast(b, s, S) \in Broadcast /\ EndBroadcast(b, s) \in Broadcast
<1>1. CopyIds(s, S) \subseteq Copies
  BY CopyIdsType DEF Copies
<1>2. QED
  BY <1>1 DEF Broadcast, ToBroadcast, EndBroadcast, Silent

\* A copy is taken out of the gateway only with its slot.
LEMMA EndedCopies ==
  ASSUME NEW b, NEW s, NEW k \in {1, 2}
  PROVE  EndBroadcast(b, s).to[k] # None =>
           EndBroadcast(b, s).to[k] = b.to[k] /\ CopiedTo(b, s) = {}
BY DEF EndBroadcast, CopiedTo, Silent

-----------------------------------------------------------------------------
LEMMA InitIInv == Init => IInv
<1> SUFFICES ASSUME Init PROVE IInv
  OBVIOUS
<1>1. Silent \in Broadcast
  BY DEF Silent, Broadcast
<1>2. TypeOK
  BY <1>1 DEF Init, L!Init, L!Modules, Modules, TypeOK
<1>3. \A m \in Modules : Good(m)
  BY NoneAssumption DEF Init, L!Init, L!Free, L!Modules, Modules, Good, HeardSlot, SpokenSlot, Signed
<1>4. Exclusive /\ CopiesBegun
  BY DEF Init, L!Init, L!Free, L!Modules, Modules, Exclusive, CopiesBegun, Silent
<1>5. QED
  BY <1>2, <1>3, <1>4 DEF IInv

\* What a handler leaves alone keeps in order.
LEMMA Untouched ==
  ASSUME NEW n \in Modules, Good(n),
         link'[n] = link[n], n \in hosted' <=> n \in hosted, ins'[n] = ins[n], outs'[n] = outs[n],
         caller'[n] = caller[n], open'[n] = open[n],
         ins[n] \in atGate => ins[n] \in atGate'
         \/ From[ins[n]] # link[n].at
  PROVE  Good(n)'
BY DEF Good, HeardSlot, SpokenSlot, Signed

\* A new entry, or none, begins with in_streamid empty; out_streamid is that
\* of no link of ours.
LEMMA Emptied ==
  ASSUME NEW m \in Modules, ins'[m] = None, link'[m] \in Entry \cup {L!Free},
         outs'[m] = None \/ link'[m] = L!Free \/ m \in hosted',
         m \in hosted' => link'[m].sys \in Callers
  PROVE  Good(m)'
<1>1. CASE link'[m] = L!Free
  BY <1>1, NoneAssumption DEF Good, HeardSlot, SpokenSlot, Signed, L!Free
<1>2. CASE link'[m] \in Entry /\ outs'[m] = None
  BY <1>2 DEF Good, HeardSlot, SpokenSlot, Signed
<1>3. CASE link'[m] \in Entry /\ m \in hosted'
  BY <1>3, SystemAssumption DEF Good, HeardSlot, SpokenSlot, Signed
<1>4. QED
  BY <1>1, <1>2, <1>3

-----------------------------------------------------------------------------
(* Links.                                                                  *)

\* No step of Links gives a module of a DCS reflector to two of ours.
LEMMA StepExclusive ==
  ASSUME IInv, NEW S \in SUBSET Modules,
         \A n \in Modules \ S : link'[n] = link[n],
         \A n \in S :
           \/ link'[n].sys = None
           \/ Kind[link'[n].sys] # "DCS"
           \/ link'[n].sys = link[n].sys /\ link'[n].to = link[n].to
           \/ \A k \in Modules \ {n} : /\ link'[k] = link[k]
                                       /\ link[k].sys # link'[n].sys \/ link[k].to # link'[n].to
  PROVE  Exclusive'
BY DEF IInv, Exclusive

\* What a step on the links of the modules in S has to keep.
LEMMA LinksStep ==
  ASSUME IInv, NEW S \in SUBSET Modules, TypeOK', Exclusive',
         \A n \in S : Good(n)',
         \A n \in Modules \ S :
           /\ link'[n] = link[n] /\ (n \in hosted' <=> n \in hosted)
           /\ ins'[n] = ins[n] /\ outs'[n] = outs[n]
           /\ caller'[n] = caller[n] /\ open'[n] = open[n],
         UNCHANGED <<brdX, brdR, gateVars>>
  PROVE  IInv'
<1>1. \A n \in Modules : Good(n)'
  BY Untouched DEF IInv, gateVars
<1>2. CopiesBegun'
  BY DEF IInv, CopiesBegun, gateVars
<1>3. QED
  BY <1>1, <1>2 DEF IInv

\* g2link, for a system that exists: both slots are emptied.
LEMMA AskIInv ==
  ASSUME IInv, NEW m \in Modules, NEW y \in Systems, NEW a \in Addrs,
         NEW r \in RemoteMods, Ask(m, y, a, r)
  PROVE  IInv'
<1>1. PICK up \in BOOLEAN : link' = [link EXCEPT ![m] = [sys |-> y, at |-> a, to |-> r, up |-> up]]
  <2>1. \A n \in Modules : link[n].sys = y => link[n].up \in BOOLEAN
    BY NoneAssumption DEF IInv, TypeOK, Entry, L!Free
  <2>2. QED
    BY <2>1 DEF Ask, L!Ask, L!Others, L!Modules, Modules
<1> DEFINE e == [sys |-> y, at |-> a, to |-> r, up |-> up]
<1>2. e \in Entry /\ link'[m] = e
  BY <1>1 DEF Entry, IInv, TypeOK
<1>3. NewLink(m) /\ UNCHANGED <<dongles, seq, caller, brdX, brdR, gateVars>>
  BY DEF Ask
<1>4. TypeOK'
  BY <1>1, <1>2, <1>3 DEF NewLink, IInv, TypeOK, gateVars
<1>5. Good(m)'
  BY <1>2, <1>3, Emptied DEF NewLink, IInv, TypeOK
<1>6. \A n \in Modules \ {m} :
        /\ link'[n] = link[n] /\ (n \in hosted' <=> n \in hosted)
        /\ ins'[n] = ins[n] /\ outs'[n] = outs[n]
        /\ caller'[n] = caller[n] /\ open'[n] = open[n]
  BY <1>1, <1>3 DEF NewLink, IInv, TypeOK
<1>7. Exclusive'
  <2>1. \/ Kind[y] # "DCS"
        \/ \A n \in Modules \ {m} : link[n].sys # y \/ link[n].to # r
    BY SystemAssumption DEF Ask, L!Ask, L!Others, L!Modules, Modules
  <2>2. QED
    BY <1>2, <1>6, <2>1, StepExclusive
<1>8. {m} \in SUBSET Modules /\ \A n \in {m} : Good(n)'
  BY <1>5
<1>9. QED
  BY <1>3, <1>4, <1>6, <1>7, <1>8, LinksStep

\* Modules that are left without a link.
LEMMA FreedIInv ==
  ASSUME IInv, NEW S \in SUBSET Modules,
         link' = [m \in Modules |-> IF m \in S THEN L!Free ELSE link[m]],
         hosted' = hosted \ S,
         open' = [m \in Modules |-> IF m \in S THEN {} ELSE open[m]],
         ins' = [m \in Modules |-> IF m \in S THEN None ELSE ins[m]],
         outs' \in [Modules -> Local \cup {None}],
         \A n \in Modules \ S : outs'[n] = outs[n],
         UNCHANGED <<dongles, seq, caller, brdX, brdR, gateVars>>
  PROVE  IInv'
<1>1. TypeOK'
  BY DEF IInv, TypeOK, gateVars
<1>2. \A m \in S : link'[m] = L!Free /\ ins'[m] = None /\ m \notin hosted'
  OBVIOUS
<1>3. \A m \in S : Good(m)'
  BY <1>2, Emptied
<1>4. \A m \in S : link'[m].sys = None
  BY <1>2 DEF L!Free
<1>5. Exclusive'
  BY <1>4, StepExclusive
<1>6. \A n \in Modules \ S :
        /\ link'[n] = link[n] /\ (n \in hosted' <=> n \in hosted)
        /\ ins'[n] = ins[n] /\ outs'[n] = outs[n]
        /\ caller'[n] = caller[n] /\ open'[n] = open[n]
  OBVIOUS
<1>7. QED
  BY <1>1, <1>3, <1>5, <1>6, LinksStep

LEMMA UnlinkIInv ==
  ASSUME IInv, NEW S \in SUBSET Modules, Unlink(S)
  PROVE  IInv'
<1>1. link' = [m \in Modules |-> IF m \in S THEN L!Free ELSE link[m]]
  BY DEF Unlink, L!Unlink, L!Modules, Modules
<1>2. outs' \in [Modules -> Local \cup {None}] /\ \A n \in Modules \ S : outs'[n] = outs[n]
  BY DEF Unlink, IInv, TypeOK
<1>3. QED
  BY <1>1, <1>2, FreedIInv DEF Unlink

LEMMA AskInVainIInv ==
  ASSUME IInv, NEW m \in Modules, AskInVain(m)
  PROVE  IInv'
<1>1. /\ link' = [n \in Modules |-> IF n \in {m} THEN L!Free ELSE link[n]]
      /\ open' = [n \in Modules |-> IF n \in {m} THEN {} ELSE open[n]]
      /\ ins' = [n \in Modules |-> IF n \in {m} THEN None ELSE ins[n]]
  BY DEF AskInVain, L!AskInVain, NewLink, IInv, TypeOK
<1>2. /\ outs' \in [Modules -> Local \cup {None}]
      /\ \A n \in Modules \ {m} : outs'[n] = outs[n]
  BY DEF AskInVain, NewLink, IInv, TypeOK
<1>3. hosted' = hosted \ {m} /\ UNCHANGED <<dongles, seq, caller, brdX, brdR, gateVars>>
  BY DEF AskInVain, NewLink
<1>4. {m} \in SUBSET Modules
  OBVIOUS
<1>5. QED
  BY <1>1, <1>2, <1>3, <1>4, FreedIInv

\* A module that waits for an answer has no stream in its slots.
LEMMA ConnectIInv ==
  ASSUME IInv, NEW S \in SUBSET Modules, Connect(S)
  PROVE  IInv'
<1>1. /\ link' = [m \in Modules |->
                   IF m \in S THEN [link[m] EXCEPT !.up = TRUE] ELSE link[m]]
      /\ \A m \in S : link[m].sys # None /\ ~link[m].up
  BY DEF Connect, L!Connect, L!Used, L!Modules, Modules
<1>2. UNCHANGED <<hosted, dongles, ins, outs, seq, caller, brdX, brdR, open, gateVars>>
  BY DEF Connect, slotVars
<1>3. \A m \in S : /\ link[m] \in Entry /\ link'[m] \in Entry /\ link'[m].up
                   /\ link'[m].sys = link[m].sys /\ link'[m].at = link[m].at
                   /\ link'[m].to = link[m].to
  <2> SUFFICES ASSUME NEW m \in S
               PROVE  /\ link[m] \in Entry /\ link'[m] \in Entry /\ link'[m].up
                      /\ link'[m].sys = link[m].sys /\ link'[m].at = link[m].at
                      /\ link'[m].to = link[m].to
    OBVIOUS
  <2>1. link[m] \in Entry
    BY <1>1 DEF IInv, TypeOK, L!Free
  <2>2. link'[m] = [link[m] EXCEPT !.up = TRUE]
    BY <1>1
  <2>3. QED
    BY <2>1, <2>2 DEF Entry
<1>4. TypeOK'
  BY <1>1, <1>2, <1>3 DEF IInv, TypeOK, gateVars
<1>5. ASSUME NEW m \in S PROVE Good(m)'
  BY <1>1, <1>2, <1>3 DEF IInv, Good, HeardSlot, SpokenSlot, Signed
<1>6. Exclusive'
  BY <1>1, <1>3, StepExclusive
<1>7. \A n \in Modules \ S :
        /\ link'[n] = link[n] /\ (n \in hosted' <=> n \in hosted)
        /\ ins'[n] = ins[n] /\ outs'[n] = outs[n]
        /\ caller'[n] = caller[n] /\ open'[n] = open[n]
  BY <1>1, <1>2
<1>8. UNCHANGED <<brdX, brdR, gateVars>>
  BY <1>2
<1>9. QED
  BY <1>4, <1>5, <1>6, <1>7, <1>8, LinksStep

\* A repeater that links to us, or again.
LEMMA TheyLinkIInv ==
  ASSUME IInv, NEW m \in Modules, NEW y \in Systems, NEW a \in Addrs,
         NEW r \in RemoteMods, TheyLink(m, y, a, r)
  PROVE  IInv'
<1> DEFINE e == [sys |-> y, at |-> a, to |-> r, up |-> TRUE]
<1>1. /\ y \in Callers /\ ins' = [ins EXCEPT ![m] = None]
      /\ link' = [link EXCEPT ![m] = e]
      /\ link[m] = L!Free \/ (/\ m \in Modules /\ link[m].sys # None /\ link[m].at = a
                             /\ Kind[link[m].sys] = "XRF")
      /\ hosted' = IF link[m] = L!Free THEN hosted \cup {m} ELSE hosted
      /\ UNCHANGED <<dongles, outs, seq, caller, brdX, brdR, open, gateVars>>
  BY DEF TheyLink, L!TheyLink, L!Known, L!Used, L!Modules, Modules
<1>2. Kind[y] # "DCS"
  BY <1>1, SystemAssumption
<1>3. e \in Entry /\ link'[m] = e /\ ins'[m] = None
  BY <1>1 DEF IInv, TypeOK, Entry
<1>4. TypeOK'
  BY <1>1, <1>3 DEF IInv, TypeOK, gateVars
<1>5. Good(m)'
  <2>1. CASE link[m] = L!Free
    <3>1. m \in hosted' /\ link'[m].sys \in Callers
      BY <1>1, <1>3, <2>1
    <3>2. QED
      BY <1>3, <3>1, Emptied
  <2>2. CASE link[m].sys # None /\ link[m] # L!Free
    <3>1. outs'[m] # None /\ m \notin hosted' => link'[m].up /\ outs'[m] \in open'[m]
      BY <1>1, <1>3, <2>2, NoneAssumption DEF IInv, Good, SpokenSlot
    <3>2. QED
      BY <1>1, <1>2, <1>3, <2>2, <3>1 DEF Good, HeardSlot, SpokenSlot, Signed, IInv
  <2>3. QED
    BY <1>1, <2>1, <2>2
<1>6. \A n \in Modules \ {m} :
        /\ link'[n] = link[n] /\ (n \in hosted' <=> n \in hosted)
        /\ ins'[n] = ins[n] /\ outs'[n] = outs[n]
        /\ caller'[n] = caller[n] /\ open'[n] = open[n]
  BY <1>1 DEF IInv, TypeOK
<1>7. Exclusive'
  BY <1>2, <1>3, <1>6, StepExclusive
<1>8. UNCHANGED <<brdX, brdR, gateVars>>
  BY <1>1
<1>9. {m} \in SUBSET Modules /\ \A n \in {m} : Good(n)'
  BY <1>5
<1>10. QED
  BY <1>4, <1>6, <1>7, <1>8, <1>9, LinksStep

-----------------------------------------------------------------------------
(* Streams from outside.                                                   *)

\* A relayed header takes the slot of a module linked elsewhere, with the
\* callsign by the protocol it came in with.
LEMMA RelayGood ==
  ASSUME IInv, NEW m \in Modules, NEW s \in Remote, NEW cq \in BOOLEAN,
         Relay(m, s, cq, IF Proto[s] = "XRF" THEN "xrf" ELSE "ref"),
         UNCHANGED <<link, hosted, outs>>, atGate \subseteq atGate'
  PROVE  /\ \A n \in Modules : Good(n)'
         /\ ins' \in [Modules -> Remote \cup {None}]
         /\ caller' \in [Modules -> [{"rptr", "ref", "xrf"} -> Streams \cup {None}]]
         /\ open' \in [Modules -> SUBSET Streams]
<1> DEFINE v == IF Proto[s] = "XRF" THEN "xrf" ELSE "ref"
<1>1. CASE UNCHANGED <<ins, caller, open>>
  BY <1>1, Untouched DEF IInv, TypeOK
<1>2. CASE /\ link[m].up /\ link[m].at # From[s]
           /\ ins' = [ins EXCEPT ![m] = s] /\ caller' = SavedFor(m, v, s)
           /\ open' = [open EXCEPT ![m] = @ \cup {s}]
  <2>1. s \in Streams /\ s # None /\ s \notin Local
    BY StreamAssumption, NoneAssumption DEF Streams
  <2>2. v \in {"xrf", "ref"}
    OBVIOUS
  <2>3. /\ ins' \in [Modules -> Remote \cup {None}]
        /\ caller' \in [Modules -> [{"rptr", "ref", "xrf"} -> Streams \cup {None}]]
        /\ open' \in [Modules -> SUBSET Streams]
    BY <1>2, <2>1, <2>2 DEF SavedFor, IInv, TypeOK
  <2>4. \A n \in Modules \ {m} : Good(n)'
    <3> SUFFICES ASSUME NEW n \in Modules \ {m} PROVE Good(n)'
      OBVIOUS
    <3>1. /\ ins'[n] = ins[n] /\ caller'[n] = caller[n] /\ open'[n] = open[n]
      BY <1>2 DEF SavedFor, IInv, TypeOK
    <3>2. QED
      BY <3>1, Untouched DEF IInv
  <2>5. /\ ins'[m] = s /\ open'[m] = open[m] \cup {s}
        /\ caller'[m]["rptr"] = caller[m]["rptr"]
        /\ Kind[link[m].sys] = "DCS" => caller'[m][v] = s
    BY <1>2, <2>2 DEF SavedFor, IInv, TypeOK
  <2>6. HeardSlot(m)'
    BY <1>2, <2>1, <2>5 DEF HeardSlot
  <2>7. SpokenSlot(m)'
    BY <2>5 DEF IInv, Good, SpokenSlot
  <2>8. Signed(m)'
    BY <2>5 DEF IInv, Good, Signed
  <2>9. QED
    BY <2>3, <2>4, <2>6, <2>7, <2>8 DEF Good
<1>3. QED
  BY <1>1, <1>2 DEF Relay

LEMMA XrfHeaderIInv ==
  ASSUME IInv, NEW s \in Remote, NEW cq \in BOOLEAN, XrfHeader(s, cq)
  PROVE  IInv'
<1>1. PICK m \in Modules :
        /\ atGate' = atGate \cup {s}
        /\ copying' = copying \cup CopyIds(s, Siblings(m, s))
        /\ brdX' = ToBroadcast(brdX, s, Siblings(m, s))
        /\ Relay(m, s, cq, "xrf")
  BY DEF XrfHeader
<1>2. UNCHANGED <<link, hosted, dongles, outs, seq, brdR>> /\ Proto[s] = "XRF" /\ s \in Streams
  BY DEF XrfHeader, linkVars, Streams
<1>3. Siblings(m, s) \in SUBSET (Modules \ {m})
  BY SiblingsAndPeers
<1>4. CopyIds(s, Siblings(m, s)) \subseteq (Remote \X {1, 2})
  BY <1>3, CopyIdsType
<1>5. /\ \A n \in Modules : Good(n)'
      /\ ins' \in [Modules -> Remote \cup {None}]
      /\ caller' \in [Modules -> [{"rptr", "ref", "xrf"} -> Streams \cup {None}]]
      /\ open' \in [Modules -> SUBSET Streams]
  BY <1>1, <1>2, RelayGood
<1>6. TypeOK'
  <2>1. brdX' \in Broadcast
    BY <1>1, <1>2, <1>3, BroadcastType DEF IInv, TypeOK
  <2>2. copying' \subseteq Copies
    BY <1>1, <1>2, <1>3, <1>4 DEF IInv, TypeOK, Copies, Streams
  <2>3. QED
    BY <1>1, <1>2, <1>5, <2>1, <2>2 DEF IInv, TypeOK
<1>7. CopiesBegun'
  BY <1>1, <1>2, <1>4, BroadcastSlots DEF IInv, CopiesBegun
<1>8. Exclusive'
  BY <1>2 DEF IInv, Exclusive
<1>9. QED
  BY <1>5, <1>6, <1>7, <1>8 DEF IInv

LEMMA RefHeaderIInv ==
  ASSUME IInv, NEW s \in Remote, NEW cq \in BOOLEAN, RefHeader(s, cq)
  PROVE  IInv'
<1>1. PICK m \in Modules : atGate' = atGate \cup {s} /\ Relay(m, s, cq, "ref")
  BY DEF RefHeader
<1>2. UNCHANGED <<link, hosted, dongles, outs, seq, brdX, brdR, copying>> /\ Proto[s] # "XRF"
  BY DEF RefHeader, linkVars
<1>3. /\ \A n \in Modules : Good(n)'
      /\ ins' \in [Modules -> Remote \cup {None}]
      /\ caller' \in [Modules -> [{"rptr", "ref", "xrf"} -> Streams \cup {None}]]
      /\ open' \in [Modules -> SUBSET Streams]
  BY <1>1, <1>2, RelayGood
<1>4. TypeOK'
  BY <1>1, <1>2, <1>3 DEF IInv, TypeOK
<1>5. CopiesBegun' /\ Exclusive'
  BY <1>2 DEF IInv, CopiesBegun, Exclusive
<1>6. QED
  BY <1>3, <1>4, <1>5 DEF IInv

\* A last frame empties the slot it was relayed by; the stream is of no DCS
\* reflector, so no module that is linked to one hears it.
LEMMA RemoteEndIInv ==
  ASSUME IInv, NEW s \in Remote, RemoteEnd(s)
  PROVE  IInv'
<1> DEFINE closes(m) == First(Relayed(s), m)
<1>1. /\ Proto[s] # "DCS"
      /\ atGate' = atGate \ {s}
      /\ ins' = [m \in Modules |-> IF closes(m) THEN None ELSE ins[m]]
      /\ open' = [m \in Modules |-> IF closes(m) THEN open[m] \ {s} ELSE open[m]]
      /\ UNCHANGED <<link, hosted, dongles, outs, seq, caller, brdR>>
  BY DEF RemoteEnd, linkVars
<1>2. \/ UNCHANGED <<brdX, copying>>
      \/ brdX' = EndBroadcast(brdX, s) /\ copying' = copying \ CopiedTo(brdX, s)
  BY DEF RemoteEnd
<1>3. s \notin Local
  BY StreamAssumption
<1>4. TypeOK'
  <2>1. EndBroadcast(brdX, s) \in Broadcast
    BY DEF EndBroadcast, Silent, Broadcast, IInv, TypeOK
  <2>2. QED
    BY <1>1, <1>2, <2>1 DEF IInv, TypeOK
<1>5. ASSUME NEW m \in Modules PROVE Good(m)'
  <2>1. CASE closes(m)
    <3>1. ins'[m] = None /\ open'[m] = open[m] \ {s}
      BY <1>1, <2>1
    <3>2. outs[m] # s
      BY <1>3, NoneAssumption DEF IInv, TypeOK, Streams
    <3>3. QED
      BY <1>1, <3>1, <3>2 DEF IInv, Good, HeardSlot, SpokenSlot, Signed
  <2>2. CASE ~closes(m)
    <3>1. ins'[m] = ins[m] /\ open'[m] = open[m]
      BY <1>1, <2>2
    <3>2. ins[m] = s => From[ins[m]] # link[m].at
      <4> SUFFICES ASSUME ins[m] = s, From[ins[m]] = link[m].at PROVE FALSE
        OBVIOUS
      <4>1. s # None
        BY NoneAssumption DEF Streams
      <4>2. Proto[s] = "DCS"
        BY <4>1 DEF IInv, Good, HeardSlot
      <4>3. QED
        BY <1>1, <4>2
    <3>3. QED
      BY <1>1, <3>1, <3>2, Untouched DEF IInv
  <2>3. QED
    BY <2>1, <2>2
<1>6. CopiesBegun'
  <2>1. CASE UNCHANGED <<brdX, copying>>
    BY <1>1, <2>1 DEF IInv, CopiesBegun
  <2>2. CASE brdX' = EndBroadcast(brdX, s) /\ copying' = copying \ CopiedTo(brdX, s)
    <3> SUFFICES ASSUME NEW k \in {1, 2}
                 PROVE  /\ brdX'.to[k] \in (copying' \cap (Remote \X {1, 2})) \cup {None}
                        /\ brdR'.to[k] \in (copying' \cap (Local \X {1, 2})) \cup {None}
      BY DEF CopiesBegun
    <3>1. brdX'.to[k] # None => brdX'.to[k] = brdX.to[k] /\ CopiedTo(brdX, s) = {}
      BY <2>2, EndedCopies
    <3>2. CopiedTo(brdX, s) \subseteq Remote \X {1, 2}
      BY DEF CopiedTo, IInv, CopiesBegun
    <3>3. (Remote \X {1, 2}) \cap (Local \X {1, 2}) = {}
      BY StreamAssumption
    <3>4. brdX'.to[k] \in (copying' \cap (Remote \X {1, 2})) \cup {None}
      BY <2>2, <3>1 DEF IInv, CopiesBegun
    <3>5. brdR'.to[k] \in (copying' \cap (Local \X {1, 2})) \cup {None}
      BY <1>1, <2>2, <3>2, <3>3 DEF IInv, CopiesBegun
    <3>6. QED
      BY <3>4, <3>5
  <2>3. QED
    BY <1>2, <2>1, <2>2
<1>7. Exclusive'
  BY <1>1 DEF IInv, Exclusive
<1>8. QED
  BY <1>4, <1>5, <1>6, <1>7 DEF IInv

-----------------------------------------------------------------------------
(* Streams of DCS reflectors.                                              *)

\* Where the stream is new the gateway gets its header now; where it is not,
\* it had it before.
LEMMA DcsFrameIInv ==
  ASSUME IInv, NEW s \in Theirs, NEW m \in Modules, NEW k \in FrameNos, DcsFrame(s, m, k)
  PROVE  IInv'
<1>1. /\ ins' = [ins EXCEPT ![m] = s] /\ seq' = [seq EXCEPT ![m] = k]
      /\ atGate' = IF ins[m] # s THEN atGate \cup {s} ELSE atGate
      /\ UNCHANGED <<link, hosted, dongles, outs, caller, brdX, brdR, open, copying>>
  BY DEF DcsFrame, New, linkVars
<1>2. /\ link[m].sys = Origin[s] /\ link[m].to = FromMod[s] /\ link[m].up
      /\ link[m].at = From[s] /\ Proto[s] = "DCS" /\ s \in Remote /\ s # None
  BY StreamAssumption, NoneAssumption DEF DcsFrame, ForDcs, First, Linked, Sender, Remote, Streams
<1>3. TypeOK'
  BY <1>1, <1>2 DEF IInv, TypeOK
<1>4. ASSUME NEW n \in Modules \ {m} PROVE Good(n)'
  BY <1>1, Untouched DEF IInv, TypeOK
<1>5. Good(m)'
  <2>1. ins'[m] = s
    BY <1>1 DEF IInv, TypeOK
  <2>2. s \in atGate'
    BY <1>1, <1>2 DEF IInv, Good, HeardSlot
  <2>3. HeardSlot(m)'
    BY <1>1, <1>2, <2>1, <2>2 DEF HeardSlot
  <2>4. SpokenSlot(m)' /\ Signed(m)'
    BY <1>1, <1>2, <2>1 DEF IInv, Good, SpokenSlot, Signed
  <2>5. QED
    BY <2>3, <2>4 DEF Good
<1>6. CopiesBegun' /\ Exclusive'
  BY <1>1 DEF IInv, CopiesBegun, Exclusive
<1>7. QED
  BY <1>3, <1>4, <1>5, <1>6 DEF IInv

\* No other module hears the stream that ends.
LEMMA DcsEndIInv ==
  ASSUME IInv, NEW s \in Theirs, NEW m \in Modules, DcsEnd(s, m)
  PROVE  IInv'
<1>1. /\ ins' = [ins EXCEPT ![m] = None] /\ seq' = [seq EXCEPT ![m] = None]
      /\ atGate' = atGate \ {s}
      /\ UNCHANGED <<link, hosted, dongles, outs, caller, brdX, brdR, open, copying>>
  BY DEF DcsEnd, linkVars
<1>2. link[m].sys = Origin[s] /\ link[m].to = FromMod[s]
  BY DEF DcsEnd, ForDcs, First, Linked
<1>3. TypeOK'
  BY <1>1 DEF IInv, TypeOK
<1>4. ASSUME NEW n \in Modules \ {m} PROVE Good(n)'
  <2>1. ins[n] = s => From[ins[n]] # link[n].at
    <3> SUFFICES ASSUME ins[n] = s, From[ins[n]] = link[n].at PROVE FALSE
      OBVIOUS
    <3>1. s # None /\ Origin[s] # None
      BY StreamAssumption, NoneAssumption DEF Remote, Streams
    <3>2. /\ link[n].sys = Origin[s] /\ link[n].to = FromMod[s]
          /\ Kind[Origin[s]] = "DCS"
      BY <3>1, StreamAssumption DEF IInv, Good, HeardSlot
    <3>3. QED
      BY <1>2, <3>1, <3>2 DEF IInv, Exclusive
  <2>2. ins'[n] = ins[n]
    BY <1>1 DEF IInv, TypeOK
  <2>3. QED
    BY <1>1, <2>1, <2>2, Untouched DEF IInv
<1>5. Good(m)'
  <2>1. ins'[m] = None
    BY <1>1 DEF IInv, TypeOK
  <2>2. QED
    BY <1>1, <2>1 DEF IInv, Good, HeardSlot, SpokenSlot, Signed
<1>6. CopiesBegun' /\ Exclusive'
  BY <1>1 DEF IInv, CopiesBegun, Exclusive
<1>7. QED
  BY <1>3, <1>4, <1>5, <1>6 DEF IInv

-----------------------------------------------------------------------------
(* Streams of the local radios.                                            *)

LEMMA LocalHeaderIInv ==
  ASSUME IInv, NEW s \in Local, LocalHeader(s)
  PROVE  IInv'
<1> DEFINE m == Src[s]
<1>1. /\ link[m].up /\ outs' = [outs EXCEPT ![m] = s]
      /\ caller' = SavedFor(m, "rptr", s) /\ open' = [open EXCEPT ![m] = @ \cup {s}]
      /\ brdR' = ToBroadcast(brdR, s, Peers(m))
      /\ copying' = copying \cup CopyIds(s, Peers(m))
      /\ UNCHANGED <<link, hosted, dongles, ins, seq, brdX, atGate>>
  BY DEF LocalHeader, linkVars
<1>2. m \in Modules /\ s \in Streams /\ s # None
  BY StreamAssumption, NoneAssumption DEF Streams
<1>3. Peers(m) \in SUBSET (Modules \ {m})
  BY <1>2, SiblingsAndPeers
<1>4. CopyIds(s, Peers(m)) \subseteq Local \X {1, 2}
  BY <1>2, <1>3, CopyIdsType
<1>5. /\ caller' \in [Modules -> [{"rptr", "ref", "xrf"} -> Streams \cup {None}]]
      /\ \A n \in Modules \ {m} : caller'[n] = caller[n]
      /\ caller'[m]["xrf"] = caller[m]["xrf"] /\ caller'[m]["ref"] = caller[m]["ref"]
      /\ Kind[link[m].sys] = "DCS" => caller'[m]["rptr"] = s
  BY <1>1, <1>2 DEF SavedFor, IInv, TypeOK
<1>6. TypeOK'
  <2>1. brdR' \in Broadcast
    BY <1>1, <1>2, <1>3, BroadcastType DEF IInv, TypeOK
  <2>2. copying' \subseteq Copies
    BY <1>1, <1>4 DEF IInv, TypeOK, Copies, Streams
  <2>3. QED
    BY <1>1, <1>2, <1>5, <2>1, <2>2 DEF IInv, TypeOK
<1>7. ASSUME NEW n \in Modules \ {m} PROVE Good(n)'
  <2>1. outs'[n] = outs[n] /\ open'[n] = open[n]
    BY <1>1, <1>2 DEF IInv, TypeOK
  <2>2. QED
    BY <1>1, <1>5, <2>1, Untouched DEF IInv
<1>8. Good(m)'
  <2>1. outs'[m] = s /\ open'[m] = open[m] \cup {s}
    BY <1>1, <1>2 DEF IInv, TypeOK
  <2>2. Good(m)
    BY <1>2 DEF IInv
  <2>3. HeardSlot(m)' /\ SpokenSlot(m)'
    BY <1>1, <2>1, <2>2 DEF Good, HeardSlot, SpokenSlot
  <2>4. Signed(m)'
    BY <1>1, <1>5, <2>1, <2>2 DEF Good, Signed
  <2>5. QED
    BY <2>3, <2>4 DEF Good
<1>9. CopiesBegun'
  BY <1>1, <1>4, BroadcastSlots DEF IInv, CopiesBegun
<1>10. Exclusive'
  BY <1>1 DEF IInv, Exclusive
<1>11. QED
  BY <1>2, <1>6, <1>7, <1>8, <1>9, <1>10 DEF IInv

LEMMA LocalEndIInv ==
  ASSUME IInv, NEW s \in Local, LocalEnd(s)
  PROVE  IInv'
<1>1. PICK m \in Modules :
        /\ outs' = [outs EXCEPT ![m] = None] /\ open' = [open EXCEPT ![m] = @ \ {s}]
        /\ brdR' = EndBroadcast(brdR, s) /\ copying' = copying \ CopiedTo(brdR, s)
        /\ UNCHANGED <<link, hosted, dongles, ins, seq, caller, brdX, atGate>>
  BY DEF LocalEnd, linkVars
<1>2. s \notin Remote
  BY StreamAssumption
<1>3. TypeOK'
  <2>1. EndBroadcast(brdR, s) \in Broadcast
    BY DEF EndBroadcast, Silent, Broadcast, IInv, TypeOK
  <2>2. QED
    BY <1>1, <2>1 DEF IInv, TypeOK
<1>4. ASSUME NEW n \in Modules \ {m} PROVE Good(n)'
  <2>1. outs'[n] = outs[n] /\ open'[n] = open[n]
    BY <1>1 DEF IInv, TypeOK
  <2>2. QED
    BY <1>1, <2>1, Untouched DEF IInv
<1>5. Good(m)'
  <2>1. /\ outs'[m] = None /\ open'[m] = open[m] \ {s}
        /\ ins[m] \in Remote \cup {None} /\ link'[m] = link[m]
    BY <1>1 DEF IInv, TypeOK
  <2>2. QED
    BY <1>1, <1>2, <2>1 DEF IInv, Good, HeardSlot, SpokenSlot, Signed
<1>6. CopiesBegun'
  <2> SUFFICES ASSUME NEW k \in {1, 2}
               PROVE  /\ brdX'.to[k] \in (copying' \cap (Remote \X {1, 2})) \cup {None}
                      /\ brdR'.to[k] \in (copying' \cap (Local \X {1, 2})) \cup {None}
    BY DEF CopiesBegun
  <2>1. brdR'.to[k] # None => brdR'.to[k] = brdR.to[k] /\ CopiedTo(brdR, s) = {}
    BY <1>1, EndedCopies
  <2>2. CopiedTo(brdR, s) \subseteq Local \X {1, 2}
    BY DEF CopiedTo, IInv, CopiesBegun
  <2>3. (Remote \X {1, 2}) \cap (Local \X {1, 2}) = {}
    BY StreamAssumption
  <2>4. brdX'.to[k] \in (copying' \cap (Remote \X {1, 2})) \cup {None}
    BY <1>1, <2>2, <2>3 DEF IInv, CopiesBegun
  <2>5. brdR'.to[k] \in (copying' \cap (Local \X {1, 2})) \cup {None}
    BY <1>1, <2>1 DEF IInv, CopiesBegun
  <2>6. QED
    BY <2>4, <2>5
<1>7. Exclusive'
  BY <1>1 DEF IInv, Exclusive
<1>8. QED
  BY <1>3, <1>4, <1>5, <1>6, <1>7 DEF IInv

-----------------------------------------------------------------------------
LEMMA StepIInv == IInv /\ [Next]_vars => IInv'
<1> SUFFICES ASSUME IInv, [Next]_vars PROVE IInv'
  OBVIOUS
<1>1. CASE Linking
  BY <1>1, AskIInv, AskInVainIInv, UnlinkIInv, ConnectIInv, TheyLinkIInv
     DEF Linking
<1>2. CASE Voice
  <2>1. Theirs \subseteq Remote
    BY DEF Remote
  <2>2. QED
    BY <1>2, <2>1, XrfHeaderIInv, RefHeaderIInv, RemoteEndIInv, DcsFrameIInv, DcsEndIInv,
       LocalHeaderIInv, LocalEndIInv DEF Voice
<1>3. CASE (\E d \in Dongles : DongleComes(d) \/ DongleGoes(d)) \/ UNCHANGED vars
  <2>1. dongles' \subseteq Dongles
    BY <1>3 DEF DongleComes, DongleGoes, vars, linkVars, IInv, TypeOK
  <2>2. UNCHANGED <<link, hosted, ins, outs, seq, caller, brdX, brdR, open, atGate, copying>>
    BY <1>3 DEF DongleComes, DongleGoes, vars, linkVars, slotVars, gateVars
  <2>3. TypeOK'
    BY <2>1, <2>2 DEF IInv, TypeOK
  <2>4. \A m \in Modules : Good(m)'
    BY <2>2, Untouched DEF IInv
  <2>5. QED
    BY <2>2, <2>3, <2>4 DEF IInv, Exclusive, CopiesBegun
<1>4. QED
  BY <1>1, <1>2, <1>3 DEF Next

THEOREM IInvHolds == Spec => []IInv
BY InitIInv, StepIInv, PTL DEF Spec

\* Slots, links and copies keep their types: no more copies than slots.
THEOREM TypeCorrect == Spec => []TypeOK
<1>1. IInv => TypeOK
  BY DEF IInv
<1>2. QED
  BY IInvHolds, <1>1, PTL

\* No frame goes out on a link on which its header did not, but for those of
\* our user to a repeater that linked to his module.
THEOREM RelayCorrect == Spec => []RelayedAfterHeader
<1>1. ASSUME IInv PROVE RelayedAfterHeader
  <2> SUFFICES ASSUME NEW m \in Modules, link[m].up
               PROVE  /\ ins[m] # None => ins[m] \in open[m] \/ From[ins[m]] = link[m].at
                      /\ outs[m] # None => outs[m] \in open[m] \/ m \in hosted
    BY DEF RelayedAfterHeader
  <2>1. link[m].sys # None
    BY <1>1, NoneAssumption DEF IInv, TypeOK, Entry, L!Free
  <2>2. QED
    BY <1>1, <2>1 DEF IInv, Good, HeardSlot, SpokenSlot
<1>2. QED
  BY IInvHolds, <1>1, PTL

\* The frames to a DCS reflector carry the callsign of who is heard in them.
THEOREM CallsignCorrect == Spec => []OwnCallsign
<1>1. ASSUME IInv PROVE OwnCallsign
  <2>1. \A m \in Modules : link[m].up => link[m].sys # None
    BY <1>1, NoneAssumption DEF IInv, TypeOK, Entry, L!Free
  <2>2. QED
    BY <1>1, <2>1 DEF IInv, Good, Signed, OwnCallsign
<1>2. QED
  BY IInvHolds, <1>1, PTL

\* The gateway had the header of every copy and DCS stream it gets frames of.
THEOREM GatewayCorrect == Spec => []GatewayAfterHeader
<1>1. ASSUME IInv PROVE GatewayAfterHeader
  <2>1. \A b \in {brdX, brdR} : {b.to[1], b.to[2]} \subseteq copying \cup {None}
    BY <1>1 DEF IInv, CopiesBegun
  <2>2. QED
    BY <1>1, <2>1 DEF IInv, Good, HeardSlot, GatewayAfterHeader
<1>2. QED
  BY IInvHolds, <1>1, PTL
=============================================================================
