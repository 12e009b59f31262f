--------------------------- MODULE LinkTable_proof ---------------------------
(* Proofs of the safety properties of LinkTable, for any number of modules, *)
(* any systems, addresses and configuration.                                *)
EXTENDS LinkTable, FiniteSetTheorems, TLAPS

\* Sets of modules are ordered well by strict inclusion.
LEMMA SubsetsWellFounded ==
  ASSUME NEW F \in SUBSET (SUBSET Modules), F # {}
  PROVE  \E x \in F : \A y \in F : ~(y \subseteq x /\ y # x)
<1>1. IsFiniteSet(Modules)
  BY FS_Interval, SizeAssumption DEF Modules
<1>2. FiniteSubsetsOf(Modules) = SUBSET Modules
  BY <1>1, FS_FiniteSubsetsOfFinite
<1>3. IsWellFoundedOn(StrictSubsetOrdering(Modules), SUBSET Modules)
  BY <1>2, FS_StrictSubsetOrderingWellFounded
<1>4. PICK x \in F : \A y \in F : <<y, x>> \notin StrictSubsetOrdering(Modules)
  BY <1>3, WFMin
<1>5. \A y \in F : ~(y \subseteq x /\ y # x)
  BY <1>4 DEF StrictSubsetOrdering
<1> QED BY <1>5

\* A set of modules that is not empty has a first one, which its modules that
\* come before any other one show.
LEMMA LeastExists ==
  ASSUME NEW S \in SUBSET Modules, S # {}
  PROVE  LeastOf(S) \in S /\ \A n \in S : LeastOf(S) <= n
<1> DEFINE Below(k) == {j \in Modules : j < k}
<1> DEFINE F == {Below(k) : k \in S}
<1>0. F \in SUBSET (SUBSET Modules) /\ F # {}
  OBVIOUS
<1>1. PICK x \in F : \A y \in F : ~(y \subseteq x /\ y # x)
  <2> HIDE DEF F
  <2> QED BY <1>0, SubsetsWellFounded
<1>2. PICK k \in S : x = Below(k)
  BY <1>1
<1>3. ASSUME NEW n \in S, n < k PROVE FALSE
  <2>1. n \in Nat /\ k \in Nat /\ n \in Modules
    BY DEF Modules
  <2>2. Below(n) \subseteq Below(k) /\ n \in Below(k) /\ n \notin Below(n)
    BY <2>1, <1>3 DEF Modules
  <2> QED BY <1>1, <1>2, <2>2
<1>4. \A n \in S : k <= n
  BY <1>3 DEF Modules
<1> QED BY <1>4 DEF LeastOf

\* ... and a last one.
LEMMA LastExists ==
  ASSUME NEW S \in SUBSET Modules, S # {}
  PROVE  LastOf(S) \in S
<1> DEFINE Above(k) == {j \in Modules : k < j}
<1> DEFINE F == {Above(k) : k \in S}
<1>0. F \in SUBSET (SUBSET Modules) /\ F # {}
  OBVIOUS
<1>1. PICK x \in F : \A y \in F : ~(y \subseteq x /\ y # x)
  <2> HIDE DEF F
  <2> QED BY <1>0, SubsetsWellFounded
<1>2. PICK k \in S : x = Above(k)
  BY <1>1
<1>3. ASSUME NEW n \in S, k < n PROVE FALSE
  <2>1. n \in Nat /\ k \in Nat /\ n \in Modules
    BY DEF Modules
  <2>2. Above(n) \subseteq Above(k) /\ n \in Above(k) /\ n \notin Above(n)
    BY <2>1, <1>3 DEF Modules
  <2> QED BY <1>1, <1>2, <2>2
<1>4. \A n \in S : n <= k
  BY <1>3 DEF Modules
<1> QED BY <1>4 DEF LastOf

-----------------------------------------------------------------------------
(* Entries.                                                                *)

\* An entry of a module that is not linked.
Vacant(e) == e.cs = None /\ e.addr = None /\ e.port = None /\ ~e.up

LEMMA EntryTypes ==
  /\ Free \in Entry /\ GaveUp \in Entry /\ Vacant(Free) /\ Vacant(GaveUp)
  /\ \A s \in Systems, a \in Addrs, p \in Ports, r \in RemoteMods, u \in BOOLEAN :
       [cs |-> s, addr |-> a, port |-> p, to |-> r, up |-> u, left |-> Timeout] \in Entry
<1>1. Free \in Entry /\ GaveUp \in Entry
  BY SizeAssumption DEF Free, GaveUp, Unlinked, Entry
<1>2. Vacant(Free) /\ Vacant(GaveUp)
  BY DEF Free, GaveUp, Unlinked, Vacant
<1>3. \A s \in Systems, a \in Addrs, p \in Ports, r \in RemoteMods, u \in BOOLEAN :
       [cs |-> s, addr |-> a, port |-> p, to |-> r, up |-> u, left |-> Timeout] \in Entry
  BY SizeAssumption DEF Entry
<1> QED BY <1>1, <1>2, <1>3

LEMMA SharesType ==
  ASSUME TypeOK, NEW m \in Modules, NEW s \in Systems
  PROVE  Shares(m, s) \in BOOLEAN
<1>1. CASE Siblings(m, s) = {} BY <1>1 DEF Shares
<1>2. CASE Siblings(m, s) # {}
  <2>1. LeastOf(Siblings(m, s)) \in Modules
    BY <1>2, LeastExists DEF Siblings
  <2> QED BY <2>1 DEF Shares, TypeOK, Entry
<1> QED BY <1>1, <1>2

\* g2link leaves an entry that is not linked, or one for the system it was
\* asked for, at the address the look-up came to, whose module no other has.
LEMMA G2LinkResult ==
  ASSUME TypeOK, NEW m \in Modules, NEW s \in Systems, NEW r \in RemoteMods,
         NEW h \in Lookups(s)
  PROVE  LET e == G2Link(m, s, r, h) IN
         /\ e \in Entry
         /\ \/ Vacant(e)
            \/ /\ e.cs = s /\ e.addr = h /\ e.port = Kind[s] /\ e.to = r
               /\ e.up = Shares(m, s) /\ ~Taken(m, s, r) /\ h \in Addrs
<1> DEFINE new == [cs |-> s, addr |-> h, port |-> Kind[s], to |-> r,
                   up |-> Shares(m, s), left |-> Timeout]
<1>1. \/ G2Link(m, s, r, h) = Free \/ G2Link(m, s, r, h) = GaveUp
      \/ G2Link(m, s, r, h) = new /\ ~Taken(m, s, r) /\ h \in Hosts[s]
  BY DEF G2Link, Lookups
<1>2. Hosts[s] \in SUBSET Addrs /\ Kind[s] \in Ports
  BY HostAssumption DEF Ports
<1>3. h \in Hosts[s] => h \in Addrs /\ new \in Entry
  BY <1>2, SharesType, EntryTypes
<1>4. /\ new.cs = s /\ new.addr = h /\ new.port = Kind[s] /\ new.to = r
      /\ new.up = Shares(m, s)
  OBVIOUS
<1> HIDE DEF new
<1> QED BY <1>1, <1>3, <1>4, EntryTypes

-----------------------------------------------------------------------------
(* What the handlers do to the table.                                      *)

\* Nothing is called "none".
LEMMA NoneIsNone == None \notin Named /\ None \notin Repeaters
BY NameAssumption, HostAssumption

\* Unlinking keeps the table sound.
LEMMA Vacate ==
  ASSUME Shape, ExclusiveModule,
         \A n \in Modules : link'[n] = link[n] \/ Vacant(link'[n])
  PROVE  Shape' /\ ExclusiveModule'
<1>1. EntriesWhole'
  BY DEF Shape, EntriesWhole, Vacant
<1>2. PortsOfKinds'
  BY DEF Shape, PortsOfKinds, Vacant
<1>3. ExclusiveModule'
  BY NoneIsNone DEF ExclusiveModule, Vacant
<1> QED BY <1>1, <1>2, <1>3 DEF Shape

\* So does an answer that connects modules or renews their countdown.
LEMMA Renew ==
  ASSUME Shape, ExclusiveModule,
         \A n \in Modules :
           /\ link'[n].cs = link[n].cs /\ link'[n].addr = link[n].addr
           /\ link'[n].port = link[n].port /\ link'[n].to = link[n].to
           /\ link'[n].up => link[n].up \/ link[n].cs # None
  PROVE  Shape' /\ ExclusiveModule'
<1>1. EntriesWhole'
  BY DEF Shape, EntriesWhole
<1>2. PortsOfKinds'
  BY DEF Shape, PortsOfKinds
<1>3. ExclusiveModule'
  BY DEF ExclusiveModule
<1> QED BY <1>1, <1>2, <1>3 DEF Shape

\* So does a new entry of one module, with the port of its protocol unless a
\* repeater has made it, and with a remote module no other module has.
LEMMA Enter ==
  ASSUME TypeOK, Shape, ExclusiveModule, NEW m \in Modules, NEW e \in Entry,
         link' = [link EXCEPT ![m] = e],
         e.cs \in Systems, e.addr \in Addrs, e.port \in Ports, e.to \in RemoteMods,
         e.port # Kind[e.cs] => e.cs \in Repeaters /\ e.port = "odd",
         \A n \in Modules : n # m /\ link[n].cs = e.cs /\ e.cs \in Named
                            => link[n].to # e.to
  PROVE  link' \in [Modules -> Entry] /\ Shape' /\ ExclusiveModule'
<1>1. link' \in [Modules -> Entry]
  BY DEF TypeOK
<1>2. link'[m] = e /\ \A n \in Modules : n # m => link'[n] = link[n]
  BY DEF TypeOK
<1>3. EntriesWhole'
  <2>1. e.cs # None BY NameAssumption
  <2> QED BY <1>2, <2>1 DEF Shape, EntriesWhole
<1>4. PortsOfKinds'
  BY <1>2 DEF Shape, PortsOfKinds
<1>5. ExclusiveModule'
  BY <1>2 DEF ExclusiveModule
<1> QED BY <1>1, <1>3, <1>4, <1>5 DEF Shape

\* What g2link makes of an entry keeps the table sound.
LEMMA G2LinkKeeps ==
  ASSUME TypeOK, Shape, ExclusiveModule, NEW m \in Modules, NEW s \in Systems,
         NEW r \in RemoteMods, NEW h \in Lookups(s),
         link' = [link EXCEPT ![m] = G2Link(m, s, r, h)]
  PROVE  link' \in [Modules -> Entry] /\ Shape' /\ ExclusiveModule'
<1> DEFINE e == G2Link(m, s, r, h)
<1>1. /\ e \in Entry
      /\ \/ Vacant(e)
         \/ /\ e.cs = s /\ e.addr = h /\ e.port = Kind[s] /\ e.to = r
            /\ e.up = Shares(m, s) /\ ~Taken(m, s, r) /\ h \in Addrs
  BY G2LinkResult
<1> HIDE DEF e
<1>2. link' = [link EXCEPT ![m] = e] /\ link \in [Modules -> Entry]
  BY DEF e, TypeOK
<1>3. CASE Vacant(e)
  <2>1. \A n \in Modules : link'[n] = link[n] \/ Vacant(link'[n])
    BY <1>2, <1>3
  <2>2. Shape' /\ ExclusiveModule'
    BY <2>1, Vacate
  <2> QED BY <1>1, <1>2, <2>2
<1>4. CASE ~Vacant(e)
  <2>1. /\ e.cs = s /\ e.addr = h /\ e.port = Kind[s] /\ e.to = r
        /\ ~Taken(m, s, r) /\ h \in Addrs
    BY <1>1, <1>4
  <2>2. Kind[s] \in Ports
    BY HostAssumption DEF Ports
  <2>3. \A n \in Modules : n # m /\ link[n].cs = s /\ s \in Named => link[n].to # r
    BY <2>1 DEF Taken, Siblings
  <2>4. /\ e.cs \in Systems /\ e.addr \in Addrs /\ e.port \in Ports
        /\ e.to \in RemoteMods
    BY <2>1, <2>2
  <2>6. e.port # Kind[e.cs] => e.cs \in Repeaters /\ e.port = "odd"
    BY <2>1
  <2>7. e \in Entry /\ link' = [link EXCEPT ![m] = e]
    BY <1>1, <1>2
  <2>5. \A n \in Modules : n # m /\ link[n].cs = e.cs /\ e.cs \in Named
                           => link[n].to # e.to
    BY <2>1, <2>3
  <2> QED BY <2>4, <2>5, <2>6, <2>7, Enter
<1> QED BY <1>3, <1>4

-----------------------------------------------------------------------------
(* The steps.                                                              *)

Rows == [Addrs -> Systems \cup {None}]

LEMMA InitIInv == Init => IInv
<1> SUFFICES ASSUME Init PROVE IInv
  OBVIOUS
<1>1. TypeOK
  <2>1. N \in Nat BY SizeAssumption
  <2> QED BY <2>1, EntryTypes DEF Init, TypeOK
<1>2. \A m \in Modules : Vacant(link[m])
  BY EntryTypes DEF Init
<1>3. Shape
  BY <1>2 DEF Shape, EntriesWhole, PortsOfKinds, Vacant
<1>4. ExclusiveModule
  BY <1>2, NoneIsNone DEF Vacant, ExclusiveModule
<1> QED BY <1>1, <1>3, <1>4 DEF IInv

\* A module that has an address, or whose entry a packet is for, is in use.
LEMMA InUse ==
  ASSUME IInv, NEW m \in Modules
  PROVE  /\ \A a \in Addrs : link[m].addr = a => Used(m)
         /\ link[m].up => Used(m)
         /\ Used(m) => link[m].addr \in Addrs /\ link[m].cs \in Systems
                       /\ link[m].to \in RemoteMods
<1>1. None \notin Addrs BY NameAssumption
<1> QED BY <1>1 DEF IInv, TypeOK, Entry, Shape, EntriesWhole, Used

LEMMA RowTypes ==
  ASSUME IInv
  PROVE  /\ status \in Rows
         /\ \A a : DeleteLS(a) \in Rows
         /\ \A m \in Modules : Used(m) => UpdateLS(m) \in Rows
<1>1. status \in Rows
  BY DEF IInv, TypeOK, Rows
<1>2. \A a : DeleteLS(a) \in Rows
  BY <1>1 DEF DeleteLS, Rows
<1>3. ASSUME NEW m \in Modules, Used(m) PROVE UpdateLS(m) \in Rows
  <2>1. link[m].cs \in Systems
    BY <1>3, InUse
  <2> QED BY <1>1, <2>1 DEF UpdateLS, Rows
<1> QED BY <1>1, <1>2, <1>3

\* A step that only unlinks modules.
LEMMA VacateKeeps ==
  ASSUME IInv, link' \in [Modules -> Entry], status' \in Rows,
         session' \subseteq Addrs, silent' = silent, beat' \in 0 .. N,
         \A n \in Modules : link'[n] = link[n] \/ Vacant(link'[n])
  PROVE  IInv'
<1>1. TypeOK'
  BY DEF IInv, TypeOK, Rows
<1>2. Shape' /\ ExclusiveModule'
  BY Vacate DEF IInv
<1> QED BY <1>1, <1>2 DEF IInv

\* A step that only connects modules, or sets their countdown.
LEMMA RenewKeeps ==
  ASSUME IInv, link' \in [Modules -> Entry], status' \in Rows,
         session' \subseteq Addrs, silent' = silent, beat' \in 0 .. N,
         \A n \in Modules :
           /\ link'[n].cs = link[n].cs /\ link'[n].addr = link[n].addr
           /\ link'[n].port = link[n].port /\ link'[n].to = link[n].to
           /\ link'[n].up => link[n].up \/ Used(n)
  PROVE  IInv'
<1>1. TypeOK'
  BY DEF IInv, TypeOK, Rows
<1>2. Shape' /\ ExclusiveModule'
  BY Renew DEF IInv, Used
<1> QED BY <1>1, <1>2 DEF IInv

\* A step that links one module with g2link.
LEMMA LinkKeeps ==
  ASSUME IInv, NEW m \in Modules, NEW s \in Systems, NEW r \in RemoteMods,
         NEW h \in Lookups(s), link' = [link EXCEPT ![m] = G2Link(m, s, r, h)],
         status' \in Rows, session' = session, silent' = silent, beat' \in 0 .. N
  PROVE  IInv'
<1>1. link' \in [Modules -> Entry] /\ Shape' /\ ExclusiveModule'
  BY G2LinkKeeps DEF IInv
<1>2. TypeOK'
  BY <1>1 DEF IInv, TypeOK, Rows
<1> QED BY <1>1, <1>2 DEF IInv
-----------------------------------------------------------------------------
(* The actions.                                                            *)

LEMMA UserLinkStep ==
  ASSUME IInv, NEW m \in Modules, NEW s \in Systems, NEW r \in RemoteMods,
         NEW h \in Lookups(s), UserLink(m, s, r, h)
  PROVE  IInv'
<1>1. status' \in Rows BY RowTypes DEF UserLink
<1>2. beat' \in 0 .. N BY DEF UserLink, IInv, TypeOK
<1> QED BY <1>1, <1>2, LinkKeeps DEF UserLink

LEMMA UserUnlinkStep ==
  ASSUME IInv, NEW m \in Modules, UserUnlink(m)
  PROVE  IInv'
<1>1. link' = [link EXCEPT ![m] = Free] /\ link \in [Modules -> Entry]
  BY DEF UserUnlink, IInv, TypeOK
<1>2. link' \in [Modules -> Entry]
  BY <1>1, EntryTypes
<1>3. \A n \in Modules : link'[n] = link[n] \/ Vacant(link'[n])
  BY <1>1, EntryTypes
<1>4. status' \in Rows BY RowTypes DEF UserUnlink
<1>5. session' \subseteq Addrs /\ silent' = silent /\ beat' \in 0 .. N
  BY DEF UserUnlink, IInv, TypeOK
<1> QED BY <1>2, <1>3, <1>4, <1>5, VacateKeeps

\* A packet for the entries in gone ends them, whatever becomes of their row.
LEMMA GoneStep ==
  ASSUME IInv, NEW gone \in SUBSET Modules,
         link' = [m \in Modules |-> IF m \in gone THEN Free ELSE link[m]],
         status' \in Rows, session' \subseteq session, silent' = silent,
         beat' \in 0 .. N
  PROVE  IInv'
<1>1. link' \in [Modules -> Entry]
  BY EntryTypes DEF IInv, TypeOK
<1>2. \A n \in Modules : link'[n] = link[n] \/ Vacant(link'[n])
  BY EntryTypes
<1>3. session' \subseteq Addrs
  BY DEF IInv, TypeOK
<1> QED BY <1>1, <1>2, <1>3, VacateKeeps

\* The rejection of one module.
LEMMA NakStep ==
  ASSUME IInv, NEW a \in Addrs, NEW m \in Modules, XrfNak(a, m) \/ DcsNak(a, m)
  PROVE  IInv'
<1>1. link' = [n \in Modules |-> IF n \in {m} THEN Free ELSE link[n]]
  BY DEF XrfNak, DcsNak, IInv, TypeOK
<1>2. status' \in Rows
  BY RowTypes DEF XrfNak, DcsNak
<1>3. session' = session /\ silent' = silent /\ beat' \in 0 .. N
  BY DEF XrfNak, DcsNak, IInv, TypeOK
<1> QED BY <1>1, <1>2, <1>3, GoneStep

LEMMA XrfUnlinkRequestStep ==
  ASSUME IInv, NEW a \in Addrs, NEW r \in RemoteMods, XrfUnlinkRequest(a, r)
  PROVE  IInv'
<1> DEFINE gone == {m \in From(a, "XRF") : link[m].to = r}
<1>1. link' = [n \in Modules |-> IF n \in gone THEN Free ELSE link[n]]
  BY DEF XrfUnlinkRequest
<1>2. gone \in SUBSET Modules
  BY DEF From
<1>3. status' \in Rows
  BY RowTypes DEF XrfUnlinkRequest
<1>4. session' = session /\ silent' = silent /\ beat' \in 0 .. N
  BY DEF XrfUnlinkRequest, IInv, TypeOK
<1> HIDE DEF gone
<1> QED BY <1>1, <1>2, <1>3, <1>4, GoneStep

\* A REF reflector ends every link to its address.
LEMMA RefEndStep ==
  ASSUME IInv, NEW a \in Addrs, RefDisconnect(a) \/ RefLoginFail(a)
  PROVE  IInv'
<1> DEFINE gone == From(a, "REF")
<1>1. link' = [n \in Modules |-> IF n \in gone THEN Free ELSE link[n]]
  BY DEF RefDisconnect, RefLoginFail
<1>2. gone \in SUBSET Modules
  BY DEF From
<1>3. status' \in Rows
  BY RowTypes DEF RefDisconnect, RefLoginFail
<1>4. session' = session \ {a} /\ silent' = silent /\ beat' \in 0 .. N
  BY DEF RefDisconnect, RefLoginFail, IInv, TypeOK
<1> HIDE DEF gone
<1> QED BY <1>1, <1>2, <1>3, <1>4, GoneStep

LEMMA InactiveStep ==
  ASSUME IInv, NEW m \in Modules, Inactive(m), beat' \in 0 .. N
  PROVE  IInv'
<1> DEFINE ref  == link[m].port = "REF"
           gone == {m} \cup IF ref THEN {n \in Modules : link[n].addr = link[m].addr}
                                   ELSE {}
<1>1. link' = [n \in Modules |-> IF n \in gone THEN Free ELSE link[n]]
  BY DEF Inactive
<1>2. gone \in SUBSET Modules
  OBVIOUS
<1>3. status' \in Rows
  BY RowTypes DEF Inactive
<1>4. session' = (IF ref THEN session \ {link[m].addr} ELSE session) /\ silent' = silent
  BY DEF Inactive
<1> HIDE DEF gone, ref
<1> QED BY <1>1, <1>2, <1>3, <1>4, GoneStep

\* Entries stay entries when they are connected or renewed.
LEMMA RenewedTypes ==
  /\ Timeout \in 0 .. Timeout
  /\ \A e \in Entry :
       /\ [e EXCEPT !.up = TRUE] \in Entry
       /\ \A k \in 0 .. Timeout : [e EXCEPT !.left = k] \in Entry
       /\ [e EXCEPT !.up = TRUE, !.left = Timeout] \in Entry
<1>1. Timeout \in 0 .. Timeout
  BY SizeAssumption
<1> QED BY <1>1 DEF Entry

\* An answer that renews the entries in heard, and connects them or not.
LEMMA HeardStep ==
  ASSUME IInv, NEW heard \in SUBSET Modules, \A n \in heard : Used(n),
         \/ link' = [m \in Modules |-> IF m \in heard
                      THEN [link[m] EXCEPT !.up = TRUE, !.left = Timeout] ELSE link[m]]
         \/ link' = [m \in Modules |-> IF m \in heard
                      THEN [link[m] EXCEPT !.left = Timeout] ELSE link[m]],
         status' \in Rows, session' \subseteq Addrs, silent' = silent, beat' \in 0 .. N
  PROVE  IInv'
<1>1. link \in [Modules -> Entry] BY DEF IInv, TypeOK
<1>2. \A n \in Modules : \/ link'[n] = link[n]
                         \/ n \in heard /\ link'[n] = [link[n] EXCEPT !.up = TRUE, !.left = Timeout]
                         \/ n \in heard /\ link'[n] = [link[n] EXCEPT !.left = Timeout]
  OBVIOUS
<1>3. DOMAIN link' = Modules /\ link' = [n \in Modules |-> link'[n]]
  OBVIOUS
<1>4. \A n \in Modules : link'[n] \in Entry
  <2> SUFFICES ASSUME NEW n \in Modules PROVE link'[n] \in Entry
    OBVIOUS
  <2>1. link[n] \in Entry BY <1>1
  <2> QED BY <1>2, <2>1, RenewedTypes
<1>5. link' \in [Modules -> Entry]
  BY <1>3, <1>4
<1>6. \A n \in Modules :
           /\ link'[n].cs = link[n].cs /\ link'[n].addr = link[n].addr
           /\ link'[n].port = link[n].port /\ link'[n].to = link[n].to
           /\ link'[n].up => link[n].up \/ Used(n)
  <2> SUFFICES ASSUME NEW n \in Modules
               PROVE  /\ link'[n].cs = link[n].cs /\ link'[n].addr = link[n].addr
                      /\ link'[n].port = link[n].port /\ link'[n].to = link[n].to
                      /\ link'[n].up => link[n].up \/ Used(n)
    OBVIOUS
  <2>1. link[n] \in Entry BY <1>1
  <2>2. CASE link'[n] = link[n] BY <2>2
  <2>3. CASE n \in heard /\ link'[n] = [link[n] EXCEPT !.up = TRUE, !.left = Timeout]
    BY <2>1, <2>3 DEF Entry
  <2>4. CASE n \in heard /\ link'[n] = [link[n] EXCEPT !.left = Timeout]
    BY <2>1, <2>4 DEF Entry
  <2> QED BY <1>2, <2>2, <2>3, <2>4
<1> QED BY <1>5, <1>6, RenewKeeps

\* The modules a packet is for have an entry.
LEMMA FromUsed ==
  ASSUME IInv, NEW a \in Addrs, NEW p
  PROVE  From(a, p) \in SUBSET Modules /\ \A m \in From(a, p) : Used(m)
BY NameAssumption DEF From, Used, IInv, Shape, EntriesWhole

LEMMA XrfHeardStep ==
  ASSUME IInv, NEW a \in Addrs, XrfKeepalive(a) \/ XrfVoice(a)
  PROVE  IInv'
<1>1. From(a, "XRF") \in SUBSET Modules /\ \A n \in From(a, "XRF") : Used(n)
  BY FromUsed
<1>2. status' \in Rows BY RowTypes DEF XrfKeepalive, XrfVoice
<1>3. session' \subseteq Addrs /\ silent' = silent /\ beat' \in 0 .. N
  BY DEF XrfKeepalive, XrfVoice, IInv, TypeOK
<1> QED BY <1>1, <1>2, <1>3, HeardStep DEF XrfKeepalive, XrfVoice

LEMMA AckStep ==
  ASSUME IInv, NEW a \in Addrs, NEW m \in Modules, XrfAck(a, m) \/ DcsAlive(a, m)
  PROVE  IInv'
<1>1. link \in [Modules -> Entry] BY DEF IInv, TypeOK
<1>2. /\ link[m].addr = a
      /\ \/ link' = [link EXCEPT ![m].up = TRUE]
         \/ link' = [link EXCEPT ![m].up = TRUE, ![m].left = Timeout]
  BY DEF XrfAck, DcsAlive, From
<1>3. Used(m) BY <1>2, InUse
<1>4. status' \in Rows BY <1>3, RowTypes DEF XrfAck, DcsAlive
<1>5. session' \subseteq Addrs /\ silent' = silent /\ beat' \in 0 .. N
  BY DEF XrfAck, DcsAlive, IInv, TypeOK
<1>6. link' \in [Modules -> Entry]
  <2>1. \/ link' = [link EXCEPT ![m] = [link[m] EXCEPT !.up = TRUE]]
        \/ link' = [link EXCEPT ![m] = [link[m] EXCEPT !.up = TRUE, !.left = Timeout]]
    BY <1>1, <1>2 DEF Entry
  <2> QED BY <1>1, <2>1, RenewedTypes
<1>7. \A n \in Modules :
           /\ link'[n].cs = link[n].cs /\ link'[n].addr = link[n].addr
           /\ link'[n].port = link[n].port /\ link'[n].to = link[n].to
           /\ n # m => link'[n].up = link[n].up
  BY <1>1, <1>2 DEF Entry
<1> QED BY <1>3, <1>4, <1>5, <1>6, <1>7, RenewKeeps

LEMMA RefHeardStep ==
  ASSUME IInv, NEW a \in Addrs, RefLoginOk(a) \/ RefKeepalive(a)
  PROVE  IInv'
<1>1. From(a, "REF") \in SUBSET Modules /\ \A n \in From(a, "REF") : Used(n)
  BY FromUsed
<1>2. CASE RefLoginOk(a)
  <2> DEFINE heard == {m \in From(a, "REF") : ~link[m].up}
  <2>1. heard # {} /\ heard \in SUBSET Modules /\ \A n \in heard : Used(n)
    BY <1>1, <1>2 DEF RefLoginOk
  <2>2. /\ link' = [m \in Modules |-> IF m \in heard
                     THEN [link[m] EXCEPT !.up = TRUE, !.left = Timeout] ELSE link[m]]
        /\ status' = UpdateLS(LastOf(heard))
    BY <1>2 DEF RefLoginOk
  <2>3. session' \subseteq Addrs /\ silent' = silent /\ beat' \in 0 .. N
    BY <1>2 DEF RefLoginOk, IInv, TypeOK
  <2> HIDE DEF heard
  <2>4. LastOf(heard) \in heard BY <2>1, LastExists
  <2>5. status' \in Rows BY <2>1, <2>2, <2>4, RowTypes
  <2> QED BY <2>1, <2>2, <2>3, <2>5, HeardStep
<1>3. CASE RefKeepalive(a)
  <2>1. status' \in Rows BY <1>3, RowTypes DEF RefKeepalive
  <2>2. session' \subseteq Addrs /\ silent' = silent /\ beat' \in 0 .. N
    BY <1>3 DEF RefKeepalive, IInv, TypeOK
  <2> QED BY <1>1, <1>3, <2>1, <2>2, HeardStep DEF RefKeepalive
<1> QED BY <1>2, <1>3

LEMMA CountDownStep ==
  ASSUME IInv, NEW m \in Modules, CountDown(m), beat' \in 0 .. N
  PROVE  IInv'
<1>1. link \in [Modules -> Entry] BY DEF IInv, TypeOK
<1>2. link' = [link EXCEPT ![m] = [link[m] EXCEPT !.left = link[m].left - 1]]
  BY <1>1 DEF CountDown, Entry
<1>3. link[m].left - 1 \in 0 .. Timeout
  <2>1. link[m].left \in 0 .. Timeout BY <1>1 DEF Entry
  <2> QED BY <2>1, SizeAssumption DEF CountDown
<1>4. link' \in [Modules -> Entry]
  BY <1>1, <1>2, <1>3, RenewedTypes
<1>5. \A n \in Modules :
           /\ link'[n].cs = link[n].cs /\ link'[n].addr = link[n].addr
           /\ link'[n].port = link[n].port /\ link'[n].to = link[n].to
           /\ link'[n].up = link[n].up
  BY <1>1, <1>2 DEF Entry
<1>6. status' \in Rows BY RowTypes DEF CountDown
<1>7. session' \subseteq Addrs /\ silent' = silent
  BY DEF CountDown, IInv, TypeOK
<1> QED BY <1>4, <1>5, <1>6, <1>7, RenewKeeps

LEMMA XrfLinkRequestStep ==
  ASSUME IInv, NEW s \in Repeaters, NEW a \in Addrs, NEW p \in InPorts,
         NEW r \in RemoteMods, NEW m \in Modules, XrfLinkRequest(s, a, p, r, m)
  PROVE  IInv'
<1> DEFINE e == [cs |-> s, addr |-> a, port |-> p, to |-> r,
                 up |-> TRUE, left |-> Timeout]
<1>1. /\ s \in Systems /\ s \notin Named /\ Kind[s] = "XRF"
      /\ p \in {"XRF", "odd"} /\ p \in Ports
  BY HostAssumption, RepeaterAssumption DEF Ports, Kinds
<1>2. e \in Entry BY <1>1, EntryTypes
<1>3. e.cs = s /\ e.addr = a /\ e.port = p /\ e.to = r
  OBVIOUS
<1>4. link' = [link EXCEPT ![m] = e]
  BY DEF XrfLinkRequest
<1> HIDE DEF e
<1>5. link' \in [Modules -> Entry] /\ Shape' /\ ExclusiveModule'
  BY <1>1, <1>2, <1>3, <1>4, Enter DEF IInv
<1>6. status' \in Rows
  <2>1. status \in Rows BY RowTypes
  <2> QED BY <1>1, <2>1 DEF XrfLinkRequest, Rows
<1>7. session' = session /\ silent' = silent /\ beat' = beat
  BY DEF XrfLinkRequest
<1>8. TypeOK'
  BY <1>5, <1>6, <1>7 DEF IInv, TypeOK, Rows
<1> QED BY <1>5, <1>8 DEF IInv

LEMMA ExpireStep ==
  ASSUME IInv, NEW m \in Modules, NEW h \in Lookups(link[m].cs), Expire(m, h),
         beat' \in 0 .. N
  PROVE  IInv'
<1>1. link[m].cs \in Systems /\ link[m].to \in RemoteMods
  BY InUse DEF Expire
<1>2. status' \in Rows BY RowTypes DEF Expire
<1>3. session' = session /\ silent' = silent
  BY DEF Expire
<1>4. link' = [link EXCEPT ![m] = Relinked(m, h)]
  BY DEF Expire
<1>5. CASE m \in AutoLink
  <2>1. link' = [link EXCEPT ![m] = G2Link(m, link[m].cs, link[m].to, h)]
    <3>1. Relinked(m, h) = G2Link(m, link[m].cs, link[m].to, h) BY <1>5 DEF Relinked
    <3> QED BY <1>4, <3>1
  <2> QED BY <1>1, <1>2, <1>3, <2>1, LinkKeeps
<1>6. CASE m \notin AutoLink
  <2>1. link' = [n \in Modules |-> IF n \in {m} THEN Free ELSE link[n]]
    <3>1. Relinked(m, h) = Free BY <1>6 DEF Relinked
    <3> QED BY <1>4, <3>1 DEF IInv, TypeOK
  <2> QED BY <1>2, <1>3, <2>1, GoneStep
<1> QED BY <1>5, <1>6

\* The walk visits no module that is not there.
LEMMA WalkStays ==
  ASSUME IInv, NEW m \in Modules, beat = m, NextModule
  PROVE  beat' \in 0 .. N
BY SizeAssumption DEF NextModule, Modules

\* A step that leaves the table and its rows alone.
LEMMA QuietStep ==
  ASSUME IInv, link' = link, status' = status, session' \subseteq Addrs,
         silent' \subseteq Addrs, beat' \in 0 .. N
  PROVE  IInv'
<1>1. TypeOK' BY DEF IInv, TypeOK
<1>2. Shape' BY DEF IInv, Shape, EntriesWhole, PortsOfKinds
<1>3. ExclusiveModule' BY DEF IInv, ExclusiveModule
<1> QED BY <1>1, <1>2, <1>3 DEF IInv

LEMMA UserStep == IInv /\ User => IInv'
BY UserLinkStep, UserUnlinkStep DEF User

LEMMA PacketStep == IInv /\ Packet => IInv'
<1> SUFFICES ASSUME IInv, NEW a \in Addrs,
      \/ XrfKeepalive(a) \/ XrfVoice(a)
      \/ \E m \in Modules : XrfAck(a, m) \/ XrfNak(a, m)
      \/ \E r \in RemoteMods : XrfUnlinkRequest(a, r)
      \/ \E s \in Repeaters, p \in InPorts, r \in RemoteMods, m \in Modules :
           a \in Origins[s] /\ XrfLinkRequest(s, a, p, r, m)
      \/ \E m \in Modules : DcsAlive(a, m) \/ DcsNak(a, m)
      \/ RefDisconnect(a) \/ RefLoginOk(a) \/ RefLoginFail(a) \/ RefKeepalive(a)
    PROVE IInv'
  BY DEF Packet
<1>1. CASE XrfKeepalive(a) \/ XrfVoice(a) BY <1>1, XrfHeardStep
<1>2. CASE \E m \in Modules : XrfAck(a, m) \/ XrfNak(a, m) BY <1>2, AckStep, NakStep
<1>3. CASE \E r \in RemoteMods : XrfUnlinkRequest(a, r) BY <1>3, XrfUnlinkRequestStep
<1>4. CASE \E s \in Repeaters, p \in InPorts, r \in RemoteMods, m \in Modules :
             a \in Origins[s] /\ XrfLinkRequest(s, a, p, r, m)
  BY <1>4, XrfLinkRequestStep
<1>5. CASE \E m \in Modules : DcsAlive(a, m) \/ DcsNak(a, m) BY <1>5, AckStep, NakStep
<1>6. CASE RefDisconnect(a) \/ RefLoginFail(a) BY <1>6, RefEndStep
<1>7. CASE RefLoginOk(a) \/ RefKeepalive(a) BY <1>7, RefHeardStep
<1> QED BY <1>1, <1>2, <1>3, <1>4, <1>5, <1>6, <1>7

\* A visit of send_heartbeat is to the module the walk is at.
LEMMA Visits ==
  ASSUME Heartbeat, ~BeatBegins
  PROVE  \E m \in Modules :
           /\ beat = m /\ NextModule
           /\ \/ Skip(m) \/ CountDown(m) \/ Inactive(m)
              \/ Used(m) /\ \E h \in Lookups(link[m].cs) : Expire(m, h)
BY DEF Heartbeat, Skip, CountDown, Inactive, Expire

LEMMA HeartbeatStep == IInv /\ Heartbeat => IInv'
<1> SUFFICES ASSUME IInv, Heartbeat PROVE IInv'
  OBVIOUS
<1>0. session \subseteq Addrs /\ silent \subseteq Addrs BY DEF IInv, TypeOK
<1>1. CASE BeatBegins
  <2>1. beat' \in 0 .. N BY <1>1, SizeAssumption DEF BeatBegins
  <2> QED BY <1>0, <1>1, <2>1, QuietStep DEF BeatBegins
<1>2. CASE ~BeatBegins
  <2> PICK m \in Modules :
           /\ beat = m /\ NextModule
           /\ \/ Skip(m) \/ CountDown(m) \/ Inactive(m)
              \/ Used(m) /\ \E h \in Lookups(link[m].cs) : Expire(m, h)
    BY <1>2, Visits
  <2>1. beat' \in 0 .. N BY WalkStays
  <2>2. CASE Skip(m) BY <1>0, <2>1, <2>2, QuietStep DEF Skip
  <2>3. CASE CountDown(m) BY <2>1, <2>3, CountDownStep
  <2>4. CASE Inactive(m) BY <2>1, <2>4, InactiveStep
  <2>5. CASE \E h \in Lookups(link[m].cs) : Expire(m, h) BY <2>1, <2>5, ExpireStep
  <2> QED BY <2>2, <2>3, <2>4, <2>5
<1> QED BY <1>1, <1>2

LEMMA StepIInv == IInv /\ [Next]_vars => IInv'
<1> SUFFICES ASSUME IInv, [Next]_vars PROVE IInv'
  OBVIOUS
<1>1. session \subseteq Addrs /\ silent \subseteq Addrs /\ beat \in 0 .. N
  BY DEF IInv, TypeOK
<1>2. CASE \E a \in Addrs : FallsSilent(a)
  BY <1>1, <1>2, QuietStep DEF FallsSilent
<1>3. CASE UNCHANGED vars
  BY <1>1, <1>3, QuietStep DEF vars
<1> QED BY <1>2, <1>3, UserStep, PacketStep, HeartbeatStep DEF Next

-----------------------------------------------------------------------------
(* The rows of LINKSTATUS.                                                 *)

\* A system with a DCS port is linked by that protocol, and no other is.
LEMMA DcsByPort ==
  ASSUME IInv, NEW m \in Modules, Used(m)
  PROVE  link[m].port = "DCS" <=> Kind[link[m].cs] = "DCS"
<1>1. CASE link[m].port = Kind[link[m].cs]
  BY <1>1
<1>2. CASE link[m].port # Kind[link[m].cs]
  BY <1>2, RepeaterAssumption DEF IInv, Shape, PortsOfKinds, Used
<1> QED BY <1>1, <1>2

\* What a deletion and an update make of each row.
LEMMA RowValues ==
  ASSUME IInv, NEW b \in Addrs
  PROVE  /\ \A a : DeleteLS(a)[b] = IF b = a THEN None ELSE status[b]
         /\ \A m \in Modules : UpdateLS(m)[b] = IF b = link[m].addr
              THEN link[m].cs ELSE status[b]
BY RowTypes DEF DeleteLS, UpdateLS, Rows

\* The rows stay backed if a row that is new is, and if the row goes with each
\* connected DCS module that does not stay.
LEMMA RowsKept ==
  ASSUME IInv, DcsRowBacked,
         \A a \in Addrs :
           \/ status'[a] \in {None, status[a]} \/ Kind[status'[a]] # "DCS"
           \/ \E m \in Modules : /\ link'[m].up /\ link'[m].cs = status'[a]
                                 /\ link'[m].addr = a,
         \A m \in Modules : link[m].up /\ link[m].port = "DCS" =>
           \/ /\ link'[m].up /\ link'[m].cs = link[m].cs
              /\ link'[m].addr = link[m].addr
           \/ status'[link[m].addr] = None
  PROVE  DcsRowBacked'
<1> SUFFICES ASSUME NEW a \in Addrs, status'[a] # None, Kind[status'[a]] = "DCS"
             PROVE  \E m \in Modules : /\ link'[m].up /\ link'[m].cs = status'[a]
                                       /\ link'[m].addr = a
  BY DEF DcsRowBacked
<1>1. CASE status'[a] # status[a]
  BY <1>1
<1>2. CASE status'[a] = status[a]
  <2>1. PICK m \in Modules : /\ link[m].up /\ link[m].cs = status[a]
                             /\ link[m].addr = a
    BY <1>2 DEF DcsRowBacked
  <2>2. link[m].port = "DCS"
    BY <1>2, <2>1, DcsByPort, InUse
  <2> QED BY <1>2, <2>1, <2>2
<1> QED BY <1>1, <1>2

\* No module of which the row stays is unlinked, unless by another protocol.
LEMMA GoneRows ==
  ASSUME IInv, DcsRowBacked, NEW gone \in SUBSET Modules,
         link' = [m \in Modules |-> IF m \in gone THEN Free ELSE link[m]],
         \/ status' = status /\ \A n \in gone : link[n].port # "DCS"
         \/ \E a \in Addrs :
              /\ status' = DeleteLS(a)
              /\ \A n \in gone : link[n].port # "DCS" \/ link[n].addr = a
  PROVE  DcsRowBacked'
<1>1. \A a \in Addrs : status'[a] \in {None, status[a]}
  BY RowValues
<1>2. ASSUME NEW m \in Modules, link[m].up, link[m].port = "DCS"
      PROVE  link'[m] = link[m] \/ status'[link[m].addr] = None
  <2>1. link[m].addr \in Addrs BY <1>2, InUse
  <2> QED BY <1>2, <2>1, RowValues
<1> QED BY <1>1, <1>2, RowsKept

\* A module that is not connected may be linked to anything.
LEMMA LinkRows ==
  ASSUME IInv, DcsRowBacked, NEW m \in Modules, NEW e,
         link' = [link EXCEPT ![m] = e],
         \/ ~link[m].up /\ status' = status
         \/ \E a \in Addrs : link[m].addr = a /\ status' = DeleteLS(a)
  PROVE  DcsRowBacked'
<1>1. \A a \in Addrs : status'[a] \in {None, status[a]}
  BY RowValues
<1>2. \A n \in Modules : n # m => link'[n] = link[n]
  BY DEF IInv, TypeOK
<1>3. link[m].up => status'[link[m].addr] = None
  BY RowValues
<1> QED BY <1>1, <1>2, <1>3, RowsKept

\* An answer connects modules and leaves their systems as they are; the row
\* it makes is that of one of them.
LEMMA HeardRows ==
  ASSUME IInv, DcsRowBacked,
         \A n \in Modules : /\ link'[n].cs = link[n].cs /\ link'[n].addr = link[n].addr
                            /\ link[n].up => link'[n].up,
         \/ status' = status
         \/ \E n \in Modules : Used(n) /\ link'[n].up /\ status' = UpdateLS(n)
  PROVE  DcsRowBacked'
<1>1. ASSUME NEW a \in Addrs, status'[a] # status[a]
      PROVE  \E m \in Modules : /\ link'[m].up /\ link'[m].cs = status'[a]
                                /\ link'[m].addr = a
  <2>1. PICK n \in Modules : Used(n) /\ link'[n].up /\ status' = UpdateLS(n)
    BY <1>1
  <2>2. a = link[n].addr /\ status'[a] = link[n].cs
    BY <1>1, <2>1, RowValues
  <2> QED BY <2>1, <2>2
<1> QED BY <1>1, RowsKept

LEMMA UserRows ==
  ASSUME IInv, DcsRowBacked, User
  PROVE  DcsRowBacked'
<1>1. ASSUME NEW m \in Modules, UserUnlink(m) PROVE DcsRowBacked'
  BY <1>1, InUse, LinkRows DEF UserUnlink
<1>2. ASSUME NEW m \in Modules, NEW s \in Systems, NEW r \in RemoteMods,
             NEW h \in Lookups(s), UserLink(m, s, r, h)
      PROVE  DcsRowBacked'
  BY <1>2, LinkRows DEF UserLink
<1> QED BY <1>1, <1>2 DEF User

LEMMA XrfRows ==
  ASSUME IInv, DcsRowBacked, NEW a \in Addrs,
         \/ XrfKeepalive(a) \/ XrfVoice(a)
         \/ \E m \in Modules : XrfAck(a, m) \/ XrfNak(a, m)
         \/ \E r \in RemoteMods : XrfUnlinkRequest(a, r)
  PROVE  DcsRowBacked'
<1>0. link \in [Modules -> Entry] BY DEF IInv, TypeOK
<1>1. CASE XrfKeepalive(a) \/ XrfVoice(a)
  <2>1. \A n \in Modules : /\ link'[n].cs = link[n].cs /\ link'[n].addr = link[n].addr
                           /\ link[n].up => link'[n].up
    <3>1. CASE XrfKeepalive(a) BY <1>0, <3>1 DEF XrfKeepalive, Entry
    <3>2. CASE XrfVoice(a) BY <1>0, <3>2 DEF XrfVoice, Entry
    <3> QED BY <1>1, <3>1, <3>2
  <2>2. status' = status BY <1>1 DEF XrfKeepalive, XrfVoice
  <2> QED BY <2>1, <2>2, HeardRows
<1>2. ASSUME NEW m \in Modules, XrfAck(a, m) PROVE DcsRowBacked'
  <2>1. \A n \in Modules : /\ link'[n].cs = link[n].cs /\ link'[n].addr = link[n].addr
                           /\ link[n].up => link'[n].up
    BY <1>0, <1>2 DEF XrfAck, Entry
  <2>2. link'[m].up BY <1>0, <1>2 DEF XrfAck, Entry
  <2>3. Used(m) BY <1>2, InUse DEF XrfAck, From
  <2> QED BY <1>2, <2>1, <2>2, <2>3, HeardRows DEF XrfAck
<1>3. ASSUME NEW m \in Modules, XrfNak(a, m) PROVE DcsRowBacked'
  <2>1. link' = [n \in Modules |-> IF n \in {m} THEN Free ELSE link[n]]
    BY <1>0, <1>3 DEF XrfNak
  <2>2. \A n \in {m} : link[n].port # "DCS" BY <1>3 DEF XrfNak, From
  <2> QED BY <1>3, <2>1, <2>2, GoneRows DEF XrfNak
<1>4. ASSUME NEW r \in RemoteMods, XrfUnlinkRequest(a, r) PROVE DcsRowBacked'
  <2> DEFINE gone == {m \in From(a, "XRF") : link[m].to = r}
  <2>1. link' = [n \in Modules |-> IF n \in gone THEN Free ELSE link[n]]
        /\ status' = DeleteLS(a)
    BY <1>4 DEF XrfUnlinkRequest
  <2>2. gone \in SUBSET Modules /\ \A n \in gone : link[n].port # "DCS"
    BY DEF From
  <2> HIDE DEF gone
  <2> QED BY <2>1, <2>2, GoneRows
<1> QED BY <1>1, <1>2, <1>3, <1>4

LEMMA XrfLinkRequestRows ==
  ASSUME IInv, DcsRowBacked, NEW s \in Repeaters, NEW a \in Addrs, NEW p \in InPorts,
         NEW r \in RemoteMods, NEW m \in Modules, XrfLinkRequest(s, a, p, r, m)
  PROVE  DcsRowBacked'
<1>1. Kind[s] # "DCS" BY RepeaterAssumption
<1>2. status' = status \/ status' = [status EXCEPT ![a] = s]
  BY DEF XrfLinkRequest
<1>3. \A b \in Addrs : status'[b] = status[b] \/ Kind[status'[b]] # "DCS"
  BY <1>1, <1>2, RowTypes DEF Rows
<1>4. \A n \in Modules : n # m => link'[n] = link[n]
  BY DEF XrfLinkRequest, IInv, TypeOK
<1>5. link[m].port = "XRF" \/ ~link[m].up
  <2>1. CASE m \in From(a, "XRF") BY <2>1 DEF From
  <2>2. CASE m \notin From(a, "XRF")
    <3>1. link[m].to = Blank BY <2>2 DEF XrfLinkRequest
    <3> QED BY <3>1, InUse, NameAssumption
  <2> QED BY <2>1, <2>2
<1> QED BY <1>3, <1>4, <1>5, RowsKept

LEMMA DcsRows ==
  ASSUME IInv, DcsRowBacked, NEW a \in Addrs, NEW m \in Modules,
         DcsAlive(a, m) \/ DcsNak(a, m)
  PROVE  DcsRowBacked'
<1>0. link \in [Modules -> Entry] BY DEF IInv, TypeOK
<1>1. CASE DcsAlive(a, m)
  <2>1. \A n \in Modules : /\ link'[n].cs = link[n].cs /\ link'[n].addr = link[n].addr
                           /\ link[n].up => link'[n].up
    BY <1>0, <1>1 DEF DcsAlive, Entry
  <2>2. link'[m].up BY <1>0, <1>1 DEF DcsAlive, Entry
  <2>3. Used(m) BY <1>1, InUse DEF DcsAlive, From
  <2> QED BY <1>1, <2>1, <2>2, <2>3, HeardRows DEF DcsAlive
<1>2. CASE DcsNak(a, m)
  <2>1. link[m].addr = a /\ link' = [link EXCEPT ![m] = Free] /\ status' = DeleteLS(a)
    BY <1>2 DEF DcsNak, From
  <2> QED BY <2>1, LinkRows
<1> QED BY <1>1, <1>2

LEMMA RefRows ==
  ASSUME IInv, DcsRowBacked, NEW a \in Addrs,
         RefDisconnect(a) \/ RefLoginOk(a) \/ RefLoginFail(a) \/ RefKeepalive(a)
  PROVE  DcsRowBacked'
<1>0. link \in [Modules -> Entry] BY DEF IInv, TypeOK
<1>1. CASE RefDisconnect(a) \/ RefLoginFail(a)
  <2> DEFINE gone == From(a, "REF")
  <2>1. link' = [n \in Modules |-> IF n \in gone THEN Free ELSE link[n]] /\ status' = status
    BY <1>1 DEF RefDisconnect, RefLoginFail
  <2>2. gone \in SUBSET Modules /\ \A n \in gone : link[n].port # "DCS"
    BY DEF From
  <2> HIDE DEF gone
  <2> QED BY <2>1, <2>2, GoneRows
<1>2. CASE RefLoginOk(a)
  <2> DEFINE waiting == {m \in From(a, "REF") : ~link[m].up}
             last == LastOf(waiting)
  <2>1. waiting # {} /\ waiting \in SUBSET Modules BY <1>2 DEF RefLoginOk, From
  <2>2. last \in waiting /\ status' = UpdateLS(last)
    BY <1>2, <2>1, LastExists DEF RefLoginOk
  <2>3. link' = [m \in Modules |-> IF m \in waiting
                   THEN [link[m] EXCEPT !.up = TRUE, !.left = Timeout] ELSE link[m]]
    BY <1>2 DEF RefLoginOk
  <2>4. Used(last)
    BY <2>2, InUse DEF From
  <2> HIDE DEF waiting, last
  <2>5. \A n \in Modules : /\ link'[n].cs = link[n].cs /\ link'[n].addr = link[n].addr
                           /\ link[n].up => link'[n].up
                           /\ n \in waiting => link'[n].up
    BY <1>0, <2>3 DEF Entry
  <2> QED BY <2>1, <2>2, <2>4, <2>5, HeardRows
<1>3. CASE RefKeepalive(a)
  <2>1. \A n \in Modules : /\ link'[n].cs = link[n].cs /\ link'[n].addr = link[n].addr
                           /\ link[n].up => link'[n].up
    BY <1>0, <1>3 DEF RefKeepalive, Entry
  <2> QED BY <1>3, <2>1, HeardRows DEF RefKeepalive
<1> QED BY <1>1, <1>2, <1>3

LEMMA HeartbeatRows ==
  ASSUME IInv, DcsRowBacked, NEW m \in Modules,
         \/ CountDown(m) \/ Inactive(m)
         \/ Used(m) /\ \E h \in Lookups(link[m].cs) : Expire(m, h)
  PROVE  DcsRowBacked'
<1>0. link \in [Modules -> Entry] BY DEF IInv, TypeOK
<1>1. CASE CountDown(m)
  <2>1. \A n \in Modules : /\ link'[n].cs = link[n].cs /\ link'[n].addr = link[n].addr
                           /\ link[n].up => link'[n].up
    BY <1>0, <1>1 DEF CountDown, Entry
  <2> QED BY <1>1, <2>1, HeardRows DEF CountDown
<1>2. CASE Inactive(m)
  <2> DEFINE gone == {m} \cup IF link[m].port = "REF"
                              THEN {n \in Modules : link[n].addr = link[m].addr} ELSE {}
  <2>1. /\ link' = [n \in Modules |-> IF n \in gone THEN Free ELSE link[n]]
        /\ status' = DeleteLS(link[m].addr) /\ link[m].addr \in Addrs
    BY <1>2, InUse DEF Inactive
  <2>2. gone \in SUBSET Modules /\ \A n \in gone : link[n].addr = link[m].addr
    OBVIOUS
  <2> HIDE DEF gone
  <2> QED BY <2>1, <2>2, GoneRows
<1>3. ASSUME NEW h \in Lookups(link[m].cs), Expire(m, h) PROVE DcsRowBacked'
  BY <1>3, InUse, LinkRows DEF Expire
<1> QED BY <1>1, <1>2, <1>3

LEMMA StepRows == IInv /\ DcsRowBacked /\ [Next]_vars => DcsRowBacked'
<1> SUFFICES ASSUME IInv, DcsRowBacked, [Next]_vars PROVE DcsRowBacked'
  OBVIOUS
<1>1. CASE link' = link /\ status' = status
  BY <1>1 DEF DcsRowBacked
<1>2. CASE User BY <1>2, UserRows
<1>3. CASE Packet
  BY <1>3, XrfRows, XrfLinkRequestRows, DcsRows, RefRows DEF Packet
<1>4. CASE Heartbeat
  BY <1>1, <1>4, HeartbeatRows DEF Heartbeat, BeatBegins, Skip
<1>5. CASE \E a \in Addrs : FallsSilent(a)
  BY <1>1, <1>5 DEF FallsSilent
<1>6. CASE UNCHANGED vars
  BY <1>1, <1>6 DEF vars
<1> QED BY <1>2, <1>3, <1>4, <1>5, <1>6 DEF Next

-----------------------------------------------------------------------------
(* Logins.                                                                 *)

\* A step that ends the login at a leaves no entry for a with the port of REF.
LEMMA StepLogin ==
  ASSUME IInv, [Next]_vars, NEW a \in session \ session', a \notin silent',
         NEW m \in Modules
  PROVE  ~(link'[m].addr = a /\ link'[m].port = "REF")
<1>1. link \in [Modules -> Entry] /\ a \in Addrs /\ a # None
  BY NameAssumption DEF IInv, TypeOK
<1>2. ASSUME NEW n \in Modules, UserUnlink(n)
      PROVE  ~(link'[m].addr = a /\ link'[m].port = "REF")
  <2>1. a = link[n].addr /\ From(a, "REF") = {n}
    BY <1>2 DEF UserUnlink
  <2>2. link'[m].addr # None => m # n /\ link'[m] = link[m]
    BY <1>1, <1>2 DEF UserUnlink, Free, Unlinked
  <2> QED BY <1>1, <2>1, <2>2 DEF From
<1>3. ASSUME NEW b \in Addrs, RefDisconnect(b) \/ RefLoginFail(b)
      PROVE  ~(link'[m].addr = a /\ link'[m].port = "REF")
  <2>1. a = b
    BY <1>3 DEF RefDisconnect, RefLoginFail
  <2>2. link'[m].addr # None => m \notin From(a, "REF") /\ link'[m] = link[m]
    BY <1>3, <2>1 DEF RefDisconnect, RefLoginFail, Free, Unlinked
  <2> QED BY <1>1, <2>2 DEF From
<1>4. ASSUME NEW n \in Modules, Inactive(n)
      PROVE  ~(link'[m].addr = a /\ link'[m].port = "REF")
  <2>1. a = link[n].addr /\ link[n].port = "REF"
    BY <1>4 DEF Inactive
  <2>2. link'[m].addr # None => link[m].addr # a /\ link'[m] = link[m]
    BY <1>4, <2>1 DEF Inactive, Free, Unlinked
  <2> QED BY <1>1, <2>2
<1>5. ASSUME NEW b \in Addrs, FallsSilent(b) PROVE FALSE
  BY <1>5 DEF FallsSilent
<1>6. CASE User
  BY <1>2, <1>6 DEF User, UserLink
<1>7. CASE Packet
  BY <1>3, <1>7 DEF Packet, XrfKeepalive, XrfVoice, XrfAck, XrfNak, XrfUnlinkRequest,
    XrfLinkRequest, DcsAlive, DcsNak, RefLoginOk, RefKeepalive
<1>8. CASE Heartbeat
  BY <1>4, <1>8 DEF Heartbeat, BeatBegins, Skip, CountDown, Expire
<1> QED BY <1>5, <1>6, <1>7, <1>8 DEF Next, vars

-----------------------------------------------------------------------------
(* Links that are asked for again.                                         *)

\* Nobody else can have taken the place of a module whose countdown is over.
LEMMA AsksAgain ==
  ASSUME IInv, NEW m \in Modules, NEW h, m \in AutoLink, Expire(m, h)
  PROVE  link'[m].cs = link[m].cs \/ link'[m] = GaveUp
<1>1. link'[m] = G2Link(m, link[m].cs, link[m].to, h)
  BY DEF Expire, Relinked, IInv, TypeOK
<1>2. ~Taken(m, link[m].cs, link[m].to)
  BY DEF Taken, Siblings, IInv, ExclusiveModule
<1> QED BY <1>1, <1>2 DEF G2Link

\* A module whose countdown is over is only visited by Expire.
LEMMA StepTrying ==
  ASSUME IInv, [Next]_vars
  PROVE  [\A m \in AutoLink : beat = m /\ Used(m) /\ link[m].left = 0 =>
            link'[m].cs = link[m].cs \/ link'[m] = GaveUp]_vars
<1> SUFFICES ASSUME NEW m \in AutoLink, beat = m, Used(m), link[m].left = 0
             PROVE  link'[m].cs = link[m].cs \/ link'[m] = GaveUp
  OBVIOUS
<1>1. m \in Modules /\ m # 0 BY ConfigAssumption DEF Modules
<1>2. CASE link' = link BY <1>2
<1>3. ~User /\ ~Packet
  <2>1. ~User
    BY <1>1 DEF User, UserLink, UserUnlink
  <2>2. \A a : ~Arrives(a)
    BY <1>1 DEF Arrives
  <2>3. \A a, r, k : /\ ~XrfKeepalive(a) /\ ~XrfVoice(a) /\ ~XrfAck(a, k)
                     /\ ~XrfNak(a, k) /\ ~XrfUnlinkRequest(a, r)
    BY <2>2, Zenon DEF XrfKeepalive, XrfVoice, XrfAck, XrfNak, XrfUnlinkRequest
  <2>4. \A s, a, p, r, k : ~XrfLinkRequest(s, a, p, r, k)
    BY <2>2 DEF XrfLinkRequest
  <2>5. \A a, k : /\ ~DcsAlive(a, k) /\ ~DcsNak(a, k) /\ ~RefDisconnect(a)
                  /\ ~RefLoginOk(a) /\ ~RefLoginFail(a) /\ ~RefKeepalive(a)
    BY <2>2, Zenon DEF DcsAlive, DcsNak, RefDisconnect, RefLoginOk, RefLoginFail, RefKeepalive
  <2>6. ~Packet
    BY <2>3, <2>4, <2>5, Zenon DEF Packet
  <2> QED BY <2>1, <2>6
<1>4. CASE Heartbeat
  <2>1. ~BeatBegins BY <1>1 DEF BeatBegins
  <2>2. PICK n \in Modules :
             /\ beat = n
             /\ \/ Skip(n) \/ CountDown(n) \/ Inactive(n)
                \/ \E h \in Lookups(link[n].cs) : Expire(n, h)
    BY <1>4, <2>1, Visits
  <2>3. n = m BY <2>2
  <2>4. \E h \in Lookups(link[m].cs) : Expire(m, h)
    BY <2>2, <2>3 DEF Skip, CountDown, Inactive
  <2> QED BY <1>1, <2>4, AsksAgain
<1> QED BY <1>2, <1>3, <1>4 DEF Next, FallsSilent, vars

-----------------------------------------------------------------------------
(* Links to systems that fell silent.                                      *)

Fate(m) == Ends(m) \/ Stays(m) \/ Counts(m) \/ Revives(m)

\* An expired link is connected again from another module's or not at all.
LEMMA ExpiryEnds ==
  ASSUME IInv, NEW m \in Modules, link[m].up, NEW h, Expire(m, h)
  PROVE  Ends(m) \/ Revives(m)
<1>1. link'[m] = Relinked(m, h) /\ beat = m /\ link[m].left = 0
  BY DEF Expire, IInv, TypeOK
<1>2. CASE ~link'[m].up
  BY <1>2 DEF Ends
<1>3. CASE link'[m].up
  <2>1. m \in AutoLink /\ link'[m] = G2Link(m, link[m].cs, link[m].to, h)
    BY <1>1, <1>3 DEF Relinked, Free, Unlinked
  <2>2. Shares(m, link[m].cs)
    BY <2>1, <1>3 DEF G2Link, Free, GaveUp, Unlinked
  <2>3. Siblings(m, link[m].cs) \in SUBSET Modules
    BY DEF Siblings
  <2>4. LeastOf(Siblings(m, link[m].cs)) \in Siblings(m, link[m].cs)
    BY <2>2, <2>3, LeastExists DEF Shares
  <2> QED BY <1>1, <2>1, <2>2, <2>4 DEF Revives, Shares
<1> QED BY <1>2, <1>3

\* A packet comes from an address that is not silent: it changes no entry of
\* another address, and a link request puts its own address in the entry.
LEMMA PacketFate ==
  ASSUME IInv, Packet, NEW m \in Modules, link[m].up, link[m].addr \in silent
  PROVE  Ends(m) \/ Stays(m)
<1>1. ASSUME NEW a, Arrives(a) PROVE /\ \A p : m \notin From(a, p)
                                     /\ a # link[m].addr /\ beat # m
  BY <1>1 DEF Arrives, From, Modules
<1>2. link \in [Modules -> Entry]
  BY DEF IInv, TypeOK
<1>3. ASSUME NEW a, XrfKeepalive(a) \/ XrfVoice(a) \/ RefDisconnect(a)
                      \/ RefLoginOk(a) \/ RefLoginFail(a) \/ RefKeepalive(a)
      PROVE  Stays(m)
  <2>1. Arrives(a)
    BY <1>3 DEF XrfKeepalive, XrfVoice, RefDisconnect, RefLoginOk, RefLoginFail,
      RefKeepalive
  <2>2. link'[m] = link[m]
    BY <1>1, <1>3, <2>1 DEF XrfKeepalive, XrfVoice, RefDisconnect, RefLoginOk,
      RefLoginFail, RefKeepalive
  <2> QED BY <1>1, <2>1, <2>2 DEF Stays
<1>4. ASSUME NEW a, NEW k \in Modules,
             XrfAck(a, k) \/ XrfNak(a, k) \/ DcsAlive(a, k) \/ DcsNak(a, k)
      PROVE  Stays(m)
  <2>1. Arrives(a) /\ k # m
    BY <1>1, <1>4 DEF XrfAck, XrfNak, DcsAlive, DcsNak
  <2>2. link'[m] = link[m]
    BY <1>2, <1>4, <2>1 DEF XrfAck, XrfNak, DcsAlive, DcsNak
  <2> QED BY <1>1, <2>1, <2>2 DEF Stays
<1>5. ASSUME NEW a, NEW r, XrfUnlinkRequest(a, r) PROVE Stays(m)
  <2>1. Arrives(a) /\ link'[m] = link[m]
    BY <1>1, <1>5 DEF XrfUnlinkRequest
  <2> QED BY <1>1, <2>1 DEF Stays
<1>6. ASSUME NEW s, NEW a, NEW p, NEW r, NEW k \in Modules, XrfLinkRequest(s, a, p, r, k)
      PROVE  Ends(m) \/ Stays(m)
  <2>1. Arrives(a)
    BY <1>6 DEF XrfLinkRequest
  <2>2. CASE k = m
    <3>1. link'[m].addr = a
      BY <1>2, <1>6, <2>2 DEF XrfLinkRequest
    <3> QED BY <1>1, <2>1, <3>1 DEF Ends
  <2>3. CASE k # m
    <3>1. link'[m] = link[m]
      BY <1>2, <1>6, <2>3 DEF XrfLinkRequest
    <3> QED BY <1>1, <2>1, <3>1 DEF Stays
  <2> QED BY <2>2, <2>3
<1> QED BY <1>3, <1>4, <1>5, <1>6 DEF Packet

\* No other step renews it either.
LEMMA StepFate ==
  ASSUME IInv, [Next]_vars, NEW m \in Modules, link[m].up, link[m].addr \in silent
  PROVE  Fate(m)
<1>1. link \in [Modules -> Entry] /\ Used(m) /\ m # 0
  BY InUse DEF IInv, TypeOK, Modules
<1>2. CASE User
  <2>1. beat = 0 /\ beat' = beat /\ (link'[m] = link[m] \/ ~link'[m].up)
    BY <1>1, <1>2 DEF User, UserLink, UserUnlink, Free, Unlinked
  <2> QED BY <1>1, <2>1 DEF Fate, Ends, Stays
<1>3. CASE Packet
  BY <1>3, PacketFate DEF Fate
<1>4. CASE BeatBegins
  BY <1>1, <1>4 DEF BeatBegins, Fate, Stays
<1>5. ASSUME NEW n \in Modules, Skip(n) \/ CountDown(n) \/ Inactive(n) PROVE Fate(m)
  <2>1. CASE n # m
    <3>1. link'[m] = link[m] \/ ~link'[m].up
      BY <1>1, <1>5, <2>1 DEF Skip, CountDown, Inactive, Free, Unlinked
    <3> QED BY <1>5, <2>1, <3>1 DEF Fate, Ends, Stays, Skip, CountDown, Inactive
  <2>2. CASE n = m /\ Skip(m)
    BY <1>1, <2>2 DEF Skip
  <2>3. CASE n = m /\ CountDown(m)
    <3>1. beat = m /\ beat' # m /\ link[m].left > 0
      BY <1>1, <2>3 DEF CountDown, NextModule, Modules
    <3>2. link'[m] = [link[m] EXCEPT !.left = @ - 1]
      BY <1>1, <2>3 DEF CountDown
    <3> QED BY <3>1, <3>2 DEF Fate, Counts
  <2>4. CASE n = m /\ Inactive(m)
    <3>1. ~link'[m].up
      BY <1>1, <2>4 DEF Inactive, Free, Unlinked
    <3> QED BY <3>1 DEF Fate, Ends
  <2> QED BY <1>5, <2>1, <2>2, <2>3, <2>4
<1>6. ASSUME NEW n \in Modules, NEW h, Expire(n, h) PROVE Fate(m)
  <2>1. CASE n = m
    BY <1>6, <2>1, ExpiryEnds DEF Fate
  <2>2. CASE n # m
    <3>1. link'[m] = link[m] /\ beat = n
      BY <1>1, <1>6, <2>2 DEF Expire
    <3> QED BY <2>2, <3>1 DEF Fate, Stays
  <2> QED BY <2>1, <2>2
<1>7. CASE UNCHANGED vars \/ \E a \in Addrs : FallsSilent(a)
  BY <1>7 DEF vars, FallsSilent, Fate, Stays
<1> QED BY <1>2, <1>3, <1>4, <1>5, <1>6, <1>7 DEF Next, Heartbeat

-----------------------------------------------------------------------------
(* The refinement of Links.                                                *)

\* A step of Links, or none.
SeenStep == [Seen!Next]_view

LEMMA ViewOf ==
  ASSUME IInv, NEW m \in Modules
  PROVE  /\ view[m] = View(link[m])
         /\ view[m].sys = link[m].cs /\ view[m].at = link[m].addr
         /\ view[m].up = link[m].up
         /\ Used(m) => view[m].to = link[m].to
         /\ m \in Seen!Used <=> Used(m)
         /\ ~Used(m) => view[m] = Seen!Free
<1>1. ~Used(m) => ~link[m].up /\ link[m].addr = None
  BY DEF IInv, Shape, EntriesWhole, Used
<1>2. link[m].up \in BOOLEAN
  BY DEF IInv, TypeOK, Entry
<1> QED BY <1>1, <1>2 DEF view, View, Used, Seen!Used, Seen!Free, Seen!Modules, Modules

LEMMA SameSeen ==
  ASSUME \A m \in Modules : View(link'[m]) = View(link[m])
  PROVE  SeenStep
BY DEF SeenStep, view

\* Modules that are unlinked.
LEMMA GoneSeen ==
  ASSUME IInv, NEW gone \in SUBSET Modules, \A m \in gone : Used(m),
         link' = [m \in Modules |-> IF m \in gone THEN Free ELSE link[m]]
  PROVE  SeenStep
<1>1. gone \in SUBSET Seen!Modules BY DEF Seen!Modules, Modules
<1>2. gone \subseteq Seen!Used BY ViewOf
<1>3. View(Free) = Seen!Free BY DEF View, Free, Unlinked, Seen!Free
<1>4. view' = [m \in Seen!Modules |-> IF m \in gone THEN Seen!Free ELSE view[m]]
  BY <1>3 DEF view, Seen!Modules, Modules
<1> QED BY <1>1, <1>2, <1>4 DEF SeenStep, Seen!Next, Seen!Unlink

LEMMA UnlinkSeen ==
  ASSUME IInv, NEW m \in Modules, Used(m), link' = [link EXCEPT ![m] = Free]
  PROVE  SeenStep
<1>1. link' = [n \in Modules |-> IF n \in {m} THEN Free ELSE link[n]]
  BY DEF IInv, TypeOK
<1> HIDE DEF Used
<1> QED BY <1>1, GoneSeen

\* Modules that an answer connects, of those it is for.
LEMMA HeardSeen ==
  ASSUME IInv, NEW heard \in SUBSET Modules, \A m \in heard : Used(m),
         \A m \in heard : View(link'[m]) = [View(link[m]) EXCEPT !.up = TRUE],
         \A m \in Modules \ heard : link'[m] = link[m]
  PROVE  SeenStep
<1> DEFINE S == {m \in heard : ~link[m].up}
<1>1. S \in SUBSET Seen!Modules BY DEF Seen!Modules, Modules
<1>2. \A m \in S : m \in Seen!Used /\ ~view[m].up BY ViewOf
<1>3. ASSUME NEW m \in Modules
      PROVE  View(link'[m]) = IF m \in S THEN [view[m] EXCEPT !.up = TRUE] ELSE view[m]
  <2>1. link[m].up \in BOOLEAN BY DEF IInv, TypeOK, Entry
  <2>2. view[m] = View(link[m]) BY ViewOf
  <2>3. link[m].up => [View(link[m]) EXCEPT !.up = TRUE] = View(link[m])
    <3>1. DEFINE v == View(link[m])
    <3>2. v = [sys |-> v.sys, at |-> v.at, to |-> v.to, up |-> v.up] /\ v.up = link[m].up
      BY DEF View
    <3> HIDE DEF v
    <3>3. link[m].up => [v EXCEPT !.up = TRUE] = v
      BY <2>1, <3>2
    <3> QED BY <3>3 DEF v
  <2> HIDE DEF View
  <2> QED BY <2>2, <2>3
<1>4. view' = [m \in Seen!Modules |->
                IF m \in S THEN [view[m] EXCEPT !.up = TRUE] ELSE view[m]]
  BY <1>3 DEF view, Seen!Modules, Modules
<1> HIDE DEF S
<1> QED BY <1>1, <1>2, <1>4 DEF SeenStep, Seen!Next, Seen!Connect

\* An entry that is connected, and may be renewed.
LEMMA ConnectedView ==
  ASSUME NEW e \in Entry
  PROVE  /\ View([e EXCEPT !.up = TRUE]) = [View(e) EXCEPT !.up = TRUE]
         /\ View([e EXCEPT !.up = TRUE, !.left = Timeout]) = [View(e) EXCEPT !.up = TRUE]
         /\ \A k : View([e EXCEPT !.left = k]) = View(e)
<1> DEFINE f == [e EXCEPT !.up = TRUE]
           g == [e EXCEPT !.up = TRUE, !.left = Timeout]
           v == [sys |-> e.cs, at |-> e.addr, to |-> IF e.cs = None THEN None ELSE e.to,
                 up |-> TRUE]
<1>1. /\ f.cs = e.cs /\ f.addr = e.addr /\ f.to = e.to /\ f.up = TRUE
      /\ g.cs = e.cs /\ g.addr = e.addr /\ g.to = e.to /\ g.up = TRUE
  BY DEF Entry
<1>2. v = [View(e) EXCEPT !.up = TRUE]
  <2> DEFINE T == [sys : Systems \cup {None}, at : Addrs \cup {None},
                   to : RemoteMods \cup {Blank, Nul, None}, up : BOOLEAN]
             w == View(e)
             c == [w EXCEPT !.up = TRUE]
  <2>1. w \in T /\ v \in T BY DEF View, Entry
  <2>2. v.sys = w.sys /\ v.at = w.at /\ v.to = w.to /\ v.up = TRUE
    BY DEF View
  <2> HIDE DEF w, v
  <2>3. c \in T /\ c.sys = w.sys /\ c.at = w.at /\ c.to = w.to /\ c.up = TRUE
    BY <2>1
  <2> HIDE DEF c
  <2>4. c = v BY <2>1, <2>2, <2>3
  <2> QED BY <2>4 DEF c, w
<1>3. ASSUME NEW k PROVE View([e EXCEPT !.left = k]) = View(e)
  <2> DEFINE d == [e EXCEPT !.left = k]
  <2>1. d.cs = e.cs /\ d.addr = e.addr /\ d.to = e.to /\ d.up = e.up
    BY DEF Entry
  <2> HIDE DEF d
  <2>2. View(d) = View(e) BY <2>1 DEF View
  <2> QED BY <2>2 DEF d
<1> HIDE DEF f, g
<1>4. View(f) = v /\ View(g) = v
  BY <1>1 DEF View
<1> QED BY <1>2, <1>3, <1>4 DEF f, g

\* What g2link makes of an entry that is not connected, or linked there before.
LEMMA AskSeen ==
  ASSUME IInv, NEW m \in Modules, NEW s \in Systems, NEW r \in RemoteMods,
         NEW h \in Lookups(s), ~link[m].up \/ (link[m].cs = s /\ link[m].to = r),
         link' = [link EXCEPT ![m] = G2Link(m, s, r, h)]
  PROVE  SeenStep
<1> DEFINE e == G2Link(m, s, r, h)
<1>0. link \in [Modules -> Entry] BY DEF IInv, TypeOK
<1>1. view' = [view EXCEPT ![m] = View(e)]
  BY <1>0 DEF view
<1>2. m \in Seen!Modules BY DEF Seen!Modules, Modules
<1>3. CASE e = Free \/ e = GaveUp
  <2>1. View(Free) = Seen!Free /\ View(GaveUp) = Seen!Free
    BY DEF View, Free, GaveUp, Unlinked, Seen!Free
  <2> HIDE DEF e
  <2> QED BY <1>1, <1>2, <1>3, <2>1 DEF SeenStep, Seen!Next, Seen!AskInVain
<1>4. CASE e # Free /\ e # GaveUp
  <2>1. /\ ~Taken(m, s, r) /\ h \in Addrs
        /\ e = [cs |-> s, addr |-> h, port |-> Kind[s], to |-> r,
                up |-> Shares(m, s), left |-> Timeout]
    BY <1>4, HostAssumption DEF G2Link, Lookups
  <2>2. View(e) = [sys |-> s, at |-> h, to |-> r, up |-> Shares(m, s)]
    BY <2>1, NameAssumption DEF View
  <2>3. Seen!Others(m, s) = Siblings(m, s)
    BY ViewOf DEF Seen!Others, Siblings, Seen!Modules, Modules
  <2>4. ASSUME s \in Named, NEW n \in Siblings(m, s) PROVE view[n].to # r
    <3>1. n \in Modules /\ Used(n)
      BY NameAssumption DEF Siblings, Used
    <3> QED BY <2>1, <2>4, <3>1, ViewOf DEF Taken
  <2>5. \/ Shares(m, s) = FALSE
        \/ Kind[s] = "REF" /\ \E n \in Siblings(m, s) : Shares(m, s) = view[n].up
    <3> DEFINE n == LeastOf(Siblings(m, s))
    <3>1. Shares(m, s) \in BOOLEAN BY SharesType DEF IInv
    <3>2. ASSUME Shares(m, s)
          PROVE  Kind[s] = "REF" /\ \E k \in Siblings(m, s) : Shares(m, s) = view[k].up
      <4>1. Kind[s] = "REF" /\ Siblings(m, s) # {} /\ link[n].up
        BY <3>2 DEF Shares
      <4>2. Siblings(m, s) \in SUBSET Modules BY DEF Siblings
      <4>3. n \in Siblings(m, s) /\ n \in Modules BY <4>1, <4>2, LeastExists
      <4>4. link[n].up \in BOOLEAN BY <4>3 DEF IInv, TypeOK, Entry
      <4> HIDE DEF n
      <4>5. view[n].up = link[n].up BY <4>3, ViewOf
      <4>6. Shares(m, s) = view[n].up BY <3>1, <3>2, <4>1, <4>4, <4>5
      <4> QED BY <4>1, <4>3, <4>6
    <3> QED BY <3>1, <3>2
  <2>6. ~view[m].up \/ (view[m].sys = s /\ view[m].to = r)
    BY ViewOf, NameAssumption DEF Used
  <2> HIDE DEF e
  <2>7. Seen!Ask(m, s, h, r)
    BY <1>1, <1>2, <2>2, <2>3, <2>4, <2>5, <2>6 DEF Seen!Ask
  <2> QED BY <1>2, <2>1, <2>7 DEF SeenStep, Seen!Next
<1> QED BY <1>3, <1>4

LEMMA UserSeen == IInv /\ User => SeenStep
<1> SUFFICES ASSUME IInv, User PROVE SeenStep
  OBVIOUS
<1>1. ASSUME NEW m \in Modules, UserUnlink(m) PROVE SeenStep
  BY <1>1, UnlinkSeen DEF UserUnlink
<1>2. ASSUME NEW m \in Modules, NEW s \in Systems, NEW r \in RemoteMods,
             NEW h \in Lookups(s), UserLink(m, s, r, h)
      PROVE  SeenStep
  BY <1>2, AskSeen DEF UserLink
<1> QED BY <1>1, <1>2 DEF User

LEMMA XrfSeen ==
  ASSUME IInv, NEW a \in Addrs,
         \/ XrfKeepalive(a) \/ XrfVoice(a)
         \/ \E m \in Modules : XrfAck(a, m) \/ XrfNak(a, m)
         \/ \E r \in RemoteMods : XrfUnlinkRequest(a, r)
  PROVE  SeenStep
<1>0. link \in [Modules -> Entry] BY DEF IInv, TypeOK
<1>1. CASE XrfKeepalive(a)
  <2> DEFINE heard == From(a, "XRF")
  <2>1. heard \in SUBSET Modules /\ \A m \in heard : Used(m) BY FromUsed
  <2>2. \A m \in heard : View(link'[m]) = [View(link[m]) EXCEPT !.up = TRUE]
    BY <1>0, <1>1, <2>1, ConnectedView DEF XrfKeepalive
  <2>3. \A m \in Modules \ heard : link'[m] = link[m] BY <1>1 DEF XrfKeepalive
  <2> HIDE DEF heard
  <2> QED BY <2>1, <2>2, <2>3, HeardSeen
<1>2. ASSUME NEW m \in Modules, XrfAck(a, m) PROVE SeenStep
  <2>1. Used(m) BY <1>2, FromUsed DEF XrfAck
  <2>2. /\ link'[m] = [link[m] EXCEPT !.up = TRUE]
        /\ \A n \in Modules \ {m} : link'[n] = link[n]
    BY <1>0, <1>2 DEF XrfAck, Entry
  <2>3. {m} \in SUBSET Modules /\ View(link'[m]) = [View(link[m]) EXCEPT !.up = TRUE]
    BY <1>0, <2>2, ConnectedView
  <2> QED BY <2>1, <2>2, <2>3, HeardSeen
<1>3. ASSUME NEW m \in Modules, XrfNak(a, m) PROVE SeenStep
  <2>1. Used(m) BY <1>3, FromUsed DEF XrfNak
  <2> QED BY <1>3, <2>1, UnlinkSeen DEF XrfNak
<1>4. ASSUME NEW r \in RemoteMods, XrfUnlinkRequest(a, r) PROVE SeenStep
  <2> DEFINE gone == {m \in From(a, "XRF") : link[m].to = r}
  <2>1. gone \in SUBSET Modules /\ \A m \in gone : Used(m) BY FromUsed
  <2>2. link' = [m \in Modules |-> IF m \in gone THEN Free ELSE link[m]]
    BY <1>4 DEF XrfUnlinkRequest
  <2> HIDE DEF gone
  <2> QED BY <2>1, <2>2, GoneSeen
<1>5. CASE XrfVoice(a)
  <2>1. \A m \in Modules : View(link'[m]) = View(link[m])
    BY <1>0, <1>5, ConnectedView DEF XrfVoice
  <2> QED BY <2>1, SameSeen
<1> QED BY <1>1, <1>2, <1>3, <1>4, <1>5

\* A repeater asks for a module that is free, or one that is linked to its
\* address and module by the XRF protocol.
LEMMA XrfLinkRequestSeen ==
  ASSUME IInv, NEW s \in Repeaters, NEW a \in Addrs, NEW p \in InPorts,
         NEW r \in RemoteMods, NEW m \in Modules, XrfLinkRequest(s, a, p, r, m)
  PROVE  SeenStep
<1> DEFINE e == [cs |-> s, addr |-> a, port |-> p, to |-> r, up |-> TRUE, left |-> Timeout]
<1>0. link \in [Modules -> Entry] BY DEF IInv, TypeOK
<1>1. s \in Systems /\ s # None BY HostAssumption, NameAssumption
<1>2. link' = [link EXCEPT ![m] = e] BY DEF XrfLinkRequest
<1>3. View(e) = [sys |-> s, at |-> a, to |-> r, up |-> TRUE] BY <1>1 DEF View
<1>4. view' = [view EXCEPT ![m] = View(e)] BY <1>0, <1>2 DEF view
<1>5. view[m] = Seen!Free \/ Seen!Known(m, a, r)
  <2>1. CASE m \in From(a, "XRF") /\ link[m].to = r
    <3>1. Used(m) /\ link[m].addr = a /\ link[m].port = "XRF" BY <2>1, FromUsed DEF From
    <3>2. Kind[link[m].cs] = "XRF"
      BY <3>1 DEF IInv, Shape, PortsOfKinds, Used
    <3> QED BY <2>1, <3>1, <3>2, ViewOf DEF Seen!Known
  <2>2. CASE link[m].to = Blank
    BY <2>2, ViewOf, NameAssumption DEF Used, IInv, Shape, EntriesWhole
  <2> QED BY <2>1, <2>2 DEF XrfLinkRequest
<1> HIDE DEF e
<1>6. Seen!TheyLink(m, s, a, r) BY <1>3, <1>4, <1>5 DEF Seen!TheyLink
<1>7. m \in Seen!Modules BY DEF Seen!Modules, Modules
<1> QED BY <1>1, <1>6, <1>7 DEF SeenStep, Seen!Next

LEMMA DcsSeen ==
  ASSUME IInv, NEW a \in Addrs, NEW m \in Modules, DcsAlive(a, m) \/ DcsNak(a, m)
  PROVE  SeenStep
<1>0. link \in [Modules -> Entry] BY DEF IInv, TypeOK
<1>1. Used(m) BY FromUsed DEF DcsAlive, DcsNak
<1>2. CASE DcsAlive(a, m)
  <2>1. /\ link'[m] = [link[m] EXCEPT !.up = TRUE, !.left = Timeout]
        /\ \A n \in Modules \ {m} : link'[n] = link[n]
    BY <1>0, <1>2 DEF DcsAlive, Entry
  <2>2. {m} \in SUBSET Modules /\ View(link'[m]) = [View(link[m]) EXCEPT !.up = TRUE]
    BY <1>0, <2>1, ConnectedView
  <2> QED BY <1>1, <2>1, <2>2, HeardSeen
<1>3. CASE DcsNak(a, m)
  BY <1>1, <1>3, UnlinkSeen DEF DcsNak
<1> QED BY <1>2, <1>3

LEMMA RefSeen ==
  ASSUME IInv, NEW a \in Addrs,
         RefDisconnect(a) \/ RefLoginOk(a) \/ RefLoginFail(a) \/ RefKeepalive(a)
  PROVE  SeenStep
<1>0. link \in [Modules -> Entry] BY DEF IInv, TypeOK
<1> DEFINE there == From(a, "REF")
<1>1. there \in SUBSET Modules /\ \A m \in there : Used(m) BY FromUsed
<1>2. CASE RefDisconnect(a) \/ RefLoginFail(a)
  BY <1>1, <1>2, GoneSeen DEF RefDisconnect, RefLoginFail
<1>3. CASE RefLoginOk(a)
  <2> DEFINE heard == {m \in there : ~link[m].up}
  <2>1. heard \in SUBSET Modules /\ \A m \in heard : Used(m) BY <1>1
  <2>2. \A m \in heard : View(link'[m]) = [View(link[m]) EXCEPT !.up = TRUE]
    BY <1>0, <1>3, <2>1, ConnectedView DEF RefLoginOk
  <2>3. \A m \in Modules \ heard : link'[m] = link[m] BY <1>3 DEF RefLoginOk
  <2> HIDE DEF heard
  <2> QED BY <2>1, <2>2, <2>3, HeardSeen
<1>4. CASE RefKeepalive(a)
  <2>1. \A m \in Modules : View(link'[m]) = View(link[m])
    BY <1>0, <1>4, ConnectedView DEF RefKeepalive
  <2> QED BY <2>1, SameSeen
<1> QED BY <1>2, <1>3, <1>4

LEMMA HeartbeatSeen == IInv /\ Heartbeat => SeenStep
<1> SUFFICES ASSUME IInv, Heartbeat PROVE SeenStep
  OBVIOUS
<1>0. link \in [Modules -> Entry] BY DEF IInv, TypeOK
<1>1. CASE link' = link BY <1>1, SameSeen
<1>2. ASSUME NEW m \in Modules, CountDown(m) PROVE SeenStep
  <2>1. link' = [link EXCEPT ![m] = [link[m] EXCEPT !.left = link[m].left - 1]]
    BY <1>0, <1>2 DEF CountDown, Entry
  <2>2. \A n \in Modules : View(link'[n]) = View(link[n])
    BY <1>0, <2>1, ConnectedView
  <2> QED BY <2>2, SameSeen
<1>3. ASSUME NEW m \in Modules, Inactive(m) PROVE SeenStep
  <2> DEFINE gone == {m} \cup IF link[m].port = "REF"
                              THEN {k \in Modules : link[k].addr = link[m].addr} ELSE {}
  <2>1. Used(m) /\ link[m].addr # None
    BY <1>3, InUse, NameAssumption DEF Inactive
  <2>2. \A k \in Modules : link[k].addr = link[m].addr => Used(k)
    BY <2>1 DEF IInv, Shape, EntriesWhole, Used
  <2>3. gone \in SUBSET Modules /\ \A k \in gone : Used(k) BY <2>1, <2>2
  <2>4. link' = [k \in Modules |-> IF k \in gone THEN Free ELSE link[k]]
    BY <1>3 DEF Inactive
  <2> HIDE DEF gone
  <2> QED BY <2>3, <2>4, GoneSeen
<1>4. ASSUME NEW m \in Modules, NEW h \in Lookups(link[m].cs), Expire(m, h)
      PROVE  SeenStep
  <2>1. link[m].cs \in Systems /\ link[m].to \in RemoteMods /\ Used(m)
    BY <1>4, InUse DEF Expire
  <2>2. \/ link' = [link EXCEPT ![m] = Free]
        \/ link' = [link EXCEPT ![m] = G2Link(m, link[m].cs, link[m].to, h)]
    BY <1>4 DEF Expire, Relinked
  <2> QED BY <2>1, <2>2, UnlinkSeen, AskSeen
<1> QED BY <1>1, <1>2, <1>3, <1>4 DEF Heartbeat, BeatBegins, Skip

LEMMA StepSeen ==
  ASSUME IInv, [Next]_vars
  PROVE  SeenStep
<1>1. CASE User BY <1>1, UserSeen
<1>2. CASE Packet BY <1>2, XrfSeen, XrfLinkRequestSeen, DcsSeen, RefSeen DEF Packet
<1>3. CASE Heartbeat BY <1>3, HeartbeatSeen
<1>4. CASE (\E a \in Addrs : FallsSilent(a)) \/ UNCHANGED vars
  BY <1>4, SameSeen DEF FallsSilent, vars
<1> QED BY <1>1, <1>2, <1>3, <1>4 DEF Next

-----------------------------------------------------------------------------
(* The theorems.                                                           *)

\* The inductive invariant holds in every state.
THEOREM IInvHolds == Spec => []IInv
BY InitIInv, StepIInv, PTL DEF Spec

\* The table, its rows, the logins and the walk keep their types: no entry is
\* half unlinked, no countdown passes 0, no walk passes the last module.
THEOREM TypeCorrect == Spec => []TypeOK
<1>1. IInv => TypeOK BY DEF IInv
<1> QED BY <1>1, IInvHolds, PTL

\* No two modules are ever linked to one module of a system named REF or DCS.
THEOREM ExclusiveCorrect == Spec => []ExclusiveModule
<1>1. IInv => ExclusiveModule BY DEF IInv
<1> QED BY <1>1, IInvHolds, PTL

\* A login is given up only where no module is left that is linked, or waits to
\* be linked, by the REF protocol to its address.
THEOREM LoginKeptCorrect == Spec => LoginKept
<1>1. ASSUME IInv, [Next]_vars
      PROVE  [\A a \in session \ session' : a \in silent' \/
                \A m \in Modules : ~(link'[m].addr = a /\ link'[m].port = "REF")]_vars
  BY <1>1, StepLogin
<1> QED BY <1>1, IInvHolds, PTL DEF Spec, LoginKept

\* A row of LINKSTATUS for a DCS reflector is that of a connected module.
THEOREM RowsCorrect == Spec => []DcsRowBacked
<1>1. Init => DcsRowBacked BY DEF Init, DcsRowBacked
<1>2. IInv /\ DcsRowBacked /\ [Next]_vars => DcsRowBacked' BY StepRows
<1> QED BY <1>1, <1>2, IInvHolds, PTL DEF Spec

\* A module with auto_link whose link expired asks the same system again, unless
\* the look-up of its name fails just then: nobody takes its place.
THEOREM TryingCorrect == Spec => KeepsTryingIfFound
BY StepTrying, IInvHolds, PTL DEF Spec, KeepsTryingIfFound

\* The link table implements Links, so what LinkStreams says of the streams
\* holds with the links this table has: whatever address a look-up comes to, and
\* in whose name a repeater's request takes an entry over.
THEOREM LinksCorrect == Spec => IsLinks
<1>1. Init => Seen!Init
  BY DEF Init, Seen!Init, Seen!Free, Seen!Modules, Modules, view, View, Free, Unlinked
<1>2. IInv /\ [Next]_vars => [Seen!Next]_view BY StepSeen DEF SeenStep
<1> QED BY <1>1, <1>2, IInvHolds, PTL DEF Spec, IsLinks, Seen!Spec

\* A link to a silent system is counted down and not renewed, but by the
\* connected REF sibling of an auto_link module: what LossIsNoticed needs
\* besides fairness.
THEOREM SilentCorrect == Spec => SilentLinksRunOut
<1>1. ASSUME IInv, [Next]_vars
      PROVE  [\A m \in Modules : link[m].up /\ link[m].addr \in silent =>
                Ends(m) \/ Stays(m) \/ Counts(m) \/ Revives(m)]_vars
  BY <1>1, StepFate DEF Fate
<1> QED BY <1>1, IInvHolds, PTL DEF Spec, SilentLinksRunOut
=============================================================================
