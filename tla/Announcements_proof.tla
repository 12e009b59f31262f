------------------------- MODULE Announcements_proof -------------------------
(***************************************************************************)
(* Proofs about Announcements, for any number of modules, any of them      *)
(* active, and any inactivity timer: what the radios heard of their links  *)
(* is so, and each notice is heard.                                        *)
(***************************************************************************)
EXTENDS Announcements, TLAPS

\* A notice that waits tells of the link as it is, unless the link changed
\* since without one.
NoticesAreSo ==
  \A m \in Modules : note[m] # None /\ ~unsaid[m] => note[m] = Word(m)

IInv == TypeOK /\ NoticesAreSo /\ RadioKnows

LEMMA InitIInv == Init => IInv
<1> SUFFICES ASSUME Init PROVE IInv
  OBVIOUS
<1>1. TypeOK
  <2>1. 1 \in Modules /\ Timer \in 0 .. Timer
    BY CountsAssumption DEF Modules
  <2>2. QED
    BY <2>1 DEF Init, TypeOK, RadioTypes, FileTypes, Writers
<1>2. QED
  BY <1>1 DEF Init, IInv, NoticesAreSo, RadioKnows

-----------------------------------------------------------------------------
\* fopen and fclose leave a file, a text to be written and the open files.
LEMMA OpensTypes ==
  ASSUME FileTypes, NEW w \in Writers, NEW text \in Texts, Opens(w, text)
  PROVE  /\ file' \in Files \cup {None} /\ held' \subseteq Writers
         /\ hand' \in [Writers -> Texts \cup {Looked, None}]
BY DEF FileTypes, Opens, Files

LEMMA ClosesTypes ==
  ASSUME FileTypes, NEW w \in Writers, hand[w] \in Texts, Closes(w)
  PROVE  /\ file' \in Files \cup {None} /\ held' \subseteq Writers
         /\ hand' \in [Writers -> Texts \cup {Looked, None}]
BY DEF FileTypes, Closes, Files

LEMMA FilesStay == FileTypes /\ UNCHANGED <<fileVars, gateVars>> => FileTypes'
BY DEF FileTypes, fileVars, gateVars

\* Types: one step for each action.
LEMMA StepTypeOK == TypeOK /\ [Next]_vars => TypeOK'
<1> SUFFICES ASSUME TypeOK, [Next]_vars PROVE TypeOK'
  OBVIOUS
<1> USE DEF TypeOK, RadioTypes, Words, Made, Ended, Seen, Says
<1>0. 0 \in 0 .. Timer
  BY CountsAssumption
<1>1. ASSUME NEW m \in Modules, LinkMade(m) \/ RequestsCross(m) \/ LinkEnded(m) \/ Dropped(m) \/ Inactive(m)
      PROVE  TypeOK'
  BY <1>0, <1>1, FilesStay DEF LinkMade, RequestsCross, LinkEnded, Dropped, Inactive, saidVars
<1>2. CASE Second
  BY <1>2, CountsAssumption, FilesStay DEF Second, Later, saidVars
<1>3. CASE Advance
  <2>1. CASE LookForFile \/ FilePlayed \/ NoPacket
    <3>1. UNCHANGED <<up, idle, unsaid, talk, note, loadG, told, due, hand, on, miss, caller>>
      BY <2>1 DEF LookForFile, FilePlayed, NoPacket, linkVars, saidVars, fileVars, gateVars
    <3>2. /\ file' \in {file, None} /\ reading' \in {reading, file, None}
          /\ at' \in {"top", "playing", "packets", "notices"}
          /\ held' \in {held, {}}
      BY <2>1 DEF LookForFile, FilePlayed, NoPacket, fileVars
    <3>3. /\ file' \in Files \cup {None} /\ reading' \in Files \cup {None}
          /\ held' \subseteq Writers
      BY <3>2 DEF FileTypes
    <3>4. QED
      BY <3>1, <3>2, <3>3 DEF FileTypes
  <2>2. CASE Notices
    <3>1. \A m \in Modules : Word(m) \in Words
      BY DEF Word
    <3>2. QED
      BY <2>2, <3>1, FilesStay DEF Notices, linkVars
  <2>3. QED
    BY <1>3, <2>1, <2>2 DEF Advance
<1>4. CASE Gateway
  <2>1. ASSUME NEW m \in Modules, GateEnd(m) PROVE TypeOK'
    <3>1. Gate \in Writers /\ <<"miss", m>> \in Texts
      BY DEF Writers, Texts
    <3>2. QED
      BY <2>1, <3>1, OpensTypes DEF FileTypes, GateEnd, linkVars, saidVars
  <2>2. ASSUME NEW m \in Modules, CloseMiss(m) PROVE TypeOK'
    <3>1. Gate \in Writers /\ hand[Gate] \in Texts
      BY <2>2 DEF FileTypes, CloseMiss, Writers, Texts
    <3>2. QED
      BY <2>2, <3>1, ClosesTypes DEF FileTypes, CloseMiss, linkVars, saidVars
  <2>3. ASSUME NEW n \in Quad, LookBeforeWelcome(n) PROVE TypeOK'
    BY <2>3 DEF FileTypes, LookBeforeWelcome, Writers, linkVars, saidVars, gateVars
  <2>4. ASSUME NEW n \in Quad, NEW m \in Modules, OpenWelcome(n, m) PROVE TypeOK'
    <3>1. n \in Writers /\ <<"welcome", m>> \in Texts
      BY DEF Writers, Texts
    <3>2. QED
      BY <2>4, <3>1, OpensTypes DEF FileTypes, OpenWelcome, linkVars, saidVars, gateVars
  <2>5. ASSUME NEW n \in Quad, NEW m \in Modules, CloseWelcome(n, m) PROVE TypeOK'
    <3>1. n \in Writers /\ hand[n] \in Texts
      BY <2>5 DEF FileTypes, CloseWelcome, Writers, Texts
    <3>2. QED
      BY <2>5, <3>1, ClosesTypes DEF FileTypes, CloseWelcome, linkVars, saidVars, gateVars
  <2>6. ASSUME NEW m \in Modules, NEW found \in BOOLEAN, GateHeader(m, found) \/ GateTimeout(m)
        PROVE  TypeOK'
    BY <2>6 DEF FileTypes, GateHeader, GateTimeout, linkVars, saidVars, fileVars
  <2>7. QED
    BY <1>4, <2>1, <2>2, <2>3, <2>4, <2>5, <2>6 DEF Gateway
<1>5. ASSUME NEW m \in Modules, Frame(m) \/ End(m) PROVE TypeOK'
  <2>1. Word(m) \in Words
    BY DEF Word
  <2>2. QED
    BY <1>0, <1>5, <2>1, FilesStay DEF Frame, End, saidVars
<1>6. ASSUME NEW m \in Modules, NEW c \in Commands, Command(m, c) PROVE TypeOK'
  <2>1. Word(m) \in Words
    BY DEF Word
  <2>2. /\ up' \in [Modules -> BOOLEAN] /\ unsaid' \in [Modules -> BOOLEAN]
        /\ note' \in [Modules -> Words \cup {None}]
    BY <1>6, <2>1 DEF Command
  <2>3. QED
    BY <1>0, <1>6, <2>2, FilesStay DEF Command
<1>7. CASE UNCHANGED vars
  BY <1>7, FilesStay DEF vars, linkVars, saidVars
<1>8. QED
  BY <1>1, <1>2, <1>3, <1>4, <1>5, <1>6, <1>7, ActiveAssumption DEF Next

-----------------------------------------------------------------------------
\* A handler that changes the link of m leaves a notice of it, or has the
\* change marked; one that leaves a notice only tells how it is.
LEMMA ChangeSettles ==
  ASSUME TypeOK, NoticesAreSo, RadioKnows, NEW m \in Modules, UNCHANGED told,
         \A n \in Modules \ {m} : up'[n] = up[n] /\ unsaid'[n] = unsaid[n] /\ note'[n] = note[n],
         \/ unsaid'[m]
         \/ note'[m] # None /\ note'[m] = Word(m)'
         \/ up'[m] = up[m] /\ unsaid'[m] = unsaid[m] /\ note'[m] = note[m]
  PROVE  (NoticesAreSo /\ RadioKnows)'
BY DEF NoticesAreSo, RadioKnows, Word

\* Where neither links nor notices change, what is known stays known.
LEMMA NothingChanges ==
  ASSUME NoticesAreSo, RadioKnows, UNCHANGED <<up, unsaid, note, told>>
  PROVE  (NoticesAreSo /\ RadioKnows)'
BY DEF NoticesAreSo, RadioKnows, Word

\* The acknowledgement tells of the link as it is.
LEMMA EndSettles ==
  ASSUME TypeOK, NoticesAreSo, RadioKnows, NEW m \in Modules, End(m)
  PROVE  (NoticesAreSo /\ RadioKnows)'
<1>1. UNCHANGED <<up, unsaid, note>>
  BY DEF End
<1>2. \A n \in Modules : told'[n] = told[n] \/ told'[n] = Word(n)
  BY DEF End, TypeOK, RadioTypes
<1>3. QED
  BY <1>1, <1>2 DEF NoticesAreSo, RadioKnows, Word

\* What is played is what was left, or the link as it is.
LEMMA NoticesSettle ==
  ASSUME TypeOK, NoticesAreSo, RadioKnows, Notices
  PROVE  (NoticesAreSo /\ RadioKnows)'
<1>1. UNCHANGED <<up, unsaid>>
  BY DEF Notices, linkVars
<1>2. \A m \in Modules :
        \/ note'[m] = note[m] /\ told'[m] = told[m]
        \/ note'[m] = None /\ told'[m] = Word(m)
        \/ note'[m] = None /\ note[m] # None /\ told'[m] = note[m]
        \/ note'[m] = None /\ note[m] = None /\ told'[m] = told[m]
  BY DEF Notices
<1>3. QED
  BY <1>1, <1>2 DEF NoticesAreSo, RadioKnows, Word

\* A user's command changes the link and says so, or says how it is, or
\* does neither.
LEMMA CommandSettles ==
  ASSUME TypeOK, NoticesAreSo, RadioKnows, NEW m \in Modules, NEW c \in Commands, Command(m, c)
  PROVE  (NoticesAreSo /\ RadioKnows)'
<1>1. /\ UNCHANGED told
      /\ \A n \in Modules \ {m} : up'[n] = up[n] /\ unsaid'[n] = unsaid[n] /\ note'[n] = note[n]
  BY DEF Command, Made, Ended, Says, TypeOK, RadioTypes
<1>2. \/ note'[m] # None /\ note'[m] = Word(m)'
      \/ up'[m] = up[m] /\ unsaid'[m] = unsaid[m] /\ note'[m] = note[m]
  BY NoneAssumption DEF Command, Made, Ended, Says, TypeOK, RadioTypes, Word, Words
<1>3. QED
  BY <1>1, <1>2, ChangeSettles

\* The handlers of the links, one by one.
LEMMA LinkSettles ==
  ASSUME TypeOK, NoticesAreSo, RadioKnows, NEW m \in Modules,
         LinkMade(m) \/ RequestsCross(m) \/ LinkEnded(m) \/ Dropped(m) \/ Inactive(m)
  PROVE  (NoticesAreSo /\ RadioKnows)'
<1> USE DEF Made, Ended, Says, TypeOK, RadioTypes
<1>1. /\ UNCHANGED told
      /\ \A n \in Modules \ {m} : up'[n] = up[n] /\ unsaid'[n] = unsaid[n] /\ note'[n] = note[n]
  BY DEF LinkMade, RequestsCross, LinkEnded, Dropped, Inactive, saidVars
<1>2. unsaid'[m] \/ (note'[m] # None /\ note'[m] = Word(m)')
  BY NoneAssumption DEF LinkMade, RequestsCross, LinkEnded, Dropped, Inactive, Word, Words
<1>3. QED
  BY <1>1, <1>2, ChangeSettles

LEMMA StepSettles ==
  ASSUME TypeOK, NoticesAreSo, RadioKnows, [Next]_vars
  PROVE  (NoticesAreSo /\ RadioKnows)'
<1>1. CASE LookForFile \/ FilePlayed \/ NoPacket \/ Second \/ Gateway
  BY <1>1, NothingChanges
  DEF LookForFile, FilePlayed, NoPacket, Second, Gateway, LookBeforeWelcome, OpenWelcome,
      CloseWelcome, GateHeader, GateEnd, CloseMiss, GateTimeout, linkVars, saidVars
<1>2. CASE Notices
  BY <1>2, NoticesSettle
<1>3. ASSUME NEW m \in Modules,
             LinkMade(m) \/ RequestsCross(m) \/ LinkEnded(m) \/ Dropped(m) \/ Inactive(m)
      PROVE  (NoticesAreSo /\ RadioKnows)'
  BY <1>3, LinkSettles
<1>4. ASSUME NEW m \in Modules, Frame(m) PROVE (NoticesAreSo /\ RadioKnows)'
  BY <1>4, NothingChanges DEF Frame, saidVars
<1>5. ASSUME NEW m \in Modules, End(m) PROVE (NoticesAreSo /\ RadioKnows)'
  BY <1>5, EndSettles
<1>6. ASSUME NEW m \in Modules, NEW c \in Commands, Command(m, c)
      PROVE  (NoticesAreSo /\ RadioKnows)'
  BY <1>6, CommandSettles
<1>7. CASE UNCHANGED vars
  BY <1>7, NothingChanges DEF vars, linkVars, saidVars
<1>8. QED
  BY <1>1, <1>2, <1>3, <1>4, <1>5, <1>6, <1>7, ActiveAssumption DEF Next, Advance

-----------------------------------------------------------------------------
LEMMA StepIInv == IInv /\ [Next]_vars => IInv'
BY StepTypeOK, StepSettles DEF IInv

THEOREM IInvHolds == Spec => []IInv
BY InitIInv, StepIInv, PTL DEF Spec

\* Links, notices, the place of the loop and the file keep their types.
THEOREM TypeCorrect == Spec => []TypeOK
<1>1. IInv => TypeOK
  BY DEF IInv
<1>2. QED
  BY IInvHolds, <1>1, PTL

\* What a radio heard last of its module's link is so.
THEOREM RadioCorrect == Spec => []RadioKnows
<1>1. IInv => RadioKnows
  BY DEF IInv
<1>2. QED
  BY IInvHolds, <1>1, PTL

\* A notice goes in the loop's last place only.
LEMMA StepNotices ==
  ASSUME IInv, [Next]_vars, NEW m \in Modules
  PROVE  /\ note[m] # None /\ note'[m] = None =>
              ~talk[m] /\ (unsaid[m] \/ told'[m] = Word(m))
         /\ at = "notices" /\ at' # at /\ note'[m] # None => talk[m]
<1>0. TypeOK /\ NoticesAreSo /\ None \notin Words
  BY NoneAssumption DEF IInv
<1>1. CASE Notices
  BY <1>0, <1>1 DEF Notices, NoticesAreSo
<1>2. CASE LookForFile \/ FilePlayed \/ NoPacket \/ Second \/ Gateway
  BY <1>2 DEF LookForFile, FilePlayed, NoPacket, Second, Gateway, LookBeforeWelcome, OpenWelcome,
    CloseWelcome, GateHeader, GateEnd, CloseMiss, GateTimeout, saidVars
<1>3. ASSUME NEW n \in Modules,
             LinkMade(n) \/ RequestsCross(n) \/ LinkEnded(n) \/ Dropped(n) \/ Inactive(n)
      PROVE  at # "notices" /\ (note'[m] = note[m] \/ note'[m] \in Words)
  BY <1>0, <1>3 DEF LinkMade, RequestsCross, LinkEnded, Dropped, Inactive, Says, Words, TypeOK, RadioTypes,
    saidVars
<1>4. ASSUME NEW n \in Modules, Frame(n) \/ End(n) PROVE at # "notices" /\ note'[m] = note[m]
  BY <1>4 DEF Frame, End, saidVars
<1>5. ASSUME NEW n \in Modules, NEW c \in Commands, Command(n, c)
      PROVE  at # "notices" /\ (note'[m] = note[m] \/ note'[m] \in Words)
  BY <1>0, <1>5 DEF Command, Says, Word, Words, TypeOK, RadioTypes
<1>6. CASE UNCHANGED vars
  BY <1>6 DEF vars, saidVars
<1> QED BY <1>0, <1>1, <1>2, <1>3, <1>4, <1>5, <1>6, ActiveAssumption DEF Next, Advance

\* No notice is lost: it goes by being played, to a user who listens, and says
\* what is so.
THEOREM NoticesCorrect == Spec => NoticesAreHeard
<1>1. ASSUME IInv, [Next]_vars
      PROVE  [\A m \in Modules :
                /\ note[m] # None /\ note'[m] = None =>
                     ~talk[m] /\ (unsaid[m] \/ told'[m] = Word(m))
                /\ at = "notices" /\ at' # at /\ note'[m] # None => talk[m]]_vars
  BY <1>1, StepNotices
<1> QED BY <1>1, IInvHolds, PTL DEF Spec, NoticesAreHeard
=============================================================================
