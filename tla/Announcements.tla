---------------------------- MODULE Announcements ----------------------------
(***************************************************************************)
(* What QnetLink says on the local radios.  The handlers leave a notice    *)
(* (notify_msg, one for each module) when they change a link; the main     *)
(* loop plays it once the user of that module no longer talks (tracing).   *)
(* A user who is owed no notice is acknowledged instead.  QnetGateway      *)
(* leaves its own announcements in a file, which the loop plays when it    *)
(* sees it and then removes, whatever is in it by then.                    *)
(*                                                                         *)
(* A turn of the loop is: the heartbeat, the file, the packets of the      *)
(* reflectors, one packet of the gateway, the notices.  Announcements are  *)
(* started with std::async, whose future is thrown away at once: they are  *)
(* over before the loop goes on.                                           *)
(*                                                                         *)
(* How links come and go is LinkTable's subject: here they do at any time. *)
(***************************************************************************)
EXTENDS Naturals

CONSTANTS
  N,      \* the local modules are 1 .. N
  Active, \* bound: those whose links change and whose users QnetLink hears
  Timer,  \* rf_inactivity_timer, in seconds
  Quad,   \* the networks of QuadNet, each with a thread of QnetGateway
  Gate,   \* QnetGateway's main thread
  None    \* no notice, no file

Modules == 1 .. N

ASSUME CountsAssumption == N \in Nat \ {0} /\ Timer \in Nat \ {0}
ASSUME ActiveAssumption == Active \subseteq Modules

ASSUME ThreadsAssumption == Gate \notin Quad

Words   == {"linked", "unlinked"}
Writers == Quad \cup {Gate}

\* What is announced and where; or the file is created, and still empty.
Texts   == {"welcome", "miss"} \X Modules
Empty   == <<"empty", 0>>
Files   == Texts \cup {Empty}
Looked  == <<"looked", 0>>

ASSUME NoneAssumption == None \notin Words \cup Files \cup {Looked}

VARIABLES
  up,      \* is_connected
  idle,    \* seconds since tracing.last_time, up to Timer
  talk,    \* tracing.streamid is not 0
  note,    \* notify_msg: what it says of the link
  loadG,   \* the list of gateways is to be read again
  at,      \* where the loop is
  told,    \* what the module's radio heard last of its link
  unsaid,  \* the link changed last without a notice
  file,    \* the file of QnetGateway
  reading, \* what the loop read from it
  due,     \* not_announced: the modules a thread has still to greet
  hand,    \* what a thread has yet to write; Looked when it found no file
  held,    \* the threads whose open file is the one at the path
  on,      \* QnetGateway: the modules with a stream (band_txt)
  miss,    \* playNotInCache
  caller   \* the module whose call set it

linkVars == <<up, idle, unsaid>>
saidVars == <<talk, note, loadG, told>>
fileVars == <<file, reading, due, hand, held>>
gateVars == <<on, miss, caller>>
vars == <<linkVars, saidVars, at, fileVars, gateVars>>

RadioTypes ==
  /\ up \in [Modules -> BOOLEAN] /\ unsaid \in [Modules -> BOOLEAN]
  /\ idle \in [Modules -> 0 .. Timer]
  /\ talk \in [Modules -> BOOLEAN] /\ loadG \in [Modules -> BOOLEAN]
  /\ note \in [Modules -> Words \cup {None}] /\ told \in [Modules -> Words \cup {None}]
  /\ at \in {"top", "playing", "packets", "notices"}

FileTypes ==
  /\ file \in Files \cup {None} /\ reading \in Files \cup {None}
  /\ due \in [Quad -> SUBSET Modules] /\ held \subseteq Writers
  /\ hand \in [Writers -> Texts \cup {Looked, None}]
  /\ on \subseteq Modules /\ miss \in BOOLEAN /\ caller \in Modules

TypeOK == RadioTypes /\ FileTypes

Init ==
  /\ up = [m \in Modules |-> FALSE] /\ unsaid = [m \in Modules |-> FALSE]
  /\ idle = [m \in Modules |-> Timer]
  /\ talk = [m \in Modules |-> FALSE] /\ loadG = [m \in Modules |-> FALSE]
  /\ note = [m \in Modules |-> None] /\ told = [m \in Modules |-> None]
  /\ at = "top" /\ file = None /\ reading = None
  /\ due = [n \in Quad |-> Modules] /\ hand = [w \in Writers |-> None] /\ held = {}
  /\ on = {} /\ miss = FALSE /\ caller = 1

Word(m) == IF up[m] THEN "linked" ELSE "unlinked"

-----------------------------------------------------------------------------
(* Changes of links.                                                       *)

Made(m)  == up' = [up EXCEPT ![m] = TRUE]
Ended(m) == up' = [up EXCEPT ![m] = FALSE]

\* tracing.last_time is set to now.
Seen(m) == idle' = [idle EXCEPT ![m] = 0]

Says(m, w) == note' = [note EXCEPT ![m] = w] /\ unsaid' = [unsaid EXCEPT ![m] = FALSE]

\* An answer to our request, or the request of a repeater.
LinkMade(m) ==
  /\ at \in {"top", "packets"} /\ ~up[m]
  /\ Made(m) /\ Seen(m) /\ Says(m, "linked")
  /\ UNCHANGED <<talk, loadG, told, at, fileVars, gateVars>>

\* A repeater asks to be linked to the module that asked it: no notice.
RequestsCross(m) ==
  /\ at = "packets" /\ ~up[m]
  /\ Made(m) /\ Seen(m) /\ unsaid' = [unsaid EXCEPT ![m] = TRUE]
  /\ UNCHANGED <<saidVars, at, fileVars, gateVars>>

\* Mutant: a module that is thrown out is not told.
LinkEndedUntold(m) ==
  /\ at \in {"top", "packets"}
  /\ Ended(m)
  /\ UNCHANGED <<idle, note, unsaid, talk, loadG, told, at, fileVars, gateVars>>

\* A refusal, an unlink by the other side, or (at the top) the timeout.
LinkEnded(m) ==
  /\ at \in {"top", "packets"}
  /\ Ended(m) /\ Says(m, "unlinked")
  /\ UNCHANGED <<idle, talk, loadG, told, at, fileVars, gateVars>>

\* A REF reflector disconnects, or is left by send_heartbeat for the sake of
\* another module: no notice.
Dropped(m) ==
  /\ at \in {"top", "packets"} /\ up[m]
  /\ Ended(m) /\ unsaid' = [unsaid EXCEPT ![m] = TRUE]
  /\ UNCHANGED <<idle, saidVars, at, fileVars, gateVars>>

\* send_heartbeat: "check for RF inactivity".
Inactive(m) ==
  /\ at = "top" /\ up[m] /\ idle[m] = Timer
  /\ Ended(m) /\ Says(m, "unlinked")
  /\ UNCHANGED <<idle, talk, loadG, told, at, fileVars, gateVars>>

Later(t) == IF t < Timer THEN t + 1 ELSE t

\* Time is looked at once a turn.
Second ==
  /\ at = "top"
  /\ idle' = [m \in Modules |-> Later(idle[m])]
  /\ UNCHANGED <<up, unsaid, saidVars, at, fileVars, gateVars>>

-----------------------------------------------------------------------------
(* The file.                                                               *)

\* The file is opened and read, if it is there: only the loop removes it, so
\* that the two are one step.  PlayAudioNotifyThread plays what was read;
\* meanwhile QnetGateway may write the file again.
LookForFile ==
  /\ at = "top"
  /\ reading' = file
  /\ at' = IF file = None THEN "packets" ELSE "playing"
  /\ UNCHANGED <<linkVars, saidVars, file, due, hand, held, gateVars>>

\* What is at the path goes, and what is written to it from then on is lost.
FilePlayed ==
  /\ at = "playing"
  /\ file' = None /\ held' = {} /\ reading' = None /\ at' = "packets"
  /\ UNCHANGED <<linkVars, saidVars, due, hand, gateVars>>

\* fopen(.., "w") creates the file or empties it; the text is in it with fclose.
Opens(w, text) ==
  /\ file' = Empty /\ held' = held \cup {w}
  /\ hand' = [hand EXCEPT ![w] = text]

Closes(w) ==
  /\ file' = IF w \in held THEN hand[w] ELSE file
  /\ held' = held \ {w}
  /\ hand' = [hand EXCEPT ![w] = None]

\* GetIRCDataThread, when QuadNet is connected: "we need to announce, but can
\* we?"
LookBeforeWelcome(n) ==
  /\ due[n] # {} /\ hand[n] = None /\ file = None
  /\ hand' = [hand EXCEPT ![n] = Looked]
  /\ UNCHANGED <<linkVars, saidVars, at, file, reading, due, held, gateVars>>

OpenWelcome(n, m) ==
  /\ hand[n] = Looked /\ m \in due[n] /\ \A k \in due[n] : m <= k
  /\ Opens(n, <<"welcome", m>>)
  /\ UNCHANGED <<linkVars, saidVars, at, reading, due, gateVars>>

CloseWelcome(n, m) ==
  /\ hand[n] = <<"welcome", m>>
  /\ Closes(n) /\ due' = [due EXCEPT ![n] = @ \ {m}]
  /\ UNCHANGED <<linkVars, saidVars, at, reading, gateVars>>

-----------------------------------------------------------------------------
(* QnetGateway.                                                            *)

\* A user calls someone, who is in the cache or not.
GateHeader(m, found) ==
  /\ hand[Gate] = None
  /\ on' = on \cup {m}
  /\ miss' = (miss \/ ~found) /\ caller' = IF found THEN caller ELSE m
  /\ UNCHANGED <<linkVars, saidVars, at, fileVars>>

\* The stream ends: the file is written for its module if somebody was missed.
GateEnd(m) ==
  /\ m \in on /\ hand[Gate] = None
  /\ IF miss THEN Opens(Gate, <<"miss", m>>) /\ UNCHANGED on
             ELSE on' = on \ {m} /\ UNCHANGED <<file, held, hand>>
  /\ UNCHANGED <<linkVars, saidVars, at, reading, due, miss, caller>>

CloseMiss(m) ==
  /\ hand[Gate] = <<"miss", m>>
  /\ Closes(Gate) /\ miss' = FALSE /\ on' = on \ {m}
  /\ UNCHANGED <<linkVars, saidVars, at, reading, due, caller>>

\* The end is lost.
GateTimeout(m) ==
  /\ m \in on /\ hand[Gate] = None
  /\ on' = on \ {m}
  /\ UNCHANGED <<linkVars, saidVars, at, fileVars, miss, caller>>

-----------------------------------------------------------------------------
(* Packets of the gateway: one a turn, or none.                            *)

\* Header, and what its command does to link and notice.
Command(m, c) ==
  /\ at = "packets" /\ at' = "notices"
  /\ talk' = [talk EXCEPT ![m] = TRUE]
  /\ \/ c = "link" /\ ~up[m] /\ Made(m) /\ Says(m, "linked")
     \/ c = "unlink" /\ Ended(m) /\ Says(m, "unlinked")
     \/ /\ \/ c = "info" /\ Says(m, Word(m))
           \/ c = "link" /\ up[m] /\ Says(m, "linked")
           \/ c = "link" /\ ~up[m] /\ Says(m, "unlinked")
           \/ c \in {"CQ", "load", "link"} /\ (c = "link" => ~up[m]) /\ UNCHANGED <<note, unsaid>>
        /\ UNCHANGED up
  /\ Seen(m)
  /\ loadG' = [loadG EXCEPT ![m] = @ \/ c = "load"]
  /\ UNCHANGED <<told, fileVars, gateVars>>

Frame(m) ==
  /\ at = "packets" /\ talk[m] /\ at' = "notices"
  /\ Seen(m)
  /\ UNCHANGED <<up, unsaid, saidVars, fileVars, gateVars>>

\* Mutant: the handler goes on with the next turn of the loop.
EndGoesOn(m) ==
  /\ at = "packets" /\ talk[m] /\ at' = "top"
  /\ Seen(m) /\ talk' = [talk EXCEPT ![m] = FALSE]
  /\ told' = IF note[m] = None THEN [told EXCEPT ![m] = Word(m)] ELSE told
  /\ UNCHANGED <<up, unsaid, note, loadG, fileVars, gateVars>>

\* The last frame of the stream that is traced.  The acknowledgement is also
\* sent to a user who gave a command: `your` is C again with every packet.
End(m) ==
  /\ at = "packets" /\ talk[m] /\ at' = "notices"
  /\ Seen(m) /\ talk' = [talk EXCEPT ![m] = FALSE]
  /\ told' = IF note[m] = None THEN [told EXCEPT ![m] = Word(m)] ELSE told
  /\ UNCHANGED <<up, unsaid, note, loadG, fileVars, gateVars>>

NoPacket == at = "packets" /\ at' = "notices" /\ UNCHANGED <<linkVars, saidVars, fileVars, gateVars>>

-----------------------------------------------------------------------------
\* Mutant: the notice is played while its user talks.
NoticesAtOnce ==
  /\ at = "notices" /\ at' = "top"
  /\ note' = [m \in Modules |-> None] /\ loadG' = [m \in Modules |-> FALSE]
  /\ told' = [m \in Modules |-> IF loadG[m] THEN Word(m)
                                ELSE IF note[m] # None THEN note[m] ELSE told[m]]
  /\ UNCHANGED <<linkVars, talk, fileVars, gateVars>>

\* Where the user is silent, the notice is played, the list read again.
Notices ==
  /\ at = "notices" /\ at' = "top"
  /\ note' = [m \in Modules |-> IF talk[m] THEN note[m] ELSE None]
  /\ loadG' = [m \in Modules |-> talk[m] /\ loadG[m]]
  /\ told' = [m \in Modules |-> IF talk[m] THEN told[m]
                                ELSE IF loadG[m] THEN Word(m)
                                ELSE IF note[m] # None THEN note[m] ELSE told[m]]
  /\ UNCHANGED <<linkVars, talk, fileVars, gateVars>>

Advance == LookForFile \/ FilePlayed \/ NoPacket \/ Notices

Commands == {"CQ", "link", "unlink", "info", "load"}

Gateway ==
  \/ \E m \in Modules : \/ GateEnd(m) \/ CloseMiss(m) \/ GateTimeout(m)
                        \/ \E found \in BOOLEAN : GateHeader(m, found)
  \/ \E n \in Quad : \/ LookBeforeWelcome(n)
                     \/ \E m \in Modules : OpenWelcome(n, m) \/ CloseWelcome(n, m)

Next ==
  \/ Advance \/ Second \/ Gateway
  \/ \E m \in Active :
       \/ LinkMade(m) \/ RequestsCross(m) \/ LinkEnded(m) \/ Dropped(m) \/ Inactive(m)
       \/ Frame(m) \/ End(m) \/ \E c \in Commands : Command(m, c)

\* The loop turns.  Nobody has to talk, or to stop talking, or be heard.
Spec == Init /\ [][Next]_vars /\ WF_vars(Advance)

-----------------------------------------------------------------------------
(* Properties.                                                             *)

\* What the radio of a module heard last of its link is so, unless a notice
\* waits or the last change was one of those that leave none: a notice that
\* replaces another, an acknowledgement, or one that a long transmission
\* held back, never leaves the user with an old state.
RadioKnows ==
  \A m \in Modules : told[m] # None /\ note[m] = None /\ ~unsaid[m]
    => told[m] = Word(m)

\* What QnetGateway leaves to be said is announced ("yes, there is no
\* FILE_QNVOICE_FILE, so create it"): the loop removes only what it has read.
\* The code does not keep this.
WelcomeIsRead ==
  [][\A n \in Quad, m \in Modules :
       /\ FilePlayed /\ file = <<"welcome", m>> => reading = file
       /\ CloseWelcome(n, m) => n \in held]_vars

\* A notice waits for ever only for a user whose last frame was lost and who
\* does not talk again: where he is found silent again and again, however
\* soon he talks anew, each notice is played.
NoticeIsPlayed ==
  \A m \in Modules : []<>~talk[m] => (note[m] # None ~> note[m] = None)

\* The same without the lost frames: the code does not keep this.
NoNoticeWaits == \A m \in Modules : note[m] # None ~> note[m] = None

\* The safety half of NoticeIsPlayed: a notice goes only by being played, to a
\* user who stopped talking and hears what is so of the link (unless the link
\* changed without a notice since); and when the loop goes on none is left but
\* to those who talk.
NoticesAreHeard ==
  [][\A m \in Modules :
       /\ note[m] # None /\ note'[m] = None =>
            ~talk[m] /\ (unsaid[m] \/ told'[m] = Word(m))
       /\ at = "notices" /\ at' # at /\ note'[m] # None => talk[m]]_vars

\* A user who calls somebody unknown is told once his transmission is over
\* ("we need to wait until user's transmission is over", QnetGateway.cpp:1571).
MissToldToCaller ==
  [][miss /\ ~miss' => hand[Gate] = <<"miss", caller>>]_vars
=============================================================================
