------------------------------ MODULE IrcDDBApp ------------------------------
(***************************************************************************)
(* The application on top of an ircDDB connection: the worker thread       *)
(* IRCDDBApp::Entry, which chooses a server user ("s-...") of the channel, *)
(* downloads its tables and announces the repeater, and the client thread, *)
(* whose callbacks userJoin, userLeave and msgQuery change the same        *)
(* variables, with no lock.  QnetGateway's GetIRCDataThread consumes the   *)
(* replies.                                                                *)
(*                                                                         *)
(* The two threads write currentServer, state, timer and initReady one     *)
(* statement at a time, and so do the steps here: `seen` is where the      *)
(* worker is (the state its switch read, or a place inside a case) and     *)
(* `callback` where the client thread is.  The fields are plain and the    *)
(* build does not optimise (Makefile:31): they change in the order of the  *)
(* statements.  The connection changes by the steps of Uplink, which       *)
(* IrcClient implements: the callbacks begin with the session, while sendQ *)
(* is still NULL.                                                          *)
(***************************************************************************)
EXTENDS Integers, Sequences

CONSTANTS
  Servers,     \* the server users, numbered
  Rptrs,       \* the records of table 1, the repeaters
  SelectWait,  \* ticks to find a server user (200 in the code)
  ListWait,    \* ticks for the download of a table (900)
  InfoWait,    \* ticks before the repeater is announced (2)
  MaxPending,  \* bound: SENDLISTs a server has not answered yet
  NotFound,    \* whether the server answers FIND with NOT_FOUND
  Budget,      \* bound: events of the network in one connection
  MaxReplies   \* bound: replies that wait

ASSUME ServerAssumption == Servers \subseteq Nat \ {0}
ASSUME WaitAssumption ==
  /\ SelectWait \in Nat \ {0} /\ ListWait \in Nat \ {0} /\ InfoWait \in Nat \ {0}
ASSUME BoundAssumption == NotFound \in BOOLEAN /\ Budget \in Nat
                          /\ MaxPending \in Nat /\ MaxReplies \in Nat

VARIABLES
  net,        \* the connection (see Uplink); "up": sendQ # NULL
  present,    \* server users on the channel, as the server told the client
  names,      \* the server users in the cache's NameNick
  current,    \* currentServer, None when it is empty
  state,      \* IRCDDBApp::state
  seen,       \* the state whose case the worker executes, or a Place
  callback,   \* Out, or where the client thread is in userLeave or msgQuery
  timer,      \* IRCDDBApp::timer
  table,      \* sendlistTableID
  initReady,  \* initReady
  info,       \* infoTimer
  announced,  \* the repeater was announced to the server chosen last
  pending,    \* SENDLISTs the server has not answered to the end
  told,       \* the repeaters' records sent in answer to a SENDLIST
  cached,     \* the repeaters' records in the cache (RptrGate)
  replyQ,     \* replyQ
  budget      \* what is left of the connection's bound

workerVars == <<seen, table>>
serverVars == <<pending, told>>
vars == <<net, present, names, current, state, workerVars, callback, timer,
          initReady, info, announced, serverVars, cached, replyQ, budget>>

U == INSTANCE Uplink WITH Users <- Servers, users <- present

None == 0

\* Where the worker is between two statements.
Idle == -1       \* between two turns of the loop
Ticked == 20     \* before the switch, with the timer counted down
Joined == 21     \* case 1 with state = 2
Choosing == 22   \* case 2 with sendQ tested
Chosen == 23     \* case 2 with currentServer assigned
Counted == 24    \* case 3 with state = 4
AfterPut == 25   \* case 4 with the SENDLIST queued
Opening == 26    \* case 6 with infoTimer = 2
Opened == 27     \* case 6 with initReady = true
Closing == 28    \* case 10 with state = 0
Stopped == 29    \* case 10 with timer = 0
Places == {Idle} \cup Ticked .. Stopped

\* Where the client thread is: in userLeave with currentServer cleared, with
\* state = 2, with the timer set; in msgQuery, about to set state to s.
Out == 0
Cleared == 1
Chooses == 2
Timed == 3
GoOn(s) == 1 + s

NumberOfTables == 2
ListTable == 1   \* the only table a SENDLIST is sent for

Up == net = "up"
Dec(n) == IF n > 0 THEN n - 1 ELSE 0

States == 0 .. 7 \cup {10}

TypeOK ==
  /\ U!TypeOK
  /\ names \subseteq Servers
  /\ current \in Servers \cup {None}
  /\ state \in States /\ seen \in States \cup Places /\ callback \in Out .. GoOn(4)
  /\ timer \in Nat /\ table \in -1 .. NumberOfTables
  /\ initReady \in BOOLEAN /\ info \in 0 .. InfoWait /\ announced \in BOOLEAN
  /\ pending \in 0 .. MaxPending /\ told \subseteq Rptrs /\ cached \subseteq Rptrs
  /\ replyQ \in Seq({"PING", "USER"})
  /\ budget \in 0 .. Budget

Init ==
  /\ U!Init /\ names = {} /\ current = None
  /\ state = 0 /\ seen = Idle /\ callback = Out /\ timer = 0 /\ table = 0
  /\ initReady = FALSE /\ info = 0 /\ announced = FALSE
  /\ pending = 0 /\ told = {} /\ cached = {} /\ replyQ = <<>>
  /\ budget = Budget

-----------------------------------------------------------------------------
(* The worker thread, IRCDDBApp::Entry.                                    *)

\* A statement of the worker, between two of its places.
At(from, to) ==
  /\ seen = from /\ seen' = to
  /\ UNCHANGED <<net, present, names, callback, told, cached, replyQ, budget>>

\* The last statement of a case.
Body(s) == At(s, Idle) /\ UNCHANGED pending

\* The top of the loop: the timer ...
Tick ==
  /\ At(Idle, Ticked)
  /\ timer' = Dec(timer)
  /\ UNCHANGED <<current, state, table, initReady, info, announced, pending>>

\* ... and the switch reads `state`.
Select ==
  /\ At(Ticked, state)
  /\ UNCHANGED <<current, state, timer, table, initReady, info, announced, pending>>

WaitNetwork ==
  /\ Body(0)
  /\ state' = IF Up THEN 1 ELSE state
  /\ UNCHANGED <<current, timer, table, initReady, info, announced>>

\* Case 1: state = 2 ...
Connect ==
  /\ At(1, Joined)
  /\ state' = 2
  /\ UNCHANGED <<current, timer, table, initReady, info, announced, pending>>

\* ... and the time to find a server.
ConnectTimer ==
  /\ Body(Joined)
  /\ timer' = SelectWait
  /\ UNCHANGED <<current, state, table, initReady, info, announced>>

\* Cases 2 to 6 when the connection is lost: on to state 10.
Lost ==
  /\ ~Up
  /\ \E s \in 2 .. 6 : Body(s)
  /\ state' = 10
  /\ UNCHANGED <<current, timer, table, initReady, info, announced>>

\* Case 2: the connection is there ...
LookForServer ==
  /\ Up
  /\ At(2, Choosing)
  /\ UNCHANGED <<current, state, timer, table, initReady, info, announced, pending>>

\* ... findServerUser() takes the "s-" name its walk of the hash table meets
\* first, any of them ...
ChooseServer ==
  /\ At(Choosing, Chosen)
  /\ current' \in names
  /\ announced' = FALSE
  /\ UNCHANGED <<state, timer, table, initReady, info, pending>>

\* ... and the tables are counted down from the last.
GetTables ==
  /\ Body(Chosen)
  /\ table' = NumberOfTables /\ state' = 3
  /\ UNCHANGED <<current, timer, initReady, info, announced>>

\* Mutant: with no server user in the list the worker keeps the one it had.
NoServerKeepsOld ==
  /\ Body(Choosing) /\ names = {}
  /\ state' = IF current # None THEN 3 ELSE IF timer = 0 THEN 10 ELSE state
  /\ table' = NumberOfTables
  /\ UNCHANGED <<current, timer, initReady, info, announced>>

\* Case 2 with no server user: wait, then QUIT.
NoServer ==
  /\ Body(Choosing) /\ names = {}
  /\ state' = IF timer = 0 THEN 10 ELSE state
  /\ UNCHANGED <<current, timer, table, initReady, info, announced>>

\* Case 3 with no table left, or with state = 4 for the next ...
NextTable ==
  /\ Up
  /\ table' = table - 1
  /\ IF table - 1 < 0 THEN Body(3) /\ state' = 6
                      ELSE At(3, Counted) /\ state' = 4 /\ UNCHANGED pending
  /\ UNCHANGED <<current, timer, initReady, info, announced>>

\* ... and its time: "15 minutes max for update".
TableTimer ==
  /\ Body(Counted)
  /\ timer' = ListWait
  /\ UNCHANGED <<current, state, table, initReady, info, announced>>

\* Case 4 for table 0, which is not downloaded.
SkipTable ==
  /\ Body(4) /\ Up /\ table # ListTable
  /\ state' = 3
  /\ UNCHANGED <<current, timer, table, initReady, info, announced>>

\* Case 4 for table 1: SENDLIST to the current server, which takes it if it is
\* on the channel and not behind by MaxPending requests ...
SendList ==
  /\ At(4, AfterPut) /\ Up /\ table = ListTable
  /\ pending' = IF current \in present /\ pending < MaxPending
                  THEN pending + 1 ELSE pending
  /\ UNCHANGED <<current, state, timer, table, initReady, info, announced>>

\* ... then state = 5.
AwaitList ==
  /\ Body(AfterPut)
  /\ state' = 5
  /\ UNCHANGED <<current, timer, table, initReady, info, announced>>

\* Mutant: the download has no time limit.
ListTimerForgotten ==
  /\ Body(5) /\ Up
  /\ UNCHANGED <<current, state, timer, table, initReady, info, announced>>

\* Case 5: wait, and QUIT when the download takes too long.
ListTimer ==
  /\ Body(5) /\ Up
  /\ state' = IF timer = 0 THEN 10 ELSE state
  /\ UNCHANGED <<current, timer, table, initReady, info, announced>>

\* Mutant: infoTimer is not started.
ReadySilent ==
  /\ At(6, Opening) /\ Up
  /\ UNCHANGED <<current, state, timer, table, initReady, info, announced, pending>>

\* Case 6: infoTimer ...
Ready ==
  /\ At(6, Opening) /\ Up
  /\ info' = InfoWait
  /\ UNCHANGED <<current, state, timer, table, initReady, announced, pending>>

\* Mutant: state = 7 before initReady = true.
OpenLate ==
  \/ /\ At(Opening, Opened) /\ state' = 7
     /\ UNCHANGED <<current, timer, table, initReady, info, announced, pending>>
  \/ /\ Body(Opened) /\ initReady' = TRUE
     /\ UNCHANGED <<current, state, timer, table, info, announced>>

\* ... initReady, and last of all state = 7.
Open ==
  \/ /\ At(Opening, Opened) /\ initReady' = TRUE
     /\ UNCHANGED <<current, state, timer, table, info, announced, pending>>
  \/ /\ Body(Opened) /\ state' = 7
     /\ UNCHANGED <<current, timer, table, initReady, info, announced>>

\* Mutant: the standby state does not look at sendQ.
StandbyDeaf ==
  /\ Body(7)
  /\ info' = Dec(info)
  /\ announced' = (announced \/ (info = 1 /\ Up /\ current # None))
  /\ UNCHANGED <<current, state, timer, table, initReady>>

\* Case 7: the standby state, where infoTimer runs; the announcement goes to
\* currentServer.  (The watchdog messages, which change nothing, are left out.)
Standby ==
  /\ Body(7)
  /\ state' = IF Up THEN state ELSE 10
  /\ info' = Dec(info)
  /\ announced' = (announced \/ (info = 1 /\ Up /\ current # None))
  /\ UNCHANGED <<current, timer, table, initReady>>

\* Case 10: state, timer and initReady, in that order.
Disconnect ==
  \/ /\ At(10, Closing) /\ state' = 0
     /\ UNCHANGED <<current, timer, table, initReady, info, announced, pending>>
  \/ /\ At(Closing, Stopped) /\ timer' = 0
     /\ UNCHANGED <<current, state, table, initReady, info, announced, pending>>
  \/ /\ Body(Stopped) /\ initReady' = FALSE
     /\ UNCHANGED <<current, state, timer, table, info, announced>>

Worker ==
  \/ Tick \/ Select \/ WaitNetwork \/ Connect \/ ConnectTimer \/ Lost
  \/ LookForServer \/ ChooseServer \/ GetTables \/ NoServer
  \/ NextTable \/ TableTimer \/ SkipTable \/ SendList \/ AwaitList \/ ListTimer
  \/ Ready \/ Open \/ Standby \/ Disconnect

-----------------------------------------------------------------------------
(* The client thread: one callback at a time.                              *)

\* A new connection.  The client waits 15 seconds before it makes one; the
\* worker, which looks every second, is back in state 0 by then.
LogIn ==
  /\ U!LogIn
  /\ state = 0 /\ seen \in {Idle, Ticked, 0}
  /\ budget' = Budget /\ told' = {}
  /\ UNCHANGED <<names, current, state, workerVars, callback, timer, initReady,
                 info, announced, pending, cached, replyQ>>

\* setSendQ(q)
NetUp ==
  /\ U!SwitchOn /\ callback = Out
  /\ UNCHANGED <<names, current, state, workerVars, callback, timer, initReady,
                 info, announced, serverVars, cached, replyQ, budget>>

\* setSendQ(NULL) ...
NetDown ==
  /\ U!SwitchOff /\ callback = Out
  /\ pending' = 0
  /\ UNCHANGED <<names, current, state, workerVars, callback, timer, initReady,
                 info, announced, told, cached, replyQ, budget>>

\* ... and userListReset().
ListReset ==
  /\ U!Reset
  /\ names' = {}
  /\ UNCHANGED <<current, state, workerVars, callback, timer, initReady, info,
                 announced, serverVars, cached, replyQ, budget>>

\* What the server sends while the session lasts.
FromServer == /\ U!InSession /\ callback = Out /\ budget > 0
              /\ budget' = budget - 1
              /\ UNCHANGED <<net, workerVars>>

\* The callbacks that are one step and leave the worker's variables alone.
Aside == UNCHANGED <<callback, state>> /\ UNCHANGED <<current, timer, initReady, info, announced>>

\* userJoin of a server user.
UserJoin(s) ==
  /\ FromServer /\ Aside
  /\ U!Join(s)
  /\ names' = names \cup {s}
  /\ UNCHANGED <<serverVars, cached, replyQ>>

\* userLeave of a server user, the current one or not: currentServer is cleared
\* first.  The name stays in the cache.  A server that leaves answers no more.
UserLeave(s) ==
  /\ FromServer
  /\ U!Leave(s)
  /\ pending' = IF s = current THEN 0 ELSE pending
  /\ current' = None /\ callback' = Cleared
  /\ UNCHANGED <<names, state, timer, initReady, info, announced, told, cached, replyQ>>

\* The statements that follow: state = 2, timer = 200 (lost when the worker's
\* timer-- has read the old value) and initReady = false.
Leaving ==
  /\ \/ /\ callback = Cleared /\ callback' = Chooses
        /\ state' = 2 /\ UNCHANGED <<timer, initReady>>
     \/ /\ callback = Chooses /\ callback' = Timed
        /\ timer' = SelectWait \/ (seen = Idle /\ timer > 0 /\ UNCHANGED timer)
        /\ UNCHANGED <<state, initReady>>
     \/ /\ callback = Timed /\ callback' = Out
        /\ initReady' = FALSE /\ UNCHANGED <<state, timer>>
  /\ UNCHANGED <<net, present, names, current, workerVars, info, announced,
                 serverVars, cached, replyQ, budget>>

\* Mutant: the records of a download are stored as they come.
ListRecordAtOnce(r) ==
  /\ FromServer /\ Aside
  /\ pending > 0
  /\ told' = told \cup {r} /\ cached' = cached \cup {r}
  /\ UNCHANGED <<present, names, pending, replyQ>>

\* UPDATE of table 1 in answer to a SENDLIST: doUpdate.
ListRecord(r) ==
  /\ FromServer /\ Aside
  /\ pending > 0
  /\ told' = told \cup {r}
  /\ cached' = IF initReady THEN cached \cup {r} ELSE cached
  /\ UNCHANGED <<present, names, pending, replyQ>>

\* UPDATE of table 1 on the channel: msgChannel, doUpdate.
ChannelRecord(r) ==
  /\ FromServer /\ Aside
  /\ cached' = IF initReady THEN cached \cup {r} ELSE cached
  /\ UNCHANGED <<present, names, serverVars, replyQ>>

\* LIST_END and LIST_MORE, looked at in state 5 only: the test ...
ListEnds(next) ==
  /\ FromServer
  /\ pending > 0
  /\ pending' = pending - 1
  /\ callback' = IF state = 5 THEN GoOn(next) ELSE callback
  /\ UNCHANGED <<present, names, current, state, timer, initReady, info, announced,
                 told, cached, replyQ>>
ListEnd  == ListEnds(3)
ListMore == ListEnds(4)

\* ... and the next state.
ListGoesOn ==
  /\ callback \in {GoOn(3), GoOn(4)} /\ callback' = Out
  /\ state' = callback - 1
  /\ UNCHANGED <<net, present, names, current, workerVars, timer, initReady,
                 info, announced, serverVars, cached, replyQ, budget>>

\* IDRT_PING of another gateway: putReplyMessage.
PingArrives ==
  /\ FromServer /\ Aside /\ Len(replyQ) < MaxReplies
  /\ replyQ' = Append(replyQ, "PING")
  /\ UNCHANGED <<present, names, serverVars, cached>>

\* NOT_FOUND, the answer to FIND: an IDRT_USER message is put on the queue.
UserNotFound ==
  /\ NotFound /\ Up /\ FromServer /\ Aside /\ Len(replyQ) < MaxReplies
  /\ replyQ' = Append(replyQ, "USER")
  /\ UNCHANGED <<present, names, serverVars, cached>>

ClientThread ==
  \/ LogIn \/ NetUp \/ NetDown \/ ListReset
  \/ \E s \in Servers : UserJoin(s) \/ UserLeave(s)
  \/ \E r \in Rptrs : ListRecord(r) \/ ChannelRecord(r)
  \/ Leaving \/ ListEnd \/ ListMore \/ ListGoesOn \/ PingArrives \/ UserNotFound

-----------------------------------------------------------------------------
\* getMessageType(), receivePing(): only an IDRT_PING is taken off the queue.
AnswerPing ==
  /\ replyQ # <<>> /\ Head(replyQ) = "PING"
  /\ replyQ' = Tail(replyQ)
  /\ UNCHANGED <<net, present, names, current, state, workerVars, timer,
                 callback, initReady, info, announced, serverVars, cached, budget>>

Next == Worker \/ ClientThread \/ AnswerPing

Spec == Init /\ [][Next]_vars

\* The worker and the consumer are threads that never wait for another; the
\* client thread goes on to the end of a callback, and to reset the list once it
\* retracted the queue.
Fairness == /\ WF_vars(Worker) /\ WF_vars(AnswerPing)
            /\ WF_vars(Leaving \/ ListGoesOn \/ ListReset)
FairSpec == Spec /\ Fairness

-----------------------------------------------------------------------------
(* The inductive invariant behind the safety properties.                   *)

\* While the cache is open to updates the worker is in, or about to look at,
\* the operational state, or on its way into it or out of it (without a session
\* then); or a user leaves and the client thread is about to close the cache.
ReadySeen ==
  initReady => \/ state = 7 /\ seen \in {Idle, Ticked, 7}
               \/ state = 10 /\ seen \in {Idle, Ticked, 10} /\ ~U!InSession
               \/ seen \in {Closing, Stopped} /\ ~U!InSession
               \/ seen = Opened
               \/ callback \in {Chooses, Timed}

\* What goes on from a choice of the server works with that choice.
ChoiceSeen ==
  /\ Up /\ current # None
     /\ (state \in 3 .. 7 \/ seen \in {3, 4, 5, 6, Chosen, Counted, AfterPut, Opening, Opened})
       => current \in names
  /\ callback > Timed => current \in names \cup {None}

\* Between the switch and the end of a case only a callback changes `state`, and
\* the table counted down is never one past the last.
WorkerPlace ==
  /\ state = 7 => seen \in {Idle, Ticked, 7}
  /\ state = 6 => seen \in {Idle, Ticked, 6, Opening, Opened}
  /\ state = 5 => seen \in {Idle, Ticked, 5} /\ table = ListTable
  /\ seen \in {2, Choosing} => state \in 2 .. 4
  /\ seen \in {6, Opening, Opened} => state \in {2, 6}
  /\ seen \in {Opening, Opened} => info > 0
  /\ seen = AfterPut => table = ListTable
  /\ state \in {3, 4} \/ seen \in {3, 4, Counted} => table >= 0

\* A callback runs in a session; the end of a list that came in state 5 is
\* not overtaken by the end of the downloads.
CallbackPlace ==
  /\ callback # Out => U!InSession
  /\ callback > Timed =>
       /\ Up /\ ~initReady
       /\ state \notin {6, 7} /\ seen \notin {6, 7, Opening, Opened}
       /\ table >= ListTable /\ (state = 3 \/ seen = 3 => table = NumberOfTables)

\* A connection that is not up yet finds no choice of an earlier one in use.
LoginSeen ==
  net = "login" => /\ state \in {0, 2, 10}
                   /\ seen \in {Idle, Ticked, 0, 2, 10, Closing, Stopped}

IInv == TypeOK /\ ReadySeen /\ ChoiceSeen /\ WorkerPlace /\ CallbackPlace /\ LoginSeen

-----------------------------------------------------------------------------
(* Properties.                                                             *)

\* initReady opens the cache to updates.  Its two writers set it and `state` in
\* opposite orders, and so no interleaving of their statements leaves it on
\* outside the operational state: only inside a case or a callback that is
\* about to write the other of the two is it ever found there.
ReadyIsOperational ==
  initReady => \/ state \in {7, 10}
               \/ seen \in {Opened, Closing, Stopped}
               \/ callback \in {Chooses, Timed}

\* The server the worker talks to is one of this connection's users, never a
\* user of an earlier connection: sendHeard and findUser address it.
ServerOfThisConnection ==
  Up /\ state \in 3 .. 7 /\ current # None => current \in names

\* The download of a table never lasts for ever, though LIST_END may be lost
\* or come before state 5: "15 minutes max for update" (IRCDDBApp.cpp:716).
DownloadEnds == (state = 5) ~> (state # 5)

\* A worker that lost its connection is back in the state where it waits for
\* the next one, with the cache closed to updates.
LossIsNoticed == ~Up ~> (Up \/ (state = 0 /\ ~initReady))

\* Case 6 leads to the announcement of the repeater to the chosen server, as
\* long as that server stays.
RepeaterAnnounced ==
  (state = 7 /\ current # None) ~> (announced \/ state # 7 \/ current = None)

\* A PING another gateway sent is answered.
PingAnswered == \A n \in 1 .. MaxReplies :
  (Len(replyQ) = n /\ replyQ[n] = "PING") ~> (Len(replyQ) # n \/ replyQ[n] # "PING")

\* In state 7, "fully operational" (IRCDDB.h:68), there is a server to talk to.
OperationalHasServer == state = 7 => current # None

\* The safety half of DownloadEnds: in state 5 the timer is never set again,
\* but by a userLeave the worker wrote the state over; every turn of the worker
\* uses up a second, and none that finds no second goes on waiting.
DownloadRunsOut ==
  [][state = 5 /\ state' = 5 =>
       /\ timer' <= timer \/ callback = Chooses
       /\ seen = Idle /\ seen' = Ticked => timer = 0 \/ timer' < timer
       /\ seen = 5 /\ seen' = Idle => timer > 0]_vars

\* The steps of the worker before it rests in state 0, without a connection.
StepsFrom(s) == CASE s = 0 -> 0 [] s = 1 -> 12 [] s = 10 -> 5 [] OTHER -> 8
StepsLeft == CASE seen = Idle      -> StepsFrom(state)
               [] seen = Ticked    -> StepsFrom(state) - 1
               [] seen \in {0, Joined, Counted, Stopped} -> 1 + StepsFrom(state)
               [] seen = Closing   -> 2 + StepsFrom(state)
               [] seen = 10        -> 3
               [] seen \in {2, 3, 4, 5, 6, 7} -> 6
               [] seen \in {1, Choosing, Opening} -> 10
               [] OTHER            -> 9

\* The safety half of LossIsNoticed: while the connection is lost each step of
\* the worker brings it nearer to state 0, from any case it may have been in
\* the middle of; only a callback that is not over takes it back.
LossRunsOut ==
  [][~Up /\ ~Up' /\ state # 0 => \/ UNCHANGED <<state, seen>>
                                 \/ StepsLeft' < StepsLeft
                                 \/ callback # Out /\ callback' # callback]_vars

\* The safety half of RepeaterAnnounced: in the operational state infoTimer
\* runs until the chosen server was told of the repeater.
AnnouncementDue == state = 7 /\ current # None /\ ~announced => info > 0

\* No record of a download that runs is stored, though the client thread stores
\* by initReady and the worker leaves states 3 to 5 by `state`, which are
\* written apart (IRCDDBApp.cpp:495, 776-777): when a record is stored the last
\* download of the worker is over, for this connection.
StoredAfterDownloads ==
  [][cached' # cached => (state \in {7, 10} \/ seen = Opened) /\ U!InSession]_vars
=============================================================================
