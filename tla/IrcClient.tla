------------------------------ MODULE IrcClient ------------------------------
(***************************************************************************)
(* One ircDDB connection: the client thread (IRCClient::Entry with         *)
(* IRCProtocol inside it), the receiver thread (IRCReceiver::Entry) and    *)
(* the threads of the gateway that put messages on the send queue whose    *)
(* pointer the client thread publishes in IRCDDBApp::sendQ.                *)
(*                                                                         *)
(* The client thread allocates a receive and a send queue for every        *)
(* session and deletes both at its end, so every other thread uses an      *)
(* object it does not own.  The receiver is joined before the deletion;    *)
(* nothing joins the users of the send queue, only the sleep(2) between    *)
(* setSendQ(NULL) and the deletion keeps them apart.                       *)
(*                                                                         *)
(* The IRC server is the environment: it answers or stays silent, sends    *)
(* what other users do, kicks the client or closes the connection.         *)
(***************************************************************************)
EXTENDS Naturals, Sequences

CONSTANTS
  Users,       \* threads that put messages through getSendQ()
  Pingers,     \* threads that call sendPing(), which reads sendQ directly
  Others,      \* the other gateways seen on the channel
  RetryWait,   \* ticks between two attempts to connect (30 in the code)
  NickWait,    \* ticks to wait for a nick collision (10)
  ReplyWait,   \* ticks to wait for the login or the join message (30)
  PingWait,    \* pingTimer (60)
  MaxQ,        \* how many queue objects the model tells apart
  Spare        \* bound: unsolicited events and user messages in one session

ASSUME WaitAssumption ==
  /\ RetryWait \in Nat \ {0} /\ NickWait \in Nat \ {0}
  /\ ReplyWait \in Nat \ {0} /\ PingWait \in Nat \ {0}
ASSUME BoundAssumption == MaxQ \in Nat \ {0} /\ Spare \in Nat

VARIABLES
  client,    \* where the client thread is in IRCClient::Entry
  retry,     \* its timer between two attempts to connect
  terminate, \* terminateThread, set by CIRCDDB::close
  proto,     \* IRCProtocol::state
  timer,     \* IRCProtocol::timer
  sendQ,     \* IRCDDBApp::sendQ: Null or the send queue the client published
  queue,     \* the send queue object allocated last
  alive,     \* the queue objects of the session exist
  recvQ,     \* contents of the receive queue
  eof,       \* its m_eof
  outQ,      \* contents of the send queue
  receiver,  \* the receiver thread
  recvStop,  \* its terminateThread
  names,     \* the nicks of other gateways in the cache (NameNick)
  held,      \* the queue a user thread fetched and has not used yet, or Null
  ping,      \* where a thread is in sendPing
  wire,      \* what the server sent and the receiver has not read
  server,    \* the server's view of the connection
  spare      \* what is left of the session's bound

clientVars == <<client, retry, terminate>>
protoVars  == <<proto, timer>>
queueVars  == <<sendQ, queue, alive>>
recvVars   == <<recvQ, eof, receiver, recvStop>>
userVars   == <<held, ping>>
netVars    == <<wire, server>>
vars == <<clientVars, protoVars, queueVars, recvVars, outQ, names, userVars,
          netVars, spare>>

Null == 0
Queues == 1 .. MaxQ

\* Case 5 of the switch is "poll", "drain", "step" and "send"; case 6 is
\* "off", "reset", "stop", "join" and "free".
ClientStates == {"connect", "start", "poll", "drain", "step", "send",
                 "off", "reset", "stop", "join", "free", "done"}
InSession == {"poll", "drain", "step", "send"}

\* IRCProtocol::state.  7 and 8 join a debug channel, whose name no code sets.
ProtoStates == {0, 1, 2, 3, 4, 5, 6, 10, 11, 12}

Messages == [cmd : {"004", "433", "PING", "PONG", "JOINME", "KICKME", "PRIVMSG"}]
              \cup [cmd : {"JOIN", "LEAVE"}, who : Others]

Sent == {"PASS", "NICK", "USER", "JOIN", "WHO", "PING", "PONG", "APP"}

Dec(n) == IF n > 0 THEN n - 1 ELSE 0

TypeOK ==
  /\ client \in ClientStates /\ retry \in 0 .. RetryWait
  /\ terminate \in BOOLEAN
  /\ proto \in ProtoStates /\ timer \in Nat
  /\ sendQ \in Queues \cup {Null} /\ queue \in Queues /\ alive \in BOOLEAN
  /\ recvQ \in Seq(Messages) /\ eof \in BOOLEAN /\ outQ \in Seq(Sent)
  /\ receiver \in {"off", "run", "done"} /\ recvStop \in BOOLEAN
  /\ names \subseteq Others
  /\ held \in [Users -> Queues \cup {Null}]
  /\ ping \in [Pingers -> {"idle", "ping", "fault"}]
  /\ wire \in Seq(Messages)
  /\ server \in {"none", "new", "named", "user", "in", "closed"}
  /\ spare \in 0 .. Spare

Init ==
  /\ client = "connect" /\ retry = 0 /\ terminate = FALSE
  /\ proto = 0 /\ timer = 0
  /\ sendQ = Null /\ queue = MaxQ /\ alive = FALSE
  /\ recvQ = <<>> /\ eof = FALSE /\ outQ = <<>>
  /\ receiver = "off" /\ recvStop = FALSE
  /\ names = {}
  /\ held = [u \in Users |-> Null] /\ ping = [u \in Pingers |-> "idle"]
  /\ wire = <<>> /\ server = "none"
  /\ spare = Spare

-----------------------------------------------------------------------------
(* The client thread, cases 0 and 4.                                       *)

\* Case 0 with terminateThread set: the thread returns.
QuitUnconnected ==
  /\ client = "connect" /\ terminate
  /\ client' = "done"
  /\ UNCHANGED <<retry, terminate, protoVars, queueVars, recvVars, outQ,
                 names, userVars, netVars, spare>>

\* Case 0 while the timer runs.
WaitRetry ==
  /\ client = "connect" /\ ~terminate /\ Dec(retry) > 0
  /\ retry' = Dec(retry)
  /\ UNCHANGED <<client, terminate, protoVars, queueVars, recvVars, outQ,
                 names, userVars, netVars, spare>>

\* Case 0 when the timer is out and Open succeeds, or fails and is retried.
Open ==
  /\ client = "connect" /\ ~terminate /\ Dec(retry) = 0
  /\ \/ client' = "start" /\ retry' = 0 /\ server' = "new"
     \/ client' = client /\ retry' = RetryWait /\ server' = server
  /\ UNCHANGED <<terminate, protoVars, queueVars, recvVars, outQ, names,
                 userVars, wire, spare>>

\* Case 4: new queues, a new receiver, setNetworkReady(true).
StartSession ==
  /\ client = "start"
  /\ client' = "poll"
  /\ queue' = IF queue = MaxQ THEN 1 ELSE queue + 1
  /\ alive' = TRUE
  /\ recvQ' = <<>> /\ eof' = FALSE /\ outQ' = <<>>
  /\ receiver' = "run" /\ recvStop' = FALSE
  /\ proto' = 1
  /\ spare' = Spare
  /\ UNCHANGED <<retry, terminate, timer, sendQ, names, userVars, netVars>>

-----------------------------------------------------------------------------
(* Case 5: IRCProtocol::processQueues and the sending of its messages.     *)

\* Mutant: a close is not looked for while the session lasts.
PollIgnoringClose ==
  /\ client = "poll"
  /\ IF eof THEN client' = "off" /\ UNCHANGED timer
            ELSE client' = "drain" /\ timer' = Dec(timer)
  /\ UNCHANGED <<retry, terminate, proto, queueVars, recvVars, outQ, names,
                 userVars, netVars, spare>>

\* terminateThread, then the end of file, then processQueues.
Poll ==
  /\ client = "poll"
  /\ IF terminate \/ eof
       THEN client' = "off" /\ UNCHANGED timer
       ELSE client' = "drain" /\ timer' = Dec(timer)
  /\ UNCHANGED <<retry, terminate, proto, queueVars, recvVars, outQ, names,
                 userVars, netVars, spare>>

\* What every message handler of the loop over the receive queue has in
\* common; m is the message it takes.
Take(m) ==
  /\ client = "drain" /\ recvQ # <<>>
  /\ m = Head(recvQ)
  /\ recvQ' = Tail(recvQ)
  /\ UNCHANGED <<retry, terminate, queueVars, eof, receiver, recvStop, userVars,
                 netVars, spare>>

HandleWelcome ==
  /\ Take([cmd |-> "004"])
  /\ proto' = IF proto = 4 THEN 5 ELSE proto
  /\ UNCHANGED <<client, timer, outQ, names>>

HandleCollision ==
  /\ Take([cmd |-> "433"])
  /\ IF proto = 2 THEN proto' = 3 /\ timer' = NickWait
                  ELSE UNCHANGED protoVars
  /\ UNCHANGED <<client, outQ, names>>

HandlePing ==
  /\ Take([cmd |-> "PING"])
  /\ outQ' = Append(outQ, "PONG")
  /\ UNCHANGED <<client, protoVars, names>>

HandlePong ==
  /\ Take([cmd |-> "PONG"])
  /\ IF proto = 12 THEN proto' = 11 /\ timer' = PingWait
                   ELSE UNCHANGED protoVars
  /\ UNCHANGED <<client, outQ, names>>

\* The client's own JOIN: with no debug channel the next step is WHO.
HandleOwnJoin ==
  /\ Take([cmd |-> "JOINME"])
  /\ proto' = IF proto = 6 THEN 10 ELSE proto
  /\ UNCHANGED <<client, timer, outQ, names>>

\* JOIN and WHO replies (352) of others: IRCDDBApp::userJoin.
HandleJoin ==
  \E o \in Others :
    /\ Take([cmd |-> "JOIN", who |-> o])
    /\ names' = names \cup {o}
    /\ UNCHANGED <<client, protoVars, outQ>>

\* PART, QUIT and KICK of others: IRCDDBApp::userLeave.
HandleLeave ==
  \E o \in Others :
    /\ Take([cmd |-> "LEAVE", who |-> o])
    /\ names' = names \ {o}
    /\ UNCHANGED <<client, protoVars, outQ>>

\* KICK of the client: processQueues returns false at once.
HandleOwnKick ==
  /\ Take([cmd |-> "KICKME"])
  /\ client' = "off"
  /\ UNCHANGED <<protoVars, outQ, names>>

\* PRIVMSG goes to the application (see IrcDDBApp); nothing changes here.
HandlePrivmsg ==
  /\ Take([cmd |-> "PRIVMSG"])
  /\ UNCHANGED <<client, protoVars, outQ, names>>

\* No message is left: on to the switch over the protocol's state.
DrainEnds ==
  /\ client = "drain" /\ recvQ = <<>>
  /\ client' = "step"
  /\ UNCHANGED <<retry, terminate, protoVars, queueVars, recvVars, outQ,
                 names, userVars, netVars, spare>>

\* The case of that switch for state s: it queues out, goes to state next
\* with the timer at t.
StepTo(s, out, next, t) ==
  /\ client = "step" /\ proto = s
  /\ outQ' = outQ \o out /\ proto' = next /\ timer' = t
  /\ client' = "send"
  /\ UNCHANGED <<retry, terminate, queue, alive, recvVars, names, userVars,
                 netVars, spare>>

SendNick  == StepTo(1, <<"PASS", "NICK">>, 2, NickWait) /\ UNCHANGED sendQ
SendUser  == timer = 0 /\ StepTo(2, <<"USER">>, 4, ReplyWait) /\ UNCHANGED sendQ
RetryNick == timer = 0 /\ StepTo(3, <<"NICK">>, 2, NickWait) /\ UNCHANGED sendQ
SendJoin  == StepTo(5, <<"JOIN">>, 6, ReplyWait) /\ UNCHANGED sendQ
SendPing  == timer = 0 /\ StepTo(11, <<"PING">>, 12, PingWait) /\ UNCHANGED sendQ

\* WHO, and setSendQ(sendQ): this switches the application on.
SwitchOn == StepTo(10, <<"WHO">>, 11, PingWait) /\ sendQ' = queue

\* Mutant: the wait for the pong has no end.
WaitForPong ==
  /\ client = "step" /\ proto \in {2, 3, 4, 6, 11, 12}
  /\ timer > 0 \/ proto = 12
  /\ client' = "send"
  /\ UNCHANGED <<retry, terminate, protoVars, queueVars, recvVars, outQ,
                 names, userVars, netVars, spare>>

\* A wait that is not over.
KeepWaiting ==
  /\ client = "step" /\ proto \in {2, 3, 4, 6, 11, 12} /\ timer > 0
  /\ client' = "send"
  /\ UNCHANGED <<retry, terminate, protoVars, queueVars, recvVars, outQ,
                 names, userVars, netVars, spare>>

\* No login, join or pong message came: processQueues returns false.
GiveUp ==
  /\ client = "step" /\ proto \in {4, 6, 12} /\ timer = 0
  /\ client' = "off"
  /\ UNCHANGED <<retry, terminate, protoVars, queueVars, recvVars, outQ,
                 names, userVars, netVars, spare>>

ProtoStep == \/ SendNick \/ SendUser \/ RetryNick \/ SendJoin \/ SwitchOn
             \/ SendPing \/ KeepWaiting \/ GiveUp

\* How the server takes message m of the client: silence, or an answer.
ServerTakes(m) ==
  \/ UNCHANGED netVars
  \/ m = "NICK" /\ server = "new" /\ server' = "named" /\ UNCHANGED wire
  \/ /\ \/ m = "NICK" /\ server = "new"
           /\ wire' = Append(wire, [cmd |-> "433"])
        \/ m = "WHO" /\ server = "in"
           /\ \E o \in Others : wire' = Append(wire, [cmd |-> "JOIN", who |-> o])
        \/ m = "PING" /\ server \in {"user", "in"}
           /\ wire' = Append(wire, [cmd |-> "PONG"])
     /\ UNCHANGED server
  \/ /\ m = "USER" /\ server = "named"
     /\ server' = "user" /\ wire' = Append(wire, [cmd |-> "004"])
  \/ /\ m = "JOIN" /\ server = "user"
     /\ server' = "in" /\ wire' = Append(wire, [cmd |-> "JOINME"])

\* One message of the send queue is written to the socket.
Write ==
  /\ client = "send" /\ outQ # <<>>
  /\ outQ' = Tail(outQ)
  /\ ServerTakes(Head(outQ))
  /\ UNCHANGED <<clientVars, protoVars, queueVars, recvVars, names, userVars,
                 spare>>

\* A short write ends the session.
WriteFails ==
  /\ client = "send" /\ outQ # <<>>
  /\ outQ' = Tail(outQ)
  /\ client' = "off"
  /\ UNCHANGED <<retry, terminate, protoVars, queueVars, recvVars, names,
                 userVars, netVars, spare>>

SendEnds ==
  /\ client = "send" /\ outQ = <<>>
  /\ client' = "poll"
  /\ UNCHANGED <<retry, terminate, protoVars, queueVars, recvVars, outQ,
                 names, userVars, netVars, spare>>

-----------------------------------------------------------------------------
(* Case 6: the end of a session.                                           *)

\* app->setSendQ(NULL)
SwitchOff ==
  /\ client = "off"
  /\ client' = "reset" /\ sendQ' = Null
  /\ UNCHANGED <<retry, terminate, protoVars, queue, alive, recvVars, outQ,
                 names, userVars, netVars, spare>>

\* Mutant: the cache keeps the nicks of the session.
ResetForgotten ==
  /\ client = "reset"
  /\ client' = "stop"
  /\ UNCHANGED <<retry, terminate, protoVars, queueVars, recvVars, outQ,
                 names, userVars, netVars, spare>>

\* app->userListReset()
ResetUserList ==
  /\ client = "reset"
  /\ client' = "stop" /\ names' = {}
  /\ UNCHANGED <<retry, terminate, protoVars, queueVars, recvVars, outQ,
                 userVars, netVars, spare>>

\* proto.setNetworkReady(false), and receiver.stopWork() is called.
StopReceiver ==
  /\ client = "stop"
  /\ client' = "join" /\ proto' = 0 /\ recvStop' = TRUE
  /\ UNCHANGED <<retry, terminate, timer, queueVars, recvQ, eof, receiver,
                 outQ, names, userVars, netVars, spare>>

\* Mutant: the receiver is told to stop and not waited for.
JoinForgotten ==
  /\ client = "join"
  /\ client' = "free"
  /\ UNCHANGED <<retry, terminate, protoVars, queueVars, recvVars, outQ,
                 names, userVars, netVars, spare>>

\* rec_thread.get() returns once the receiver's loop is over.
JoinReceiver ==
  /\ client = "join" /\ receiver = "done"
  /\ client' = "free"
  /\ UNCHANGED <<retry, terminate, protoVars, queueVars, recvVars, outQ,
                 names, userVars, netVars, spare>>

\* Mutant: the deletes come at once, with no sleep(2) for the users.
FreeAtOnce ==
  /\ client = "free"
  /\ alive' = FALSE /\ recvQ' = <<>> /\ outQ' = <<>>
  /\ wire' = <<>> /\ server' = "none"
  /\ IF terminate THEN client' = "done" /\ UNCHANGED retry
                  ELSE client' = "connect" /\ retry' = RetryWait
  /\ UNCHANGED <<terminate, protoVars, sendQ, queue, eof, receiver, recvStop,
                 names, userVars, spare>>

\* After sleep(2), the deletes and Close.  A user that fetched the pointer
\* before setSendQ(NULL) is taken to finish its put during the sleep.
FreeQueues ==
  /\ client = "free"
  /\ \A u \in Users : held[u] = Null
  /\ alive' = FALSE /\ recvQ' = <<>> /\ outQ' = <<>>
  /\ wire' = <<>> /\ server' = "none"
  /\ IF terminate THEN client' = "done" /\ UNCHANGED retry
                  ELSE client' = "connect" /\ retry' = RetryWait
  /\ UNCHANGED <<terminate, protoVars, sendQ, queue, eof, receiver, recvStop,
                 names, userVars, spare>>

-----------------------------------------------------------------------------
(* The receiver thread.                                                    *)

\* recvQ->putMessage of a message doRead returned.
Receive ==
  /\ receiver = "run" /\ wire # <<>>
  /\ recvQ' = Append(recvQ, Head(wire)) /\ wire' = Tail(wire)
  /\ UNCHANGED <<clientVars, protoVars, queueVars, eof, receiver, recvStop,
                 outQ, names, userVars, server, spare>>

\* doRead returns -1: signalEOF, and the loop is left.
ReceiveEnd ==
  /\ receiver = "run" /\ wire = <<>> /\ server = "closed"
  /\ eof' = TRUE /\ receiver' = "done"
  /\ UNCHANGED <<clientVars, protoVars, queueVars, recvQ, recvStop, outQ,
                 names, userVars, netVars, spare>>

\* The loop sees terminateThread, at most one second after it was set.
ReceiverStops ==
  /\ receiver = "run" /\ recvStop
  /\ receiver' = "done"
  /\ UNCHANGED <<clientVars, protoVars, queueVars, recvQ, eof, recvStop, outQ,
                 names, userVars, netVars, spare>>

-----------------------------------------------------------------------------
(* The threads that use the send queue.                                    *)

\* IRCMessageQueue *q = getSendQ(), found not to be NULL.
FetchQueue(u) ==
  /\ held[u] = Null /\ sendQ # Null /\ spare > 0
  /\ held' = [held EXCEPT ![u] = sendQ]
  /\ spare' = spare - 1
  /\ UNCHANGED <<clientVars, protoVars, queueVars, recvVars, outQ, names,
                 ping, netVars>>

\* q->putMessage(m)
PutMessage(u) ==
  /\ held[u] # Null
  /\ held' = [held EXCEPT ![u] = Null]
  /\ outQ' = IF alive /\ held[u] = queue THEN Append(outQ, "APP") ELSE outQ
  /\ UNCHANGED <<clientVars, protoVars, queueVars, recvVars, names, ping,
                 netVars, spare>>

\* IRCDDBApp::sendPing finds the nick of the target in the cache ...
FindNick(u) ==
  /\ ping[u] = "idle" /\ names # {} /\ spare > 0
  /\ ping' = [ping EXCEPT ![u] = "ping"]
  /\ spare' = spare - 1
  /\ UNCHANGED <<clientVars, protoVars, queueVars, recvVars, outQ, names,
                 held, netVars>>

\* ... and calls sendQ->putMessage with no test of the pointer.
PutPing(u) ==
  /\ ping[u] = "ping"
  /\ IF sendQ = Null
       THEN ping' = [ping EXCEPT ![u] = "fault"] /\ UNCHANGED outQ
       ELSE ping' = [ping EXCEPT ![u] = "idle"] /\ outQ' = Append(outQ, "APP")
  /\ UNCHANGED <<clientVars, protoVars, queueVars, recvVars, names, held,
                 netVars, spare>>

\* CIRCDDB::close: client->stopWork().
Close ==
  /\ ~terminate
  /\ terminate' = TRUE
  /\ UNCHANGED <<client, retry, protoVars, queueVars, recvVars, outQ, names,
                 userVars, netVars, spare>>

-----------------------------------------------------------------------------
(* The server, on its own initiative.                                      *)

Unsolicited ==
  {[cmd |-> "PING"]} \cup
  IF server = "in"
    THEN {[cmd |-> "KICKME"], [cmd |-> "PRIVMSG"]}
           \cup [cmd : {"JOIN", "LEAVE"}, who : Others]
    ELSE {}

ServerSends ==
  /\ server \in {"new", "named", "user", "in"} /\ spare > 0
  /\ \E m \in Unsolicited : wire' = Append(wire, m)
  /\ spare' = spare - 1
  /\ UNCHANGED <<clientVars, protoVars, queueVars, recvVars, outQ, names,
                 userVars, server>>

ServerCloses ==
  /\ server \in {"new", "named", "user", "in"}
  /\ server' = "closed"
  /\ UNCHANGED <<clientVars, protoVars, queueVars, recvVars, outQ, names,
                 userVars, wire, spare>>

-----------------------------------------------------------------------------
ClientThread ==
  \/ QuitUnconnected \/ WaitRetry \/ Open \/ StartSession \/ Poll
  \/ HandleWelcome \/ HandleCollision \/ HandlePing \/ HandlePong
  \/ HandleOwnJoin \/ HandleJoin \/ HandleLeave \/ HandleOwnKick
  \/ HandlePrivmsg \/ DrainEnds \/ ProtoStep \/ Write \/ WriteFails \/ SendEnds
  \/ SwitchOff \/ ResetUserList \/ StopReceiver \/ JoinReceiver \/ FreeQueues

ReceiverThread == Receive \/ ReceiveEnd \/ ReceiverStops

UserThreads == \/ \E u \in Users : FetchQueue(u) \/ PutMessage(u)
               \/ \E u \in Pingers : FindNick(u) \/ PutPing(u)

\* A null pointer ends the process, and with it every thread.
Alive == \A u \in Pingers : ping[u] # "fault"

Next == \/ Alive /\ ClientThread
        \/ Alive /\ ReceiverThread
        \/ Alive /\ UserThreads
        \/ Alive /\ Close
        \/ Alive /\ (ServerSends \/ ServerCloses)

Spec == Init /\ [][Next]_vars

\* The scheduler runs every thread; the server owes nothing.
Fairness ==
  /\ WF_vars(Alive /\ ClientThread)
  /\ WF_vars(Alive /\ ReceiverThread)
  /\ \A u \in Users : WF_vars(Alive /\ PutMessage(u))

FairSpec == Spec /\ Fairness

-----------------------------------------------------------------------------
(* What the application sees of the connection.                            *)

connection ==
  IF sendQ # Null THEN "up"
  ELSE IF client \in InSession \cup {"off"} THEN "login"
  ELSE IF client = "reset" THEN "reset" ELSE "down"

Seen == INSTANCE Uplink WITH Users <- Others, net <- connection, users <- names

-----------------------------------------------------------------------------
(* The inductive invariant behind the safety properties.                   *)

\* The queues exist from case 4 to the deletes of case 6.
QueuesInSession == alive <=> client \notin {"connect", "start", "done"}

\* The receiver runs only while the queues exist, and not after its join.
ReceiverInSession ==
  receiver = "run" => client \in InSession \cup {"off", "reset", "stop", "join"}

\* Case 6 takes back, in its order, what the session handed out.
TornDown ==
  /\ client \notin InSession \cup {"off"} => sendQ = Null
  /\ client \in {"stop", "join", "free", "connect", "start", "done"} => names = {}
  /\ client \in {"join", "free", "connect", "start", "done"} => proto = 0

\* A pointer that is published or held is the one of the running session.
PointersCurrent ==
  /\ sendQ # Null => sendQ = queue /\ proto \in {11, 12}
  /\ \A u \in Users : held[u] # Null => alive /\ held[u] = queue

IInv == TypeOK /\ QueuesInSession /\ ReceiverInSession /\ TornDown
          /\ PointersCurrent

-----------------------------------------------------------------------------
(* Properties.                                                             *)

\* The pointer other threads read (IRCDDBApp::getSendQ) is NULL or the send
\* queue of the running session, and it is published only once the session
\* has joined the channel: IRCClient's case 6 retracts it before it resets
\* the protocol and deletes the queue.
PublishedQueueIsLive ==
  sendQ # Null => /\ alive /\ sendQ = queue
                  /\ proto \in {11, 12}
                  /\ client \in InSession \cup {"off"}

\* No thread uses a queue that was deleted: whatever a user fetched with
\* getSendQ() is still the queue of a session not yet freed, and the receiver
\* is joined (receiver.stopWork) before the client thread deletes its queue.
NoUseAfterFree ==
  /\ \A u \in Users : held[u] # Null => alive /\ held[u] = queue
  /\ receiver = "run" => alive

\* Every session starts from nothing: setNetworkReady(true) finds state 0
\* ("unexpected state" otherwise), no nick or gateway is left in the cache
\* from an earlier session, and no receiver of it runs.
SessionStartsClean ==
  client = "start" => /\ proto = 0 /\ names = {} /\ sendQ = Null
                      /\ receiver # "run" /\ ~alive

\* The client is a connection as the application (IrcDDBApp) takes it to be:
\* callbacks come in a session only, a session is switched on once and off
\* before its list of users is cleared, and none begins with users.
IsUplink == Seen!Spec

\* sendPing never follows a null pointer (it opens the routing port on the
\* target: "to is the gateway to which we are sending the message").
PingNeverFaults == \A u \in Pingers : ping[u] # "fault"

\* No state of the protocol is waited in for ever: a silent server leads to
\* the next request or to the end of the session.
NoSilentStall == \A p \in ProtoStates \ {0} : (proto = p) ~> (proto # p)

\* CIRCDDB::close always ends the client thread, with its receiver.
CloseEndsThreads == terminate ~> (client = "done" /\ receiver # "run")

\* The places the thread still passes once a close was asked for.
Ahead(c) == CASE c = "start" -> 10 [] c = "drain" -> 9 [] c = "step" -> 8
              [] c = "send"  -> 7  [] c = "poll"  -> 6 [] c = "off"  -> 5
              [] c = "reset" -> 4  [] c = "stop"  -> 3 [] c = "join" -> 2
              [] c \in {"free", "connect"} -> 1 [] OTHER -> 0

\* The safety half of CloseEndsThreads: after a close the client thread only
\* goes on towards its end, no new session is begun, and no close is taken back.
ClosingGoesDown ==
  [][terminate => terminate' /\ (client' = client \/ Ahead(client') < Ahead(client))]_vars

\* The safety half of NoSilentStall: while the protocol stays in a state its
\* timer is never set again, whatever arrives; every turn of the loop uses up
\* a tick, and none that finds no tick goes on waiting.
WaitsRunOut ==
  [][proto # 0 /\ proto' = proto =>
       /\ timer' <= timer
       /\ client = "poll" /\ client' = "drain" => timer = 0 \/ timer' < timer
       /\ client = "step" /\ client' = "send" => timer > 0]_vars
=============================================================================
