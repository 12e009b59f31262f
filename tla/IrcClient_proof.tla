--------------------------- MODULE IrcClient_proof ---------------------------
(***************************************************************************)
(* Proofs about IrcClient: the type invariant and the ownership of the     *)
(* queues, for any set of user threads and any length of the waits.        *)
(***************************************************************************)
EXTENDS IrcClient, TLAPS

\* What the client sends, and what the server may answer or say on its own,
\* are messages of their types.
LEMMA SentTypes ==
  /\ <<"PASS", "NICK">> \in Seq(Sent) /\ <<"NICK">> \in Seq(Sent)
  /\ <<"USER">> \in Seq(Sent) /\ <<"JOIN">> \in Seq(Sent)
  /\ <<"WHO">> \in Seq(Sent) /\ <<"PING">> \in Seq(Sent)
  /\ "PONG" \in Sent /\ "APP" \in Sent
  BY DEF Sent

LEMMA UnsolicitedTypes == Unsolicited \subseteq Messages
  BY DEF Unsolicited, Messages

LEMMA AnswerTypes ==
  /\ [cmd |-> "433"] \in Messages /\ [cmd |-> "004"] \in Messages
  /\ [cmd |-> "JOINME"] \in Messages /\ [cmd |-> "PONG"] \in Messages
  /\ \A o \in Others : [cmd |-> "JOIN", who |-> o] \in Messages
  BY DEF Messages

LEMMA EmptyTypes == <<>> \in Seq(Messages) /\ <<>> \in Seq(Sent)
  OBVIOUS

\* Init satisfies the inductive invariant.
LEMMA InitIInv == Init => IInv
<1> SUFFICES ASSUME Init PROVE IInv
  OBVIOUS
<1>1. TypeOK
  <2>1. queue \in Queues /\ spare \in 0 .. Spare /\ retry \in 0 .. RetryWait
    BY BoundAssumption, WaitAssumption DEF Init, Queues
  <2>2. recvQ \in Seq(Messages) /\ wire \in Seq(Messages) /\ outQ \in Seq(Sent)
    BY EmptyTypes DEF Init
  <2>3. /\ held \in [Users -> Queues \cup {Null}]
        /\ ping \in [Pingers -> {"idle", "ping", "fault"}]
    BY DEF Init
  <2>4. QED
    BY <2>1, <2>2, <2>3 DEF Init, TypeOK, ClientStates, ProtoStates
<1>2. QueuesInSession /\ ReceiverInSession /\ TornDown /\ PointersCurrent
  BY DEF Init, QueuesInSession, ReceiverInSession, TornDown, PointersCurrent,
         InSession, Null
<1>3. QED
  BY <1>1, <1>2 DEF IInv

\* Every step keeps the type invariant.
LEMMA TypeStep == TypeOK /\ [Next]_vars => TypeOK'
<1> SUFFICES ASSUME TypeOK, [Next]_vars PROVE TypeOK'
  OBVIOUS
<1> USE SentTypes, WaitAssumption, BoundAssumption
<1> USE DEF TypeOK, ClientStates, ProtoStates, Queues, Null, Dec,
  clientVars, protoVars, queueVars, recvVars,
  userVars, netVars
<1>1. CASE QuitUnconnected
  BY <1>1 DEF QuitUnconnected
<1>2. CASE WaitRetry
  BY <1>2 DEF WaitRetry
<1>3. CASE Open
  BY <1>3 DEF Open
<1>4. CASE StartSession
  <2>1. queue' \in Queues /\ spare' \in 0 .. Spare
    BY <1>4 DEF StartSession
  <2>2. recvQ' \in Seq(Messages) /\ outQ' \in Seq(Sent)
    BY <1>4, EmptyTypes DEF StartSession
  <2>3. QED
    BY <1>4, <2>1, <2>2 DEF StartSession
<1>5. CASE Poll
  BY <1>5 DEF Poll
<1>6. CASE HandleWelcome
  BY <1>6 DEF HandleWelcome, Take
<1>7. CASE HandleCollision
  <2>1. CASE proto = 2
    BY <1>7, <2>1 DEF HandleCollision, Take
  <2>2. CASE proto # 2
    BY <1>7, <2>2 DEF HandleCollision, Take
  <2>3. QED
    BY <2>1, <2>2
<1>8. CASE HandlePing
  BY <1>8 DEF HandlePing, Take
<1>9. CASE HandlePong
  BY <1>9 DEF HandlePong, Take
<1>10. CASE HandleOwnJoin
  BY <1>10 DEF HandleOwnJoin, Take
<1>11. CASE HandleJoin
  BY <1>11 DEF HandleJoin, Take
<1>12. CASE HandleLeave
  BY <1>12 DEF HandleLeave, Take
<1>13. CASE HandleOwnKick
  BY <1>13 DEF HandleOwnKick, Take
<1>14. CASE HandlePrivmsg
  BY <1>14 DEF HandlePrivmsg, Take
<1>15. CASE DrainEnds
  BY <1>15 DEF DrainEnds
<1>16. CASE SendNick
  BY <1>16 DEF SendNick, StepTo
<1>17. CASE SendUser
  BY <1>17 DEF SendUser, StepTo
<1>18. CASE RetryNick
  BY <1>18 DEF RetryNick, StepTo
<1>19. CASE SendJoin
  BY <1>19 DEF SendJoin, StepTo
<1>20. CASE SwitchOn
  BY <1>20 DEF SwitchOn, StepTo
<1>21. CASE SendPing
  BY <1>21 DEF SendPing, StepTo
<1>22. CASE KeepWaiting
  BY <1>22 DEF KeepWaiting
<1>23. CASE GiveUp
  BY <1>23 DEF GiveUp
<1>24. CASE Write
  <2>0. UNCHANGED wire \/ \E a \in Messages : wire' = Append(wire, a)
    <3>1. ServerTakes(Head(outQ))
      BY <1>24 DEF Write
    <3>2. QED
      BY <3>1, AnswerTypes, Zenon DEF ServerTakes
  <2>1. wire' \in Seq(Messages)
    <3>1. CASE UNCHANGED wire
      BY <3>1
    <3>2. ASSUME NEW a \in Messages, wire' = Append(wire, a)
          PROVE  wire' \in Seq(Messages)
      <4> HIDE DEF Messages
      <4>1. QED
        BY <3>2
    <3>3. QED
      BY <2>0, <3>1, <3>2
  <2>2. server' \in {"none", "new", "named", "user", "in", "closed"}
    BY <1>24 DEF Write, ServerTakes
  <2>3. QED
    BY <1>24, <2>1, <2>2 DEF Write
<1>25. CASE WriteFails
  BY <1>25 DEF WriteFails
<1>26. CASE SendEnds
  BY <1>26 DEF SendEnds
<1>27. CASE SwitchOff
  BY <1>27 DEF SwitchOff
<1>28. CASE ResetUserList
  BY <1>28 DEF ResetUserList
<1>29. CASE StopReceiver
  BY <1>29 DEF StopReceiver
<1>30. CASE JoinReceiver
  BY <1>30 DEF JoinReceiver
<1>31. CASE FreeQueues
  <2>1. /\ recvQ' \in Seq(Messages) /\ wire' \in Seq(Messages)
        /\ outQ' \in Seq(Sent)
    BY <1>31, EmptyTypes DEF FreeQueues
  <2>2. client' \in ClientStates /\ retry' \in 0 .. RetryWait
    BY <1>31 DEF FreeQueues
  <2>3. QED
    BY <1>31, <2>1, <2>2 DEF FreeQueues
<1>32. CASE Receive
  BY <1>32 DEF Receive
<1>33. CASE ReceiveEnd
  BY <1>33 DEF ReceiveEnd
<1>34. CASE ReceiverStops
  BY <1>34 DEF ReceiverStops
<1>35. CASE Close
  BY <1>35 DEF Close
<1>36. CASE ServerSends
  BY <1>36, UnsolicitedTypes DEF ServerSends
<1>37. CASE ServerCloses
  BY <1>37 DEF ServerCloses
<1>38. ASSUME NEW u \in Users, FetchQueue(u) PROVE TypeOK'
  BY <1>38 DEF FetchQueue
<1>39. ASSUME NEW u \in Users, PutMessage(u) PROVE TypeOK'
  BY <1>39 DEF PutMessage
<1>40. ASSUME NEW u \in Pingers, FindNick(u) PROVE TypeOK'
  BY <1>40 DEF FindNick
<1>41. ASSUME NEW u \in Pingers, PutPing(u) PROVE TypeOK'
  <2>1. ping' \in [Pingers -> {"idle", "ping", "fault"}]
    BY <1>41 DEF PutPing
  <2>2. outQ' \in Seq(Sent)
    <3>1. CASE sendQ = Null
      BY <1>41, <3>1 DEF PutPing
    <3>2. CASE sendQ # Null
      <4>1. outQ' = Append(outQ, "APP") /\ "APP" \in Sent
        BY <1>41, <3>2 DEF PutPing
      <4> HIDE DEF Sent
      <4>2. QED
        BY <4>1
    <3>3. QED
      BY <3>1, <3>2
  <2>3. QED
    BY <1>41, <2>1, <2>2 DEF PutPing
<1>42. CASE UNCHANGED vars
  BY <1>42 DEF vars
<1>43. QED
  BY <1>1, <1>2, <1>3, <1>4, <1>5, <1>6, <1>7, <1>8, <1>9, <1>10, <1>11,
     <1>12, <1>13, <1>14, <1>15, <1>16, <1>17, <1>18, <1>19, <1>20,
     <1>21, <1>22, <1>23, <1>24, <1>25, <1>26, <1>27, <1>28, <1>29,
     <1>30, <1>31, <1>32, <1>33, <1>34, <1>35, <1>36, <1>37, <1>38,
     <1>39, <1>40, <1>41, <1>42
  DEF Next, ClientThread, ProtoStep, ReceiverThread, UserThreads

\* Every step keeps the ownership of the queues.
LEMMA OwnershipStep == IInv /\ [Next]_vars => (QueuesInSession /\ ReceiverInSession /\ TornDown /\ PointersCurrent)'
<1> SUFFICES ASSUME IInv, [Next]_vars PROVE (QueuesInSession /\ ReceiverInSession /\ TornDown /\ PointersCurrent)'
  OBVIOUS
<1> USE DEF IInv, TypeOK, QueuesInSession, ReceiverInSession, TornDown,
  PointersCurrent, InSession, Queues, Null, clientVars, protoVars, queueVars, recvVars,
  userVars, netVars
<1>1. CASE QuitUnconnected
  BY <1>1 DEF QuitUnconnected
<1>2. CASE WaitRetry
  BY <1>2 DEF WaitRetry
<1>3. CASE Open
  BY <1>3 DEF Open
<1>4. CASE StartSession
  BY <1>4 DEF StartSession
<1>5. CASE Poll
  BY <1>5 DEF Poll
<1>6. CASE HandleWelcome
  BY <1>6 DEF HandleWelcome, Take
<1>7. CASE HandleCollision
  BY <1>7 DEF HandleCollision, Take
<1>8. CASE HandlePing
  BY <1>8 DEF HandlePing, Take
<1>9. CASE HandlePong
  BY <1>9 DEF HandlePong, Take
<1>10. CASE HandleOwnJoin
  BY <1>10 DEF HandleOwnJoin, Take
<1>11. CASE HandleJoin
  BY <1>11 DEF HandleJoin, Take
<1>12. CASE HandleLeave
  BY <1>12 DEF HandleLeave, Take
<1>13. CASE HandleOwnKick
  BY <1>13 DEF HandleOwnKick, Take
<1>14. CASE HandlePrivmsg
  BY <1>14 DEF HandlePrivmsg, Take
<1>15. CASE DrainEnds
  BY <1>15 DEF DrainEnds
<1>16. CASE SendNick
  BY <1>16 DEF SendNick, StepTo
<1>17. CASE SendUser
  BY <1>17 DEF SendUser, StepTo
<1>18. CASE RetryNick
  BY <1>18 DEF RetryNick, StepTo
<1>19. CASE SendJoin
  BY <1>19 DEF SendJoin, StepTo
<1>20. CASE SwitchOn
  BY <1>20 DEF SwitchOn, StepTo
<1>21. CASE SendPing
  BY <1>21 DEF SendPing, StepTo
<1>22. CASE KeepWaiting
  BY <1>22 DEF KeepWaiting
<1>23. CASE GiveUp
  BY <1>23 DEF GiveUp
<1>24. CASE Write
  BY <1>24 DEF Write, ServerTakes
<1>25. CASE WriteFails
  BY <1>25 DEF WriteFails
<1>26. CASE SendEnds
  BY <1>26 DEF SendEnds
<1>27. CASE SwitchOff
  BY <1>27 DEF SwitchOff
<1>28. CASE ResetUserList
  BY <1>28 DEF ResetUserList
<1>29. CASE StopReceiver
  BY <1>29 DEF StopReceiver
<1>30. CASE JoinReceiver
  BY <1>30 DEF JoinReceiver
<1>31. CASE FreeQueues
  BY <1>31 DEF FreeQueues
<1>32. CASE Receive
  BY <1>32 DEF Receive
<1>33. CASE ReceiveEnd
  BY <1>33 DEF ReceiveEnd
<1>34. CASE ReceiverStops
  BY <1>34 DEF ReceiverStops
<1>35. CASE Close
  BY <1>35 DEF Close
<1>36. CASE ServerSends
  BY <1>36 DEF ServerSends, Unsolicited
<1>37. CASE ServerCloses
  BY <1>37 DEF ServerCloses
<1>38. ASSUME NEW u \in Users, FetchQueue(u) PROVE (QueuesInSession /\ ReceiverInSession /\ TornDown /\ PointersCurrent)'
  BY <1>38 DEF FetchQueue
<1>39. ASSUME NEW u \in Users, PutMessage(u) PROVE (QueuesInSession /\ ReceiverInSession /\ TornDown /\ PointersCurrent)'
  BY <1>39 DEF PutMessage
<1>40. ASSUME NEW u \in Pingers, FindNick(u) PROVE (QueuesInSession /\ ReceiverInSession /\ TornDown /\ PointersCurrent)'
  BY <1>40 DEF FindNick
<1>41. ASSUME NEW u \in Pingers, PutPing(u) PROVE (QueuesInSession /\ ReceiverInSession /\ TornDown /\ PointersCurrent)'
  BY <1>41 DEF PutPing
<1>42. CASE UNCHANGED vars
  BY <1>42 DEF vars
<1>43. QED
  BY <1>1, <1>2, <1>3, <1>4, <1>5, <1>6, <1>7, <1>8, <1>9, <1>10, <1>11,
     <1>12, <1>13, <1>14, <1>15, <1>16, <1>17, <1>18, <1>19, <1>20,
     <1>21, <1>22, <1>23, <1>24, <1>25, <1>26, <1>27, <1>28, <1>29,
     <1>30, <1>31, <1>32, <1>33, <1>34, <1>35, <1>36, <1>37, <1>38,
     <1>39, <1>40, <1>41, <1>42
  DEF Next, ClientThread, ProtoStep, ReceiverThread, UserThreads

\* Spec keeps the inductive invariant.
THEOREM IInvHolds == Spec => []IInv
<1>1. IInv /\ [Next]_vars => IInv'
  BY TypeStep, OwnershipStep DEF IInv
<1>2. QED
  BY InitIInv, <1>1, PTL DEF Spec

\* Every variable of IrcClient keeps its type, whatever the threads do.
THEOREM TypeCorrect == Spec => []TypeOK
<1>1. IInv => TypeOK
  BY DEF IInv
<1>2. QED
  BY IInvHolds, <1>1, PTL

\* The pointer in IRCDDBApp::sendQ is NULL or the queue of the session that
\* runs, for any number of threads and any waits.
THEOREM PublishedQueueCorrect == Spec => []PublishedQueueIsLive
<1>1. IInv => PublishedQueueIsLive
  BY DEF IInv, TypeOK, PublishedQueueIsLive, QueuesInSession, TornDown,
         PointersCurrent, InSession, ClientStates
<1>2. QED
  BY IInvHolds, <1>1, PTL

\* No thread puts a message on a deleted send queue, given that a put is over
\* within the sleep(2) that precedes the deletion.
THEOREM NoUseAfterFreeCorrect == Spec => []NoUseAfterFree
<1>1. IInv => NoUseAfterFree
  BY DEF IInv, NoUseAfterFree, PointersCurrent, ReceiverInSession,
         QueuesInSession, InSession
<1>2. QED
  BY IInvHolds, <1>1, PTL

\* A session starts with the protocol in state 0, an empty user list, no
\* published queue and no receiver of the session before.
THEOREM SessionStartCorrect == Spec => []SessionStartsClean
<1>1. IInv => SessionStartsClean
  BY DEF IInv, SessionStartsClean, TornDown, ReceiverInSession,
         QueuesInSession, InSession
<1>2. QED
  BY IInvHolds, <1>1, PTL

\* A step that leaves the published pointer and the list of users alone, and
\* the thread on its side of case 6, is none for the application.
LEMMA Unseen ==
  ASSUME sendQ' = sendQ, names' = names,
         client' = client \/ {client, client'} \subseteq InSession \cup {"off"}
           \/ {client, client'} \subseteq {"connect", "start", "stop", "join", "free", "done"}
  PROVE  UNCHANGED <<connection, names>>
BY DEF connection, InSession

\* The session begins unpublished and is switched on once, in case 10.
LEMMA NotPublished ==
  ASSUME IInv, client \in {"start", "stop", "join", "free", "connect", "done", "reset"} \/ proto = 10
  PROVE  sendQ = Null
BY DEF IInv, TypeOK, TornDown, PointersCurrent, InSession, ProtoStates

\* The connection as the application takes it to be: for any server, users of
\* the queue and waits, every step of the client thread is one of Uplink's or
\* is not seen, and no other thread's is seen.
THEOREM UplinkCorrect == Spec => IsUplink
<1> USE DEF clientVars, protoVars, queueVars, recvVars, userVars, netVars
<1>1. Init => Seen!Init
  BY DEF Init, Seen!Init, connection, InSession, Null
<1>2. ASSUME IInv, [Next]_vars PROVE [Seen!Next]_<<connection, names>>
  <2>1. CASE QuitUnconnected \/ WaitRetry \/ Open
    BY <2>1, Unseen DEF QuitUnconnected, WaitRetry, Open
  <2>2. CASE StartSession
    <3>1. connection = "down" /\ connection' = "login" /\ names' = names
      BY <1>2, <2>2, NotPublished DEF StartSession, connection, InSession
    <3>2. QED
      BY <3>1 DEF Seen!Next, Seen!LogIn
  <2>3. CASE Poll \/ DrainEnds \/ SendEnds \/ GiveUp \/ KeepWaiting \/ Write \/ WriteFails
    BY <2>3, Unseen DEF Poll, DrainEnds, SendEnds, GiveUp, KeepWaiting, Write,
      WriteFails, InSession
  <2>4. CASE HandleWelcome \/ HandleCollision \/ HandlePing \/ HandlePong
             \/ HandleOwnJoin \/ HandleOwnKick \/ HandlePrivmsg
    BY <2>4, Unseen DEF HandleWelcome, HandleCollision, HandlePing, HandlePong,
      HandleOwnJoin, HandleOwnKick, HandlePrivmsg, Take, InSession
  <2>5. CASE HandleJoin \/ HandleLeave
    <3>1. PICK o \in Others :
            /\ names' = names \cup {o} \/ names' = names \ {o}
            /\ client = "drain" /\ client' = client /\ sendQ' = sendQ
      BY <2>5 DEF HandleJoin, HandleLeave, Take
    <3>2. connection \in {"login", "up"} /\ connection' = connection
      BY <3>1 DEF connection, InSession
    <3>3. QED
      BY <3>1, <3>2 DEF Seen!Next, Seen!Join, Seen!Leave, Seen!InSession
  <2>6. CASE SendNick \/ SendUser \/ RetryNick \/ SendJoin \/ SendPing
    BY <2>6, Unseen DEF SendNick, SendUser, RetryNick, SendJoin, SendPing, StepTo,
      InSession
  <2>7. CASE SwitchOn
    <3>1. /\ client = "step" /\ client' = "send" /\ proto = 10
          /\ sendQ' = queue /\ names' = names
      BY <2>7 DEF SwitchOn, StepTo
    <3>2. sendQ = Null /\ queue # Null
      BY <1>2, <3>1, NotPublished DEF IInv, TypeOK, Queues, Null
    <3>3. connection = "login" /\ connection' = "up"
      BY <3>1, <3>2 DEF connection, InSession
    <3>4. QED
      BY <3>1, <3>3 DEF Seen!Next, Seen!SwitchOn
  <2>8. CASE SwitchOff
    <3>1. connection \in {"login", "up"} /\ connection' = "reset" /\ names' = names
      BY <2>8 DEF SwitchOff, connection, InSession
    <3>2. QED
      BY <3>1 DEF Seen!Next, Seen!SwitchOff
  <2>9. CASE ResetUserList
    <3>1. connection = "reset" /\ connection' = "down" /\ names' = {}
      BY <1>2, <2>9, NotPublished DEF ResetUserList, connection, InSession
    <3>2. QED
      BY <3>1 DEF Seen!Next, Seen!Reset
  <2>10. CASE StopReceiver \/ JoinReceiver \/ FreeQueues
    BY <2>10, Unseen DEF StopReceiver, JoinReceiver, FreeQueues
  <2>11. CASE ReceiverThread \/ Close \/ ServerSends \/ ServerCloses
    BY <2>11, Unseen DEF ReceiverThread, Receive, ReceiveEnd, ReceiverStops, Close,
      ServerSends, ServerCloses
  <2>12. CASE UserThreads
    BY <2>12, Unseen DEF UserThreads, FetchQueue, PutMessage, FindNick, PutPing
  <2>13. CASE UNCHANGED vars
    BY <2>13, Unseen DEF vars
  <2>14. QED
    BY <1>2, <2>1, <2>2, <2>3, <2>4, <2>5, <2>6, <2>7, <2>8, <2>9, <2>10, <2>11,
       <2>12, <2>13 DEF Next, ClientThread, ProtoStep
<1>3. QED
  BY <1>1, <1>2, IInvHolds, PTL DEF Spec, IsUplink, Seen!Spec

\* A step of another thread is none of the client's.
LEMMA OthersApart ==
  ASSUME ReceiverThread \/ UserThreads \/ ServerSends \/ ServerCloses \/ UNCHANGED vars
  PROVE  UNCHANGED <<client, terminate, proto, timer>>
BY DEF clientVars, protoVars, ReceiverThread, Receive, ReceiveEnd, ReceiverStops,
  UserThreads, FetchQueue, PutMessage, FindNick, PutPing, ServerSends, ServerCloses, vars

\* What each step of the client thread does to its place, the close and the
\* protocol's wait.
LEMMA ClientMoves ==
  ASSUME IInv, ClientThread, terminate \/ (proto # 0 /\ proto' = proto)
  PROVE  /\ terminate' = terminate
         /\ terminate => client' = client \/ Ahead(client') < Ahead(client)
         /\ proto # 0 /\ proto' = proto =>
              /\ timer' <= timer
              /\ client = "poll" /\ client' = "drain" => timer = 0 \/ timer' < timer
              /\ client = "step" /\ client' = "send" => timer > 0
<1> USE DEF IInv, TypeOK, TornDown, clientVars, protoVars, Ahead, Dec
<1>1. CASE QuitUnconnected \/ WaitRetry \/ Open \/ StartSession \/ Poll
  BY <1>1 DEF QuitUnconnected, WaitRetry, Open, StartSession, Poll
<1>2. CASE \/ HandleWelcome \/ HandleCollision \/ HandlePing \/ HandlePong
           \/ HandleOwnJoin \/ HandleJoin \/ HandleLeave \/ HandleOwnKick
           \/ HandlePrivmsg
  <2>1. client = "drain" /\ terminate' = terminate
    BY <1>2 DEF HandleWelcome, HandleCollision, HandlePing, HandlePong, HandleOwnJoin,
      HandleJoin, HandleLeave, HandleOwnKick, HandlePrivmsg, Take
  <2>2. client' = client \/ client' = "off"
    BY <1>2 DEF HandleWelcome, HandleCollision, HandlePing, HandlePong, HandleOwnJoin,
      HandleJoin, HandleLeave, HandleOwnKick, HandlePrivmsg, Take
  <2>3. proto' = proto => timer' = timer
    <3>1. CASE HandleCollision
      BY <3>1 DEF HandleCollision
    <3>2. CASE HandlePong
      BY <3>2 DEF HandlePong
    <3>3. CASE HandleWelcome \/ HandlePing \/ HandleOwnJoin \/ HandleJoin \/ HandleLeave
               \/ HandleOwnKick \/ HandlePrivmsg
      BY <3>3 DEF HandleWelcome, HandlePing, HandleOwnJoin, HandleJoin, HandleLeave,
        HandleOwnKick, HandlePrivmsg
    <3> QED BY <1>2, <3>1, <3>2, <3>3
  <2> QED BY <2>1, <2>2, <2>3
<1>3. CASE ProtoStep
  BY <1>3 DEF ProtoStep, SendNick, SendUser, RetryNick, SendJoin, SwitchOn, SendPing,
    KeepWaiting, GiveUp, StepTo
<1>4. CASE DrainEnds \/ Write \/ WriteFails \/ SendEnds
  BY <1>4 DEF DrainEnds, Write, WriteFails, SendEnds
<1>5. CASE SwitchOff \/ ResetUserList \/ StopReceiver \/ JoinReceiver \/ FreeQueues
  BY <1>5 DEF SwitchOff, ResetUserList, StopReceiver, JoinReceiver, FreeQueues
<1> QED BY <1>1, <1>2, <1>3, <1>4, <1>5 DEF ClientThread

\* CIRCDDB::close leads down: what CloseEndsThreads needs besides fairness.
THEOREM ClosingCorrect == Spec => ClosingGoesDown
<1>1. ASSUME IInv, [Next]_vars
      PROVE  [terminate => terminate' /\ (client' = client \/ Ahead(client') < Ahead(client))]_vars
  <2> SUFFICES ASSUME terminate
               PROVE  terminate' /\ (client' = client \/ Ahead(client') < Ahead(client))
    OBVIOUS
  <2>1. CASE ClientThread BY <1>1, <2>1, ClientMoves
  <2>2. CASE ReceiverThread \/ UserThreads \/ ServerSends \/ ServerCloses \/ UNCHANGED vars
    BY <2>2, OthersApart
  <2> QED BY <1>1, <2>1, <2>2 DEF Next, Close
<1> QED BY <1>1, IInvHolds, PTL DEF Spec, ClosingGoesDown

\* No message renews a wait of the login or of the ping: what NoSilentStall
\* needs besides fairness.
THEOREM WaitsCorrect == Spec => WaitsRunOut
<1>1. ASSUME IInv, [Next]_vars
      PROVE  [proto # 0 /\ proto' = proto =>
                /\ timer' <= timer
                /\ client = "poll" /\ client' = "drain" => timer = 0 \/ timer' < timer
                /\ client = "step" /\ client' = "send" => timer > 0]_vars
  <2> SUFFICES ASSUME proto # 0, proto' = proto
               PROVE  /\ timer' <= timer
                      /\ client = "poll" /\ client' = "drain" => timer = 0 \/ timer' < timer
                      /\ client = "step" /\ client' = "send" => timer > 0
    OBVIOUS
  <2>1. CASE ClientThread BY <1>1, <2>1, ClientMoves
  <2>2. CASE ReceiverThread \/ UserThreads \/ ServerSends \/ ServerCloses \/ UNCHANGED vars
    BY <1>1, <2>2, OthersApart DEF IInv, TypeOK
  <2>3. CASE Close
    BY <1>1, <2>3 DEF Close, protoVars, IInv, TypeOK
  <2> QED BY <1>1, <2>1, <2>2, <2>3 DEF Next
<1> QED BY <1>1, IInvHolds, PTL DEF Spec, WaitsRunOut
=============================================================================
