-------------------------- MODULE IrcDDBApp_proof --------------------------
(***************************************************************************)
(* Proofs about IrcDDBApp: the two threads that write `state` and          *)
(* initReady one statement at a time, with no lock, never leave the cache  *)
(* open to updates outside the operational state, and never address a      *)
(* server user of an earlier connection, for any set of server users, any  *)
(* records and any timers.                                                 *)
(***************************************************************************)
EXTENDS IrcDDBApp, TLAPS

\* Init satisfies the inductive invariant.
LEMMA InitIInv == Init => IInv
<1> SUFFICES ASSUME Init PROVE IInv
  OBVIOUS
<1>1. TypeOK
  <2>1. replyQ \in Seq({"PING", "USER"})
    BY DEF Init
  <2>2. initReady \in BOOLEAN /\ announced \in BOOLEAN
    BY DEF Init
  <2>3. QED
    BY <2>1, <2>2, BoundAssumption, WaitAssumption
    DEF Init, TypeOK, States, Places, None, Idle, Ticked, Stopped, Out, GoOn, NumberOfTables,
        U!Init, U!TypeOK
<1>2. ReadySeen /\ ChoiceSeen /\ WorkerPlace /\ CallbackPlace /\ LoginSeen
  BY DEF Init, ReadySeen, ChoiceSeen, WorkerPlace, CallbackPlace, LoginSeen, Up,
         Idle, Out, Timed, Opening, Opened, Choosing, Counted, AfterPut, U!Init
<1>3. QED
  BY <1>1, <1>2 DEF IInv

\* Every step keeps it; one step per action.
LEMMA StepIInv == IInv /\ [Next]_vars => IInv'
<1> SUFFICES ASSUME IInv, [Next]_vars PROVE IInv'
  OBVIOUS
<1> USE ServerAssumption, WaitAssumption, BoundAssumption
<1> USE DEF IInv, TypeOK, States, Places, None, Idle, Ticked, Joined, Choosing, Chosen,
  Counted, AfterPut, Opening, Opened, Closing, Stopped, Out, Cleared, Chooses, Timed,
  GoOn, NumberOfTables, ListTable, Up, Dec, At, Body, FromServer, Aside, workerVars,
  serverVars, U!TypeOK, U!InSession
<1>1. CASE Tick
  <2>1. TypeOK'
    BY <1>1 DEF Tick, WorkerPlace
  <2>2. (ReadySeen /\ ChoiceSeen /\ WorkerPlace)'
    BY <1>1 DEF Tick, ReadySeen, ChoiceSeen, WorkerPlace, CallbackPlace, LoginSeen
  <2>3. (CallbackPlace /\ LoginSeen)'
    BY <1>1 DEF Tick, ReadySeen, ChoiceSeen, WorkerPlace, CallbackPlace, LoginSeen
  <2>4. QED
    BY <2>1, <2>2, <2>3
<1>2. CASE Select
  <2>1. TypeOK'
    BY <1>2 DEF Select, WorkerPlace
  <2>2. (ReadySeen /\ ChoiceSeen /\ WorkerPlace)'
    BY <1>2 DEF Select, ReadySeen, ChoiceSeen, WorkerPlace, CallbackPlace, LoginSeen
  <2>3. (CallbackPlace /\ LoginSeen)'
    BY <1>2 DEF Select, ReadySeen, ChoiceSeen, WorkerPlace, CallbackPlace, LoginSeen
  <2>4. QED
    BY <2>1, <2>2, <2>3
<1>3. CASE WaitNetwork
  <2>1. TypeOK'
    BY <1>3 DEF WaitNetwork, WorkerPlace
  <2>2. (ReadySeen /\ ChoiceSeen /\ WorkerPlace)'
    BY <1>3 DEF WaitNetwork, ReadySeen, ChoiceSeen, WorkerPlace, CallbackPlace, LoginSeen
  <2>3. (CallbackPlace /\ LoginSeen)'
    BY <1>3 DEF WaitNetwork, ReadySeen, ChoiceSeen, WorkerPlace, CallbackPlace, LoginSeen
  <2>4. QED
    BY <2>1, <2>2, <2>3
<1>4. CASE Connect
  <2>1. TypeOK'
    BY <1>4 DEF Connect, WorkerPlace
  <2>2. (ReadySeen /\ ChoiceSeen /\ WorkerPlace)'
    BY <1>4 DEF Connect, ReadySeen, ChoiceSeen, WorkerPlace, CallbackPlace, LoginSeen
  <2>3. (CallbackPlace /\ LoginSeen)'
    BY <1>4 DEF Connect, ReadySeen, ChoiceSeen, WorkerPlace, CallbackPlace, LoginSeen
  <2>4. QED
    BY <2>1, <2>2, <2>3
<1>5. CASE ConnectTimer
  <2>1. TypeOK'
    BY <1>5 DEF ConnectTimer, WorkerPlace
  <2>2. (ReadySeen /\ ChoiceSeen /\ WorkerPlace)'
    BY <1>5 DEF ConnectTimer, ReadySeen, ChoiceSeen, WorkerPlace, CallbackPlace, LoginSeen
  <2>3. (CallbackPlace /\ LoginSeen)'
    BY <1>5 DEF ConnectTimer, ReadySeen, ChoiceSeen, WorkerPlace, CallbackPlace, LoginSeen
  <2>4. QED
    BY <2>1, <2>2, <2>3
<1>6. CASE Lost
  <2>1. TypeOK'
    BY <1>6 DEF Lost, WorkerPlace
  <2>2. (ReadySeen /\ ChoiceSeen /\ WorkerPlace)'
    BY <1>6 DEF Lost, ReadySeen, ChoiceSeen, WorkerPlace, CallbackPlace, LoginSeen
  <2>3. (CallbackPlace /\ LoginSeen)'
    BY <1>6 DEF Lost, ReadySeen, ChoiceSeen, WorkerPlace, CallbackPlace, LoginSeen
  <2>4. QED
    BY <2>1, <2>2, <2>3
<1>7. CASE LookForServer
  <2>1. TypeOK'
    BY <1>7 DEF LookForServer, WorkerPlace
  <2>2. (ReadySeen /\ ChoiceSeen /\ WorkerPlace)'
    BY <1>7 DEF LookForServer, ReadySeen, ChoiceSeen, WorkerPlace, CallbackPlace, LoginSeen
  <2>3. (CallbackPlace /\ LoginSeen)'
    BY <1>7 DEF LookForServer, ReadySeen, ChoiceSeen, WorkerPlace, CallbackPlace, LoginSeen
  <2>4. QED
    BY <2>1, <2>2, <2>3
<1>8. CASE ChooseServer
  <2>0. announced' \in BOOLEAN
    BY <1>8 DEF ChooseServer
  <2>1. TypeOK'
    BY <1>8, <2>0 DEF ChooseServer, WorkerPlace
  <2>2. (ReadySeen /\ ChoiceSeen /\ WorkerPlace)'
    BY <1>8 DEF ChooseServer, ReadySeen, ChoiceSeen, WorkerPlace, CallbackPlace, LoginSeen
  <2>3. (CallbackPlace /\ LoginSeen)'
    BY <1>8 DEF ChooseServer, ReadySeen, ChoiceSeen, WorkerPlace, CallbackPlace, LoginSeen
  <2>4. QED
    BY <2>1, <2>2, <2>3
<1>9. CASE GetTables
  <2>1. TypeOK'
    BY <1>9 DEF GetTables, WorkerPlace
  <2>2. (ReadySeen /\ ChoiceSeen /\ WorkerPlace)'
    BY <1>9 DEF GetTables, ReadySeen, ChoiceSeen, WorkerPlace, CallbackPlace, LoginSeen
  <2>3. (CallbackPlace /\ LoginSeen)'
    BY <1>9 DEF GetTables, ReadySeen, ChoiceSeen, WorkerPlace, CallbackPlace, LoginSeen
  <2>4. QED
    BY <2>1, <2>2, <2>3
<1>10. CASE NoServer
  <2>1. TypeOK'
    BY <1>10 DEF NoServer, WorkerPlace
  <2>2. (ReadySeen /\ ChoiceSeen /\ WorkerPlace)'
    BY <1>10 DEF NoServer, ReadySeen, ChoiceSeen, WorkerPlace, CallbackPlace, LoginSeen
  <2>3. (CallbackPlace /\ LoginSeen)'
    BY <1>10 DEF NoServer, ReadySeen, ChoiceSeen, WorkerPlace, CallbackPlace, LoginSeen
  <2>4. QED
    BY <2>1, <2>2, <2>3
<1>11. CASE NextTable
  <2>1. TypeOK'
    <3>1. table \in 0 .. NumberOfTables
      BY <1>11 DEF NextTable, WorkerPlace
    <3>2. /\ UNCHANGED <<net, present, names, current, initReady, info, announced,
                        told, cached, replyQ, budget, callback, timer, pending>>
          /\ state' \in States /\ seen' \in States \cup Places
      BY <1>11 DEF NextTable
    <3>3. table' = table - 1
      BY <1>11 DEF NextTable
    <3>4. QED
      BY <3>1, <3>2, <3>3
  <2>2. (ReadySeen /\ ChoiceSeen /\ WorkerPlace)'
    BY <1>11 DEF NextTable, ReadySeen, ChoiceSeen, WorkerPlace, CallbackPlace, LoginSeen
  <2>3. (CallbackPlace /\ LoginSeen)'
    BY <1>11 DEF NextTable, ReadySeen, ChoiceSeen, WorkerPlace, CallbackPlace, LoginSeen
  <2>4. QED
    BY <2>1, <2>2, <2>3
<1>12. CASE TableTimer
  <2>1. TypeOK'
    BY <1>12 DEF TableTimer, WorkerPlace
  <2>2. (ReadySeen /\ ChoiceSeen /\ WorkerPlace)'
    BY <1>12 DEF TableTimer, ReadySeen, ChoiceSeen, WorkerPlace, CallbackPlace, LoginSeen
  <2>3. (CallbackPlace /\ LoginSeen)'
    BY <1>12 DEF TableTimer, ReadySeen, ChoiceSeen, WorkerPlace, CallbackPlace, LoginSeen
  <2>4. QED
    BY <2>1, <2>2, <2>3
<1>13. CASE SkipTable
  <2>1. TypeOK'
    BY <1>13 DEF SkipTable, WorkerPlace
  <2>2. (ReadySeen /\ ChoiceSeen /\ WorkerPlace)'
    BY <1>13 DEF SkipTable, ReadySeen, ChoiceSeen, WorkerPlace, CallbackPlace, LoginSeen
  <2>3. (CallbackPlace /\ LoginSeen)'
    BY <1>13 DEF SkipTable, ReadySeen, ChoiceSeen, WorkerPlace, CallbackPlace, LoginSeen
  <2>4. QED
    BY <2>1, <2>2, <2>3
<1>14. CASE SendList
  <2>1. TypeOK'
    BY <1>14 DEF SendList, WorkerPlace
  <2>2. (ReadySeen /\ ChoiceSeen /\ WorkerPlace)'
    BY <1>14 DEF SendList, ReadySeen, ChoiceSeen, WorkerPlace, CallbackPlace, LoginSeen
  <2>3. (CallbackPlace /\ LoginSeen)'
    BY <1>14 DEF SendList, ReadySeen, ChoiceSeen, WorkerPlace, CallbackPlace, LoginSeen
  <2>4. QED
    BY <2>1, <2>2, <2>3
<1>15. CASE AwaitList
  <2>1. TypeOK'
    BY <1>15 DEF AwaitList, WorkerPlace
  <2>2. (ReadySeen /\ ChoiceSeen /\ WorkerPlace)'
    BY <1>15 DEF AwaitList, ReadySeen, ChoiceSeen, WorkerPlace, CallbackPlace, LoginSeen
  <2>3. (CallbackPlace /\ LoginSeen)'
    BY <1>15 DEF AwaitList, ReadySeen, ChoiceSeen, WorkerPlace, CallbackPlace, LoginSeen
  <2>4. QED
    BY <2>1, <2>2, <2>3
<1>16. CASE ListTimer
  <2>1. TypeOK'
    BY <1>16 DEF ListTimer, WorkerPlace
  <2>2. (ReadySeen /\ ChoiceSeen /\ WorkerPlace)'
    BY <1>16 DEF ListTimer, ReadySeen, ChoiceSeen, WorkerPlace, CallbackPlace, LoginSeen
  <2>3. (CallbackPlace /\ LoginSeen)'
    BY <1>16 DEF ListTimer, ReadySeen, ChoiceSeen, WorkerPlace, CallbackPlace, LoginSeen
  <2>4. QED
    BY <2>1, <2>2, <2>3
<1>17. CASE Ready
  <2>1. TypeOK'
    BY <1>17 DEF Ready, WorkerPlace
  <2>2. (ReadySeen /\ ChoiceSeen /\ WorkerPlace)'
    BY <1>17 DEF Ready, ReadySeen, ChoiceSeen, WorkerPlace, CallbackPlace, LoginSeen
  <2>3. (CallbackPlace /\ LoginSeen)'
    BY <1>17 DEF Ready, ReadySeen, ChoiceSeen, WorkerPlace, CallbackPlace, LoginSeen
  <2>4. QED
    BY <2>1, <2>2, <2>3
<1>18. CASE Open
  <2>0. initReady' \in BOOLEAN
    BY <1>18 DEF Open
  <2>1. CASE seen = Opening
    <3>1. TypeOK'
      <4>1. /\ UNCHANGED <<net, present, names, current, table, info, told, cached, replyQ, budget, callback, announced, pending>>
           /\ state' \in States /\ seen' \in Places /\ timer' \in Nat
        BY <1>18, <2>1 DEF Open
      <4>2. QED
        BY <2>0, <4>1
    <3>2. (ReadySeen /\ ChoiceSeen /\ WorkerPlace /\ CallbackPlace /\ LoginSeen)'
      BY <1>18, <2>1 DEF Open, ReadySeen, ChoiceSeen, WorkerPlace, CallbackPlace, LoginSeen
    <3>3. QED
      BY <3>1, <3>2
  <2>2. CASE seen = Opened
    <3>1. TypeOK'
      <4>1. /\ UNCHANGED <<net, present, names, current, table, info, told, cached, replyQ, budget, callback, announced, pending>>
           /\ state' \in States /\ seen' \in Places /\ timer' \in Nat
        BY <1>18, <2>2 DEF Open
      <4>2. QED
        BY <2>0, <4>1
    <3>2. (ReadySeen /\ ChoiceSeen /\ WorkerPlace /\ CallbackPlace /\ LoginSeen)'
      BY <1>18, <2>2 DEF Open, ReadySeen, ChoiceSeen, WorkerPlace, CallbackPlace, LoginSeen
    <3>3. QED
      BY <3>1, <3>2
  <2>3. QED
    BY <1>18, <2>1, <2>2 DEF Open
<1>19. CASE Standby
  <2>1. TypeOK'
    BY <1>19 DEF Standby, WorkerPlace
  <2>2. (ReadySeen /\ ChoiceSeen /\ WorkerPlace)'
    BY <1>19 DEF Standby, ReadySeen, ChoiceSeen, WorkerPlace, CallbackPlace, LoginSeen
  <2>3. (CallbackPlace /\ LoginSeen)'
    BY <1>19 DEF Standby, ReadySeen, ChoiceSeen, WorkerPlace, CallbackPlace, LoginSeen
  <2>4. QED
    BY <2>1, <2>2, <2>3
<1>20. CASE Disconnect
  <2>0. initReady' \in BOOLEAN
    BY <1>20 DEF Disconnect
  <2>1. CASE seen = 10
    <3>1. TypeOK'
      <4>1. /\ UNCHANGED <<net, present, names, current, table, info, told, cached, replyQ, budget, callback, announced, pending>>
           /\ state' \in States /\ seen' \in Places /\ timer' \in Nat
        BY <1>20, <2>1 DEF Disconnect
      <4>2. QED
        BY <2>0, <4>1
    <3>2. (ReadySeen /\ ChoiceSeen /\ WorkerPlace /\ CallbackPlace /\ LoginSeen)'
      BY <1>20, <2>1 DEF Disconnect, ReadySeen, ChoiceSeen, WorkerPlace, CallbackPlace, LoginSeen
    <3>3. QED
      BY <3>1, <3>2
  <2>2. CASE seen = Closing
    <3>1. TypeOK'
      <4>1. /\ UNCHANGED <<net, present, names, current, table, info, told, cached, replyQ, budget, callback, announced, pending>>
           /\ state' \in States /\ seen' \in Places /\ timer' \in Nat
        BY <1>20, <2>2 DEF Disconnect
      <4>2. QED
        BY <2>0, <4>1
    <3>2. (ReadySeen /\ ChoiceSeen /\ WorkerPlace /\ CallbackPlace /\ LoginSeen)'
      BY <1>20, <2>2 DEF Disconnect, ReadySeen, ChoiceSeen, WorkerPlace, CallbackPlace, LoginSeen
    <3>3. QED
      BY <3>1, <3>2
  <2>3. CASE seen = Stopped
    <3>1. TypeOK'
      <4>1. /\ UNCHANGED <<net, present, names, current, table, info, told, cached, replyQ, budget, callback, announced, pending>>
           /\ state' \in States /\ seen' \in Places /\ timer' \in Nat
        BY <1>20, <2>3 DEF Disconnect
      <4>2. QED
        BY <2>0, <4>1
    <3>2. (ReadySeen /\ ChoiceSeen /\ WorkerPlace /\ CallbackPlace /\ LoginSeen)'
      BY <1>20, <2>3 DEF Disconnect, ReadySeen, ChoiceSeen, WorkerPlace, CallbackPlace, LoginSeen
    <3>3. QED
      BY <3>1, <3>2
  <2>4. QED
    BY <1>20, <2>1, <2>2, <2>3 DEF Disconnect
<1>21. CASE LogIn
  <2>1. TypeOK'
    BY <1>21 DEF LogIn, U!LogIn, WorkerPlace
  <2>2. (ReadySeen /\ ChoiceSeen /\ WorkerPlace)'
    BY <1>21 DEF LogIn, U!LogIn, ReadySeen, ChoiceSeen, WorkerPlace, CallbackPlace, LoginSeen
  <2>3. (CallbackPlace /\ LoginSeen)'
    BY <1>21 DEF LogIn, U!LogIn, ReadySeen, ChoiceSeen, WorkerPlace, CallbackPlace, LoginSeen
  <2>4. QED
    BY <2>1, <2>2, <2>3
<1>22. CASE NetUp
  <2>1. TypeOK'
    BY <1>22 DEF NetUp, U!SwitchOn, WorkerPlace
  <2>2. (ReadySeen /\ ChoiceSeen /\ WorkerPlace)'
    BY <1>22 DEF NetUp, U!SwitchOn, ReadySeen, ChoiceSeen, WorkerPlace, CallbackPlace, LoginSeen
  <2>3. (CallbackPlace /\ LoginSeen)'
    BY <1>22 DEF NetUp, U!SwitchOn, ReadySeen, ChoiceSeen, WorkerPlace, CallbackPlace, LoginSeen
  <2>4. QED
    BY <2>1, <2>2, <2>3
<1>23. CASE NetDown
  <2>1. TypeOK'
    BY <1>23 DEF NetDown, U!SwitchOff, WorkerPlace
  <2>2. (ReadySeen /\ ChoiceSeen /\ WorkerPlace)'
    BY <1>23 DEF NetDown, U!SwitchOff, ReadySeen, ChoiceSeen, WorkerPlace, CallbackPlace, LoginSeen
  <2>3. (CallbackPlace /\ LoginSeen)'
    BY <1>23 DEF NetDown, U!SwitchOff, ReadySeen, ChoiceSeen, WorkerPlace, CallbackPlace, LoginSeen
  <2>4. QED
    BY <2>1, <2>2, <2>3
<1>24. CASE ListReset
  <2>1. TypeOK'
    BY <1>24 DEF ListReset, U!Reset, WorkerPlace
  <2>2. (ReadySeen /\ ChoiceSeen /\ WorkerPlace)'
    BY <1>24 DEF ListReset, U!Reset, ReadySeen, ChoiceSeen, WorkerPlace, CallbackPlace, LoginSeen
  <2>3. (CallbackPlace /\ LoginSeen)'
    BY <1>24 DEF ListReset, U!Reset, ReadySeen, ChoiceSeen, WorkerPlace, CallbackPlace, LoginSeen
  <2>4. QED
    BY <2>1, <2>2, <2>3
<1>25. CASE Leaving
  <2>0. initReady' \in BOOLEAN
    BY <1>25 DEF Leaving
  <2>1. TypeOK'
    BY <1>25, <2>0 DEF Leaving, WorkerPlace
  <2>2. (ReadySeen /\ ChoiceSeen /\ WorkerPlace)'
    BY <1>25 DEF Leaving, ReadySeen, ChoiceSeen, WorkerPlace, CallbackPlace, LoginSeen
  <2>3. (CallbackPlace /\ LoginSeen)'
    BY <1>25 DEF Leaving, ReadySeen, ChoiceSeen, WorkerPlace, CallbackPlace, LoginSeen
  <2>4. QED
    BY <2>1, <2>2, <2>3
<1>26. CASE ListEnd
  <2>1. TypeOK'
    BY <1>26 DEF ListEnd, ListEnds, WorkerPlace
  <2>2. (ReadySeen /\ ChoiceSeen /\ WorkerPlace)'
    BY <1>26 DEF ListEnd, ListEnds, ReadySeen, ChoiceSeen, WorkerPlace, CallbackPlace, LoginSeen
  <2>3. (CallbackPlace /\ LoginSeen)'
    BY <1>26 DEF ListEnd, ListEnds, ReadySeen, ChoiceSeen, WorkerPlace, CallbackPlace, LoginSeen
  <2>4. QED
    BY <2>1, <2>2, <2>3
<1>27. CASE ListMore
  <2>1. TypeOK'
    BY <1>27 DEF ListMore, ListEnds, WorkerPlace
  <2>2. (ReadySeen /\ ChoiceSeen /\ WorkerPlace)'
    BY <1>27 DEF ListMore, ListEnds, ReadySeen, ChoiceSeen, WorkerPlace, CallbackPlace, LoginSeen
  <2>3. (CallbackPlace /\ LoginSeen)'
    BY <1>27 DEF ListMore, ListEnds, ReadySeen, ChoiceSeen, WorkerPlace, CallbackPlace, LoginSeen
  <2>4. QED
    BY <2>1, <2>2, <2>3
<1>28. CASE ListGoesOn
  <2>1. TypeOK'
    BY <1>28 DEF ListGoesOn, WorkerPlace
  <2>2. (ReadySeen /\ ChoiceSeen /\ WorkerPlace)'
    BY <1>28 DEF ListGoesOn, ReadySeen, ChoiceSeen, WorkerPlace, CallbackPlace, LoginSeen
  <2>3. (CallbackPlace /\ LoginSeen)'
    BY <1>28 DEF ListGoesOn, ReadySeen, ChoiceSeen, WorkerPlace, CallbackPlace, LoginSeen
  <2>4. QED
    BY <2>1, <2>2, <2>3
<1>29. CASE PingArrives
  <2>1. TypeOK'
    BY <1>29 DEF PingArrives, WorkerPlace
  <2>2. (ReadySeen /\ ChoiceSeen /\ WorkerPlace)'
    BY <1>29 DEF PingArrives, ReadySeen, ChoiceSeen, WorkerPlace, CallbackPlace, LoginSeen
  <2>3. (CallbackPlace /\ LoginSeen)'
    BY <1>29 DEF PingArrives, ReadySeen, ChoiceSeen, WorkerPlace, CallbackPlace, LoginSeen
  <2>4. QED
    BY <2>1, <2>2, <2>3
<1>30. CASE UserNotFound
  <2>1. TypeOK'
    BY <1>30 DEF UserNotFound, WorkerPlace
  <2>2. (ReadySeen /\ ChoiceSeen /\ WorkerPlace)'
    BY <1>30 DEF UserNotFound, ReadySeen, ChoiceSeen, WorkerPlace, CallbackPlace, LoginSeen
  <2>3. (CallbackPlace /\ LoginSeen)'
    BY <1>30 DEF UserNotFound, ReadySeen, ChoiceSeen, WorkerPlace, CallbackPlace, LoginSeen
  <2>4. QED
    BY <2>1, <2>2, <2>3
<1>31. CASE AnswerPing
  <2>1. TypeOK'
    BY <1>31 DEF AnswerPing, WorkerPlace
  <2>2. (ReadySeen /\ ChoiceSeen /\ WorkerPlace)'
    BY <1>31 DEF AnswerPing, ReadySeen, ChoiceSeen, WorkerPlace, CallbackPlace, LoginSeen
  <2>3. (CallbackPlace /\ LoginSeen)'
    BY <1>31 DEF AnswerPing, ReadySeen, ChoiceSeen, WorkerPlace, CallbackPlace, LoginSeen
  <2>4. QED
    BY <2>1, <2>2, <2>3
<1>32. ASSUME NEW s \in Servers, UserJoin(s) PROVE IInv'
  <2>1. TypeOK'
    BY <1>32 DEF UserJoin, U!Join, WorkerPlace
  <2>2. (ReadySeen /\ ChoiceSeen /\ WorkerPlace)'
    BY <1>32 DEF UserJoin, U!Join, ReadySeen, ChoiceSeen, WorkerPlace, CallbackPlace, LoginSeen
  <2>3. (CallbackPlace /\ LoginSeen)'
    BY <1>32 DEF UserJoin, U!Join, ReadySeen, ChoiceSeen, WorkerPlace, CallbackPlace, LoginSeen
  <2>4. QED
    BY <2>1, <2>2, <2>3
<1>33. ASSUME NEW s \in Servers, UserLeave(s) PROVE IInv'
  <2>1. TypeOK'
    BY <1>33 DEF UserLeave, U!Leave, WorkerPlace
  <2>2. (ReadySeen /\ ChoiceSeen /\ WorkerPlace)'
    BY <1>33 DEF UserLeave, U!Leave, ReadySeen, ChoiceSeen, WorkerPlace, CallbackPlace, LoginSeen
  <2>3. (CallbackPlace /\ LoginSeen)'
    BY <1>33 DEF UserLeave, U!Leave, ReadySeen, ChoiceSeen, WorkerPlace, CallbackPlace, LoginSeen
  <2>4. QED
    BY <2>1, <2>2, <2>3
<1>34. ASSUME NEW r \in Rptrs, ListRecord(r) PROVE IInv'
  <2>1. TypeOK'
    BY <1>34 DEF ListRecord, WorkerPlace
  <2>2. (ReadySeen /\ ChoiceSeen /\ WorkerPlace)'
    BY <1>34 DEF ListRecord, ReadySeen, ChoiceSeen, WorkerPlace, CallbackPlace, LoginSeen
  <2>3. (CallbackPlace /\ LoginSeen)'
    BY <1>34 DEF ListRecord, ReadySeen, ChoiceSeen, WorkerPlace, CallbackPlace, LoginSeen
  <2>4. QED
    BY <2>1, <2>2, <2>3
<1>35. ASSUME NEW r \in Rptrs, ChannelRecord(r) PROVE IInv'
  <2>1. TypeOK'
    BY <1>35 DEF ChannelRecord, WorkerPlace
  <2>2. (ReadySeen /\ ChoiceSeen /\ WorkerPlace)'
    BY <1>35 DEF ChannelRecord, ReadySeen, ChoiceSeen, WorkerPlace, CallbackPlace, LoginSeen
  <2>3. (CallbackPlace /\ LoginSeen)'
    BY <1>35 DEF ChannelRecord, ReadySeen, ChoiceSeen, WorkerPlace, CallbackPlace, LoginSeen
  <2>4. QED
    BY <2>1, <2>2, <2>3
<1>36. CASE UNCHANGED vars
  <2>1. TypeOK'
    BY <1>36 DEF vars, WorkerPlace
  <2>2. (ReadySeen /\ ChoiceSeen /\ WorkerPlace)'
    BY <1>36 DEF vars, ReadySeen, ChoiceSeen, WorkerPlace, CallbackPlace, LoginSeen
  <2>3. (CallbackPlace /\ LoginSeen)'
    BY <1>36 DEF vars, ReadySeen, ChoiceSeen, WorkerPlace, CallbackPlace, LoginSeen
  <2>4. QED
    BY <2>1, <2>2, <2>3
<1>37. QED
  BY <1>1, <1>2, <1>3, <1>4, <1>5, <1>6, <1>7, <1>8, <1>9, <1>10, <1>11,
     <1>12, <1>13, <1>14, <1>15, <1>16, <1>17, <1>18, <1>19, <1>20, <1>21,
     <1>22, <1>23, <1>24, <1>25, <1>26, <1>27, <1>28, <1>29, <1>30, <1>31,
     <1>32, <1>33, <1>34, <1>35, <1>36
  DEF Next, Worker, ClientThread

\* The inductive invariant holds in every reachable state.
THEOREM IInvHolds == Spec => []IInv
<1>1. Init => IInv
  BY InitIInv
<1>2. IInv /\ [Next]_vars => IInv'
  BY StepIInv
<1>3. QED
  BY <1>1, <1>2, PTL DEF Spec

\* The type invariant: every variable of the worker and of the client thread
\* keeps its type.
THEOREM TypeCorrect == Spec => []TypeOK
<1>1. IInv => TypeOK
  BY DEF IInv
<1>2. QED
  BY IInvHolds, <1>1, PTL

\* initReady is never left on outside the operational state, whatever the
\* interleaving of the statements of Entry (worker) and userLeave (client
\* thread) that write it and `state`.
THEOREM ReadyCorrect == Spec => []ReadyIsOperational
<1>1. IInv => ReadyIsOperational
  BY DEF IInv, ReadySeen, ReadyIsOperational
<1>2. QED
  BY IInvHolds, <1>1, PTL

\* The server that sendHeard, findUser and the downloads address is a user of
\* the running connection.
THEOREM ServerCorrect == Spec => []ServerOfThisConnection
<1>1. IInv => ServerOfThisConnection
  BY DEF IInv, ChoiceSeen, ServerOfThisConnection
<1>2. QED
  BY IInvHolds, <1>1, PTL

\* Every step keeps the time limit of a download.
LEMMA StepDownload ==
  ASSUME IInv, [Next]_vars, state = 5, state' = 5
  PROVE  /\ timer' <= timer \/ callback = Chooses
         /\ seen = Idle /\ seen' = Ticked => timer = 0 \/ timer' < timer
         /\ seen = 5 /\ seen' = Idle => timer > 0
<1> USE DEF IInv, TypeOK, States, Places, Idle, Ticked, Joined, Choosing, Chosen, Counted,
  AfterPut, Opening, Opened, Closing, Stopped, Out, Cleared, Chooses, Timed, GoOn,
  Dec, At, Body, FromServer, Aside, workerVars, serverVars, WorkerPlace
<1>1. CASE Tick \/ Select \/ WaitNetwork \/ Connect \/ ConnectTimer \/ Lost
  BY <1>1 DEF Tick, Select, WaitNetwork, Connect, ConnectTimer, Lost
<1>2. CASE LookForServer \/ ChooseServer \/ GetTables \/ NoServer \/ NextTable \/ TableTimer
  BY <1>2 DEF LookForServer, ChooseServer, GetTables, NoServer, NextTable,
     TableTimer
<1>3. CASE SkipTable \/ SendList \/ AwaitList \/ ListTimer
  BY <1>3 DEF SkipTable, SendList, AwaitList, ListTimer
<1>4. CASE Ready \/ Open \/ Disconnect
  BY <1>4 DEF Ready, Open, Disconnect
<1>5. CASE Standby
  BY <1>5 DEF Standby
<1>6. CASE LogIn \/ NetUp \/ NetDown \/ ListReset \/ Leaving \/ ListGoesOn
  BY <1>6 DEF LogIn, NetUp, NetDown, ListReset, Leaving, ListGoesOn
<1>7. CASE ListEnd \/ ListMore \/ PingArrives \/ UserNotFound
  BY <1>7 DEF ListEnd, ListMore, ListEnds, PingArrives, UserNotFound
<1>8. CASE AnswerPing \/ UNCHANGED vars
  BY <1>8 DEF AnswerPing, vars
<1>9. ASSUME NEW s \in Servers, UserJoin(s) \/ UserLeave(s)
      PROVE  seen' = seen /\ timer' = timer
  BY <1>9 DEF UserJoin, UserLeave
<1>10. ASSUME NEW r \in Rptrs, ListRecord(r) \/ ChannelRecord(r)
      PROVE  seen' = seen /\ timer' = timer
  BY <1>10 DEF ListRecord, ChannelRecord
<1> QED BY <1>1, <1>2, <1>3, <1>4, <1>5, <1>6, <1>7, <1>8, <1>9, <1>10
        DEF Next, Worker, ClientThread

\* The time limit of a download is never renewed, but by a user who leaves:
\* what DownloadEnds needs besides fairness.
THEOREM DownloadCorrect == Spec => DownloadRunsOut
<1>1. ASSUME IInv, [Next]_vars
      PROVE  [state = 5 /\ state' = 5 =>
                /\ timer' <= timer \/ callback = Chooses
                /\ seen = Idle /\ seen' = Ticked => timer = 0 \/ timer' < timer
                /\ seen = 5 /\ seen' = Idle => timer > 0]_vars
  BY <1>1, StepDownload
<1> QED BY <1>1, IInvHolds, PTL DEF Spec, DownloadRunsOut

\* Only the callbacks that bring a record store one, and only when initReady is
\* set outside userLeave.
LEMMA StepStored ==
  ASSUME IInv, [Next]_vars, cached' # cached
  PROVE  initReady /\ callback = Out /\ U!InSession
<1> USE DEF At, Body, FromServer, Aside
<1>1. CASE Tick \/ Select \/ WaitNetwork \/ Connect \/ ConnectTimer \/ Lost
  BY <1>1 DEF Tick, Select, WaitNetwork, Connect, ConnectTimer, Lost
<1>2. CASE LookForServer \/ ChooseServer \/ GetTables \/ NoServer \/ NextTable \/ TableTimer
  BY <1>2 DEF LookForServer, ChooseServer, GetTables, NoServer, NextTable,
     TableTimer
<1>3. CASE SkipTable \/ SendList \/ AwaitList \/ ListTimer
  BY <1>3 DEF SkipTable, SendList, AwaitList, ListTimer
<1>4. CASE Ready \/ Open \/ Disconnect
  BY <1>4 DEF Ready, Open, Disconnect
<1>5. CASE Standby
  BY <1>5 DEF Standby
<1>6. CASE LogIn \/ NetUp \/ NetDown \/ ListReset \/ Leaving \/ ListGoesOn
  BY <1>6 DEF LogIn, NetUp, NetDown, ListReset, Leaving, ListGoesOn
<1>7. CASE ListEnd \/ ListMore \/ PingArrives \/ UserNotFound
  BY <1>7 DEF ListEnd, ListMore, ListEnds, PingArrives, UserNotFound
<1>8. CASE AnswerPing \/ UNCHANGED vars
  BY <1>8 DEF AnswerPing, vars
<1>9. ASSUME NEW s \in Servers, UserJoin(s) \/ UserLeave(s)
      PROVE  cached' = cached
  BY <1>9 DEF UserJoin, UserLeave
<1>10. ASSUME NEW r \in Rptrs, ListRecord(r) \/ ChannelRecord(r)
      PROVE  initReady /\ callback = Out /\ U!InSession
  BY <1>10 DEF ListRecord, ChannelRecord
<1> QED BY <1>1, <1>2, <1>3, <1>4, <1>5, <1>6, <1>7, <1>8, <1>9, <1>10
        DEF Next, Worker, ClientThread

\* No record of a download that runs is stored, in any interleaving of the
\* statements that open and close the cache with those that change `state`.
THEOREM StoredCorrect == Spec => StoredAfterDownloads
<1>1. ASSUME IInv, [Next]_vars
      PROVE  [cached' # cached => (state \in {7, 10} \/ seen = Opened) /\ U!InSession]_vars
  BY <1>1, StepStored DEF IInv, ReadySeen, Out, Chooses, Timed
<1> QED BY <1>1, IInvHolds, PTL DEF Spec, StoredAfterDownloads

\* Every step keeps the announcement due: infoTimer is set where the
\* operational state is entered, and a server chosen only outside it.
LEMMA StepDue == IInv /\ AnnouncementDue /\ [Next]_vars => AnnouncementDue'
<1> SUFFICES ASSUME IInv, AnnouncementDue, [Next]_vars PROVE AnnouncementDue'
  OBVIOUS
<1> USE WaitAssumption
<1> USE DEF IInv, TypeOK, States, Places, Idle, Ticked, Joined, Choosing, Chosen, Counted,
  AfterPut, Opening, Opened, Closing, Stopped, Out, Cleared, Chooses, Timed, GoOn,
  Dec, At, Body, FromServer, Aside, workerVars, serverVars, WorkerPlace, AnnouncementDue, Up, None
<1>1. CASE Tick \/ Select \/ WaitNetwork \/ Connect \/ ConnectTimer \/ Lost
  BY <1>1 DEF Tick, Select, WaitNetwork, Connect, ConnectTimer, Lost
<1>2. CASE LookForServer \/ ChooseServer \/ GetTables \/ NoServer \/ NextTable \/ TableTimer
  BY <1>2 DEF LookForServer, ChooseServer, GetTables, NoServer, NextTable,
     TableTimer
<1>3. CASE SkipTable \/ SendList \/ AwaitList \/ ListTimer
  BY <1>3 DEF SkipTable, SendList, AwaitList, ListTimer
<1>4. CASE Ready \/ Open \/ Disconnect
  BY <1>4 DEF Ready, Open, Disconnect
<1>5. CASE Standby
  <2>1. announced' \/ info # 1 \/ ~Up \/ current = None
    BY <1>5 DEF Standby
  <2>2. QED
    BY <1>5, <2>1 DEF Standby
<1>6. CASE LogIn \/ NetUp \/ NetDown \/ ListReset \/ Leaving \/ ListGoesOn
  BY <1>6 DEF LogIn, NetUp, NetDown, ListReset, Leaving, ListGoesOn
<1>7. CASE ListEnd \/ ListMore \/ PingArrives \/ UserNotFound
  BY <1>7 DEF ListEnd, ListMore, ListEnds, PingArrives, UserNotFound
<1>8. CASE AnswerPing \/ UNCHANGED vars
  BY <1>8 DEF AnswerPing, vars
<1>9. ASSUME NEW s \in Servers, UserJoin(s) \/ UserLeave(s)
      PROVE  AnnouncementDue'
  BY <1>9 DEF UserJoin, UserLeave
<1>10. ASSUME NEW r \in Rptrs, ListRecord(r) \/ ChannelRecord(r)
      PROVE  AnnouncementDue'
  BY <1>10 DEF ListRecord, ChannelRecord
<1> QED BY <1>1, <1>2, <1>3, <1>4, <1>5, <1>6, <1>7, <1>8, <1>9, <1>10
        DEF Next, Worker, ClientThread

\* While a chosen server does not know of the repeater the timer that tells it
\* runs: what RepeaterAnnounced needs besides fairness.
THEOREM AnnouncementCorrect == Spec => []AnnouncementDue
<1>1. Init => AnnouncementDue
  BY DEF Init, AnnouncementDue, None
<1> QED BY <1>1, StepDue, IInvHolds, PTL DEF Spec

\* Without a connection the worker is on its way to state 0.
LEMMA StepLoss ==
  ASSUME IInv, [Next]_vars, ~Up, ~Up', state # 0
  PROVE  \/ UNCHANGED <<state, seen>>
         \/ StepsLeft' < StepsLeft
         \/ callback # Out /\ callback' # callback
<1> USE DEF IInv, TypeOK, States, Places, Idle, Ticked, Joined, Choosing, Chosen, Counted,
  AfterPut, Opening, Opened, Closing, Stopped, Out, Cleared, Chooses, Timed, GoOn,
  Dec, At, Body, FromServer, Aside, workerVars, serverVars,
  WorkerPlace, LoginSeen, Up, StepsLeft, StepsFrom
<1>1. CASE Tick
  BY <1>1 DEF Tick
<1>2. CASE Select
  <2>1. StepsLeft = StepsFrom(state) - 1
    BY <1>2 DEF Select
  <2>2. seen' = state /\ state' = state
    BY <1>2 DEF Select
  <2>3. CASE state = 1
    <3>1. StepsLeft' = 10
      BY <2>2, <2>3
    <3>2. StepsFrom(state) = 12
      BY <2>3
    <3> HIDE DEF StepsLeft, StepsFrom
    <3>3. QED
      BY <2>1, <3>1, <3>2
  <2>4. CASE state = 10
    <3>1. StepsLeft' = 3
      BY <2>2, <2>4
    <3>2. StepsFrom(state) = 5
      BY <2>4
    <3> HIDE DEF StepsLeft, StepsFrom
    <3>3. QED
      BY <2>1, <3>1, <3>2
  <2>5. CASE state \in 2 .. 7
    <3>0. state \notin {0, 1, 10}
      BY <2>5
    <3>1. StepsLeft' = 6
      <4>1. seen' \in {2, 3, 4, 5, 6, 7} /\ seen' \notin {Idle, Ticked, 0, Joined, Counted, Stopped, Closing, 10}
        BY <2>2, <2>5
      <4>2. CASE seen' = 2
        BY <4>2
      <4>3. CASE seen' = 3
        BY <4>3
      <4>4. CASE seen' = 4
        BY <4>4
      <4>5. CASE seen' = 5
        BY <4>5
      <4>6. CASE seen' = 6
        BY <4>6
      <4>7. CASE seen' = 7
        BY <4>7
      <4>8. QED
        BY <4>1, <4>2, <4>3, <4>4, <4>5, <4>6, <4>7
    <3>2. StepsFrom(state) = 8
      BY <3>0
    <3> HIDE DEF StepsLeft, StepsFrom
    <3>3. QED
      BY <2>1, <3>1, <3>2
  <2>6. QED
    BY <2>3, <2>4, <2>5
<1>3. CASE WaitNetwork
  BY <1>3 DEF WaitNetwork
<1>4. CASE Connect
  BY <1>4 DEF Connect
<1>5. CASE ConnectTimer
  BY <1>5 DEF ConnectTimer
<1>6. CASE Lost
  BY <1>6 DEF Lost
<1>7. CASE LookForServer
  BY <1>7 DEF LookForServer
<1>8. CASE ChooseServer
  BY <1>8 DEF ChooseServer
<1>9. CASE GetTables
  BY <1>9 DEF GetTables
<1>10. CASE NoServer
  BY <1>10 DEF NoServer
<1>11. CASE NextTable \/ SkipTable \/ SendList
  BY <1>11 DEF NextTable, SkipTable, SendList
<1>12. CASE TableTimer
  BY <1>12 DEF TableTimer
<1>13. CASE AwaitList
  BY <1>13 DEF AwaitList
<1>14. CASE ListTimer
  BY <1>14 DEF ListTimer
<1>15. CASE Ready
  BY <1>15 DEF Ready
<1>16. CASE Open
  <2>1. CASE seen = Opening
    <3>1. seen' = Opened
      BY <1>16, <2>1 DEF Open
    <3>2. StepsLeft = 10
      BY <2>1
    <3>3. StepsLeft' = 9
      BY <3>1
    <3> HIDE DEF StepsLeft
    <3>4. QED
      BY <3>2, <3>3
  <2>2. CASE seen = Opened
    <3>1. StepsLeft = 9 /\ seen' = Idle /\ state' = 7
      BY <1>16, <2>2 DEF Open
    <3>2. QED
      BY <3>1
  <2>3. QED
    BY <1>16, <2>1, <2>2 DEF Open
<1>17. CASE Disconnect
  <2>1. CASE seen = 10
    <3>1. seen' = Closing /\ state' = 0
      BY <1>17, <2>1 DEF Disconnect
    <3>2. StepsLeft = 3
      BY <2>1
    <3>3. StepsLeft' = 2
      BY <3>1
    <3> HIDE DEF StepsLeft
    <3>4. QED
      BY <3>2, <3>3
  <2>2. CASE seen = Closing
    <3>1. seen' = Stopped /\ state' = state
      BY <1>17, <2>2 DEF Disconnect
    <3>2. StepsLeft = 2 + StepsFrom(state)
      BY <2>2
    <3>3. StepsLeft' = 1 + StepsFrom(state)
      BY <3>1
    <3>4. StepsFrom(state) \in Nat
      OBVIOUS
    <3> HIDE DEF StepsLeft, StepsFrom
    <3>5. QED
      BY <3>2, <3>3, <3>4
  <2>3. CASE seen = Stopped
    <3>1. seen' = Idle /\ state' = state
      BY <1>17, <2>3 DEF Disconnect
    <3>2. StepsLeft = 1 + StepsFrom(state)
      BY <2>3
    <3>3. StepsLeft' = StepsFrom(state)
      BY <3>1
    <3>4. StepsFrom(state) \in Nat
      OBVIOUS
    <3> HIDE DEF StepsLeft, StepsFrom
    <3>5. QED
      BY <3>2, <3>3, <3>4
  <2>4. QED
    BY <1>17, <2>1, <2>2, <2>3 DEF Disconnect
<1>18. CASE Standby
  BY <1>18 DEF Standby
<1>19. CASE LogIn \/ NetUp \/ NetDown \/ ListReset
  BY <1>19 DEF LogIn, NetUp, NetDown, ListReset
<1>20. CASE Leaving \/ ListGoesOn
  BY <1>20 DEF Leaving, ListGoesOn
<1>21. CASE ListEnd \/ ListMore \/ PingArrives \/ UserNotFound
  BY <1>21 DEF ListEnd, ListMore, ListEnds, PingArrives, UserNotFound
<1>22. CASE AnswerPing \/ UNCHANGED vars
  BY <1>22 DEF AnswerPing, vars
<1>23. ASSUME NEW s \in Servers, UserJoin(s) \/ UserLeave(s)
      PROVE  UNCHANGED <<state, seen>>
  BY <1>23 DEF UserJoin, UserLeave
<1>24. ASSUME NEW r \in Rptrs, ListRecord(r) \/ ChannelRecord(r)
      PROVE  UNCHANGED <<state, seen>>
  BY <1>24 DEF ListRecord, ChannelRecord
<1> QED BY <1>1, <1>2, <1>3, <1>4, <1>5, <1>6, <1>7, <1>8, <1>9, <1>10, <1>11,
        <1>12, <1>13, <1>14, <1>15, <1>16, <1>17, <1>18, <1>19, <1>20, <1>21,
        <1>22, <1>23, <1>24
        DEF Next, Worker, ClientThread

\* The loss of the connection is never forgotten, whatever case of its switch
\* the worker was in: what LossIsNoticed needs besides fairness.
THEOREM LossCorrect == Spec => LossRunsOut
<1>1. ASSUME IInv, [Next]_vars
      PROVE  [~Up /\ ~Up' /\ state # 0 => \/ UNCHANGED <<state, seen>>
                                          \/ StepsLeft' < StepsLeft
                                          \/ callback # Out /\ callback' # callback]_vars
  BY <1>1, StepLoss
<1> QED BY <1>1, IInvHolds, PTL DEF Spec, LossRunsOut
=============================================================================
