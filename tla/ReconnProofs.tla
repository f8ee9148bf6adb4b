---------------------------- MODULE ReconnProofs ----------------------------
(***************************************************************************)
(* Theorems about Reconn, for every set of descriptors.                    *)
(***************************************************************************)
EXTENDS Reconn, TLAPS

\* What makes the types inductive: rcDisconnect stores a real descriptor, and a
\* renewed socket exists only while the manager has the mutex.
ITypeInv ==
  /\ TypeOK
  /\ cPc = "bye" => handle \in Descriptors
  /\ reconnectedSock > 0 => mPc = "exchange"
  /\ mPc \in {"connect", "exchange"} => clientState = "processing"

\* A descriptor is a positive number, what reconnectedSock can be is an integer.
LEMMA DescriptorsInt ==
  /\ Descriptors \subseteq Int
  /\ \A d \in Descriptors : d > 0
BY DescriptorsAssumption

\* _rcConnect establishes the types.
LEMMA ITypeInit == Init => ITypeInv
<1> SUFFICES ASSUME Init PROVE ITypeInv
  OBVIOUS
<1>1. TypeOK
  BY DescriptorsInt DEF Init, TypeOK, Sending, Receiving, Leaving
<1>2. cPc # "bye" /\ ~(reconnectedSock > 0)
  BY DEF Init
<1>3. clientState = "processing"
  BY DEF Init
<1> QED BY <1>1, <1>2, <1>3 DEF ITypeInv

\* Every step of the manager keeps them.
LEMMA ITypeManager == ITypeInv /\ Manager => ITypeInv'
<1> SUFFICES ASSUME ITypeInv, Manager PROVE ITypeInv'
  OBVIOUS
<1> USE DescriptorsInt DEF ITypeInv, TypeOK, managerVars, callVars
<1>1. CASE ManagerTop
  BY <1>1 DEF ManagerTop
<1>2. CASE ManagerWaits
  BY <1>2 DEF ManagerWaits, AtTest
<1>3. CASE ManagerReconnects
  BY <1>3 DEF ManagerReconnects, AtTest
<1>4. CASE ManagerResolveFails
  BY <1>4 DEF ManagerResolveFails
<1>5. CASE ManagerConnects
  BY <1>5 DEF ManagerConnects
<1>6. CASE ManagerConnectFails
  BY <1>6 DEF ManagerConnectFails, NotifyAll
<1>7. CASE ManagerExchangeFails
  BY <1>7 DEF ManagerExchangeFails, NotifyAll
<1>8. CASE ManagerSwitches
  <2>1. CASE clientState = "processing" /\ reconnectedSock > 0
    <3>1. reconnectedSock \in Descriptors
      BY <2>1
    <3>2. reconnectedSock' = 0 /\ sock' = reconnectedSock /\ open' = open \ {sock}
      BY <1>8, <2>1 DEF ManagerSwitches, SwitchConnect
    <3> QED BY <1>8, <3>1, <3>2 DEF ManagerSwitches, NotifyAll
  <2>2. CASE clientState = "processing" /\ ~(reconnectedSock > 0)
    BY <1>8, <2>2 DEF ManagerSwitches, SwitchConnect, NotifyAll
  <2> QED BY <1>8, <2>1, <2>2 DEF ManagerSwitches
<1> QED BY <1>1, <1>2, <1>3, <1>4, <1>5, <1>6, <1>7, <1>8 DEF Manager

\* Every step of the client keeps them.
LEMMA ITypeClient == ITypeInv /\ Client => ITypeInv'
<1> SUFFICES ASSUME ITypeInv, Client PROVE ITypeInv'
  OBVIOUS
<1> USE DescriptorsInt DEF ITypeInv, TypeOK, managerVars, callVars, Sending, Receiving, Leaving
<1>1. CASE SendStart
  BY <1>1 DEF SendStart, LockFree
<1>2. CASE SendWaitEnds
  BY <1>2 DEF SendWaitEnds, LockFree
<1>3. CASE BadInput
  BY <1>3 DEF BadInput, NotifyAll, LockFree
<1>4. CASE SendSwitch
  BY <1>4 DEF SendSwitch, SwitchConnect, LockFree
<1>5. CASE ReadStart
  BY <1>5 DEF ReadStart, LockFree
<1>6. CASE HeaderSwitch
  BY <1>6 DEF HeaderSwitch, SwitchConnect, LockFree
<1>7. CASE ReadEnd
  BY <1>7 DEF ReadEnd, LockFree
<1>8. CASE ReadWaitEnds
  BY <1>8 DEF ReadWaitEnds, LockFree
<1>9. CASE SendFactory
  BY <1>9 DEF SendFactory
<1>10. CASE SendRequest
  BY <1>10 DEF SendRequest
<1>11. CASE BadOutput
  BY <1>11 DEF BadOutput
<1>12. CASE ReadFactory
  BY <1>12 DEF ReadFactory
<1>13. CASE ReadHeader
  BY <1>13 DEF ReadHeader
<1>14. CASE RereadHeader
  BY <1>14 DEF RereadHeader
<1>15. CASE ReadBody
  BY <1>15 DEF ReadBody
<1>16. CASE CollStatWrite
  BY <1>16 DEF CollStatWrite
<1>17. CASE CollStatLoad
  BY <1>17 DEF CollStatLoad
<1>18. CASE Disconnect
  BY <1>18 DEF Disconnect
<1>19. CASE DisconnectRestore
  BY <1>19 DEF DisconnectRestore
<1>20. CASE DisconnectClose
  BY <1>20 DEF DisconnectClose
<1>21. CASE DisconnectExit
  BY <1>21 DEF DisconnectExit
<1>22. CASE DisconnectFree
  BY <1>22 DEF DisconnectFree
<1> QED
  BY <1>1, <1>2, <1>3, <1>4, <1>5, <1>6, <1>7, <1>8, <1>9, <1>10, <1>11, <1>12, <1>13, <1>14, <1>15, <1>16, <1>17, <1>18, <1>19, <1>20, <1>21, <1>22
  DEF Client, Locking, Network, Disconnecting

\* So does every step, and a step of neither thread.
LEMMA ITypeNext == ITypeInv /\ [Next]_vars => ITypeInv'
<1> SUFFICES ASSUME ITypeInv, [Next]_vars PROVE ITypeInv'
  OBVIOUS
<1>1. CASE Manager
  BY <1>1, ITypeManager
<1>2. CASE Client
  BY <1>2, ITypeClient
<1>3. CASE SpuriousWakeup
  BY <1>3 DEF SpuriousWakeup, ITypeInv, TypeOK, managerVars, callVars
<1>4. CASE UNCHANGED vars
  BY <1>4 DEF vars, ITypeInv, TypeOK, managerVars, callVars
<1> QED BY <1>1, <1>2, <1>3, <1>4 DEF Next

\* The variables keep their types, whatever the application uses, and through
\* spurious wakeups, a name that stops resolving and the races of rcDisconnect.
THEOREM ReconnType == Spec => []TypeOK
<1>1. ITypeInv => TypeOK
  BY DEF ITypeInv
<1> QED BY ITypeInit, ITypeNext, <1>1, PTL DEF Spec

\* cliSwitchConnect called by the client never finds a socket to switch to: the
\* retries in sendApiRequest and readAndProcApiReply are dead code.
THEOREM ReconnNoSwitchLeft == Spec => []NoSwitchLeft
<1>1. ITypeInv => NoSwitchLeft
  BY DescriptorsInt DEF ITypeInv, TypeOK, NoSwitchLeft, LockFree
<1> QED BY ITypeInit, ITypeNext, <1>1, PTL DEF Spec

-----------------------------------------------------------------------------
(* The protocol between the two threads.                                   *)

\* clientState says where the client is.  A reply is awaited in SENDING_STATE
\* after a request, in PROCESSING_STATE after the answer to a progress report.
StateFollows ==
  /\ cPc \in {"idle", "sendWait", "readWait", "collWrite"} \cup Leaving =>
       clientState = "processing"
  /\ cPc \in Sending \ {"readStart"} => clientState = "sending"
  /\ cPc \in Receiving => clientState = "receiving"

\* The open descriptors, and the client's copy of one of them.
SocketsFollow ==
  cPc \notin Leaving =>
    /\ sock \in open
    /\ open \subseteq {sock, reconnectedSock}
    /\ mPc = "exchange" =>
         reconnectedSock > 0 /\ reconnectedSock \in open /\ reconnectedSock # sock
    /\ cPc \in InFlight => handle = sock

IInv == ITypeInv /\ StateFollows /\ SocketsFollow

\* _rcConnect establishes the protocol.
LEMMA IInvInit == Init => IInv
<1>1. Init => StateFollows /\ SocketsFollow
  BY DEF Init, StateFollows, SocketsFollow, Sending, Receiving, InFlight
<1> QED BY <1>1, ITypeInit DEF IInv

\* The manager keeps it.
LEMMA IInvManager == IInv /\ Manager => StateFollows' /\ SocketsFollow'
<1> SUFFICES ASSUME IInv, Manager PROVE StateFollows' /\ SocketsFollow'
  OBVIOUS
<1> USE DescriptorsInt DEF IInv, ITypeInv, TypeOK, StateFollows, SocketsFollow,
        managerVars, callVars, Sending, Receiving, InFlight, Leaving
<1>1. CASE ManagerTop
  BY <1>1 DEF ManagerTop
<1>2. CASE ManagerWaits
  BY <1>2 DEF ManagerWaits, AtTest
<1>3. CASE ManagerReconnects
  BY <1>3 DEF ManagerReconnects, AtTest
<1>4. CASE ManagerResolveFails
  BY <1>4 DEF ManagerResolveFails
<1>5. CASE ManagerConnects
  BY <1>5 DEF ManagerConnects
<1>6. CASE ManagerConnectFails
  BY <1>6 DEF ManagerConnectFails, NotifyAll
<1>7. CASE ManagerExchangeFails
  BY <1>7 DEF ManagerExchangeFails, NotifyAll
<1>8. CASE ManagerSwitches
  BY <1>8 DEF ManagerSwitches, SwitchConnect, NotifyAll
<1> QED BY <1>1, <1>2, <1>3, <1>4, <1>5, <1>6, <1>7, <1>8 DEF Manager

\* The client keeps it.
LEMMA IInvClient == IInv /\ Client => StateFollows' /\ SocketsFollow'
<1> SUFFICES ASSUME IInv, Client PROVE StateFollows' /\ SocketsFollow'
  OBVIOUS
<1> USE DescriptorsInt DEF IInv, ITypeInv, TypeOK, StateFollows, SocketsFollow,
        managerVars, callVars, Sending, Receiving, InFlight, Leaving
<1>1. CASE SendStart
  BY <1>1 DEF SendStart, LockFree
<1>2. CASE SendWaitEnds
  BY <1>2 DEF SendWaitEnds, LockFree
<1>3. CASE BadInput
  BY <1>3 DEF BadInput, NotifyAll, LockFree
<1>4. CASE SendSwitch
  <2>1. UNCHANGED <<open, sock, reconnectedSock>>
    BY <1>4 DEF SendSwitch, SwitchConnect, LockFree
  <2> QED BY <1>4, <2>1 DEF SendSwitch
<1>5. CASE ReadStart
  BY <1>5 DEF ReadStart, LockFree
<1>6. CASE HeaderSwitch
  <2>1. UNCHANGED <<open, sock, reconnectedSock>>
    BY <1>6 DEF HeaderSwitch, SwitchConnect, LockFree
  <2> QED BY <1>6, <2>1 DEF HeaderSwitch
<1>7. CASE ReadEnd
  BY <1>7 DEF ReadEnd, LockFree
<1>8. CASE ReadWaitEnds
  BY <1>8 DEF ReadWaitEnds, LockFree
<1>9. CASE SendFactory
  BY <1>9 DEF SendFactory
<1>10. CASE SendRequest
  BY <1>10 DEF SendRequest
<1>11. CASE BadOutput
  BY <1>11 DEF BadOutput
<1>12. CASE ReadFactory
  BY <1>12 DEF ReadFactory
<1>13. CASE ReadHeader
  BY <1>13 DEF ReadHeader
<1>14. CASE RereadHeader
  BY <1>14 DEF RereadHeader
<1>15. CASE ReadBody
  BY <1>15 DEF ReadBody
<1>16. CASE CollStatWrite
  BY <1>16 DEF CollStatWrite
<1>17. CASE CollStatLoad
  BY <1>17 DEF CollStatLoad
<1>18. CASE Disconnect
  BY <1>18 DEF Disconnect
<1>19. CASE DisconnectRestore
  BY <1>19 DEF DisconnectRestore
<1>20. CASE DisconnectClose
  BY <1>20 DEF DisconnectClose
<1>21. CASE DisconnectExit
  BY <1>21 DEF DisconnectExit
<1>22. CASE DisconnectFree
  BY <1>22 DEF DisconnectFree
<1> QED
  BY <1>1, <1>2, <1>3, <1>4, <1>5, <1>6, <1>7, <1>8, <1>9, <1>10, <1>11, <1>12, <1>13, <1>14, <1>15, <1>16, <1>17, <1>18, <1>19, <1>20, <1>21, <1>22
  DEF Client, Locking, Network, Disconnecting

\* So IInv is an invariant.
LEMMA IInvInvariant == Spec => []IInv
<1>1. IInv /\ [Next]_vars => IInv'
  <2> SUFFICES ASSUME IInv, [Next]_vars PROVE IInv'
    OBVIOUS
  <2>1. ITypeInv'
    BY ITypeNext DEF IInv
  <2>2. CASE Manager
    BY <2>1, <2>2, IInvManager DEF IInv
  <2>3. CASE Client
    BY <2>1, <2>3, IInvClient DEF IInv
  <2>4. CASE SpuriousWakeup
    BY <2>1, <2>4 DEF SpuriousWakeup, IInv, StateFollows, SocketsFollow,
       managerVars, callVars
  <2>5. CASE UNCHANGED vars
    BY <2>1, <2>5 DEF vars, IInv, StateFollows, SocketsFollow, managerVars, callVars
  <2> QED BY <2>2, <2>3, <2>4, <2>5 DEF Next
<1> QED BY <1>1, IInvInit, PTL DEF Spec

\* A call that is sending or receiving owns the socket it works on: the manager
\* neither closes nor replaces it (cliReconnManager and the four
\* cliChkReconnAt... functions).
THEOREM ReconnHandleFresh == Spec => []HandleFresh
<1>1. IInv => HandleFresh
  BY DEF IInv, StateFollows, SocketsFollow, HandleFresh, InFlight, Leaving
<1> QED BY <1>1, IInvInvariant, PTL

\* No descriptor leaks before rcDisconnect, and none is closed twice, however
\* the attempts to reconnect end.
THEOREM ReconnDescriptorsAccounted == Spec => []DescriptorsAccounted
<1>1. IInv => DescriptorsAccounted
  BY DescriptorsInt
     DEF IInv, ITypeInv, TypeOK, SocketsFollow, DescriptorsAccounted, Leaving
<1> QED BY <1>1, IInvInvariant, PTL

\* Every call leaves PROCESSING_STATE behind.
THEOREM ReconnCallReleases == Spec => []CallReleases
<1>1. IInv => CallReleases
  BY DEF IInv, StateFollows, CallReleases
<1> QED BY <1>1, IInvInvariant, PTL

\* A call finds no socket to switch to and leaves the manager none to wait for.
THEOREM ReconnCallsEndClean == Spec => []CallsEndClean
BY ReconnNoSwitchLeft, ReconnCallReleases, PTL DEF CallsEndClean

\* No step replaces the socket between a request and its reply.
THEOREM ReconnRenewedWhileProcessing == Spec => RenewedWhileProcessing
<1> DEFINE Step == sock' # sock => clientState = "processing"
<1>1. IInv /\ [Next]_vars => [Step]_vars
  <2> SUFFICES ASSUME IInv, Next PROVE Step
    OBVIOUS
  <2> USE DescriptorsInt DEF IInv, ITypeInv, TypeOK, StateFollows,
      managerVars, callVars, Sending, Receiving, Leaving
  <2>1. CASE Manager
    BY <2>1 DEF Manager, ManagerTop, ManagerWaits, ManagerReconnects,
       ManagerResolveFails, ManagerConnects, ManagerConnectFails,
       ManagerExchangeFails, ManagerSwitches, SwitchConnect
  <2>2. CASE Locking
    BY <2>2 DEF Locking, SendStart, SendWaitEnds, BadInput, SendSwitch, ReadStart,
       HeaderSwitch, ReadEnd, ReadWaitEnds, SwitchConnect, LockFree
  <2>3. CASE Network
    BY <2>3 DEF Network, SendFactory, SendRequest, BadOutput, ReadFactory,
       ReadHeader, RereadHeader, ReadBody, CollStatWrite
  <2>4. CASE CollStatLoad \/ Disconnect \/ SpuriousWakeup
    BY <2>4 DEF CollStatLoad, Disconnect, SpuriousWakeup
  <2>5. CASE Disconnecting
    BY <2>5 DEF Disconnecting, DisconnectRestore, DisconnectClose, DisconnectExit,
       DisconnectFree
  <2> QED BY <2>1, <2>2, <2>3, <2>4, <2>5 DEF Next, Client
<1> QED BY <1>1, IInvInvariant, PTL DEF Spec, RenewedWhileProcessing
=============================================================================
