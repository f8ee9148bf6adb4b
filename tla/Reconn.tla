------------------------------- MODULE Reconn -------------------------------
(***************************************************************************)
(* A connection opened with RECONN_TIMEOUT has two threads: the            *)
(* application's, which makes API calls one after another (procApiRequest) *)
(* and in the end disconnects, and the reconnection manager                *)
(* (cliReconnManager), which every RECONN_TIMEOUT_TIME seconds replaces    *)
(* the socket by a new connection to the same agent.  They agree through   *)
(* clientState and reconnThrState under one mutex and one condition        *)
(* variable.                                                               *)
(*                                                                         *)
(* A step of the client that holds the mutex is one step here.  The        *)
(* manager keeps the mutex from its decision to reconnect until the        *)
(* attempt has ended, so it holds it exactly in its states "connect" and   *)
(* "exchange".  Sleeps are the delay any step may have.                    *)
(*                                                                         *)
(* The agent's own state, reported in its answer, only decides whether one *)
(* more message goes out on the socket about to be closed: left out.       *)
(***************************************************************************)
EXTENDS Integers, FiniteSets

CONSTANTS
  Descriptors,     \* the file descriptors the process may be given
  Uses,            \* what the application does besides calls: "collstat",
                   \* answer the server's progress reports (cliGetCollOprStat);
                   \* "disconnect", end with rcDisconnect
  ResolveMayFail,  \* may the server's name stop resolving?
  Spurious         \* may a wait on the condition variable end by itself?

ASSUME DescriptorsAssumption == Descriptors \subseteq Nat \ {0} /\ Descriptors # {}
ASSUME SwitchesAssumption ==
  /\ Uses \subseteq {"collstat", "disconnect"}
  /\ ResolveMayFail \in BOOLEAN
  /\ Spurious \in BOOLEAN

VARIABLES
  clientState,      \* conn->clientState
  reconnThrState,   \* conn->reconnThrState
  sock,             \* conn->sock
  reconnectedSock,  \* conn->reconnectedSock: a descriptor, 0 or an error
  exitFlg,          \* conn->exit_flg
  open,             \* the descriptors that are open
  waiters,          \* the threads asleep on the condition variable
  mPc,              \* where the manager is
  cPc,              \* where the client is
  handle,           \* socket_handle_ of the client's network object, 0 if none
  result,           \* what the current or last call returns
  replied           \* has that call read a whole reply?

managerVars == <<reconnThrState, reconnectedSock, mPc>>
callVars    == <<handle, result, replied>>
vars == <<clientState, sock, exitFlg, open, waiters, cPc, managerVars, callVars>>

\* The client between network_factory and the last use of its network object.
InFlight == {"send", "sendSwitch", "header", "headerSwitch", "reheader", "body"}
\* The client in sendApiRequest and in readAndProcApiReply.
Sending   == {"pack", "send", "sendSwitch", "readStart"}
Receiving == {"check", "header", "headerSwitch", "reheader", "body", "readEnd"}
Leaving   == {"bye", "restored", "closed", "join", "freed"}

TypeOK ==
  /\ clientState \in {"processing", "receiving", "sending"}
  /\ reconnThrState \in {"processing", "connwait"}
  /\ sock \in Descriptors
  /\ reconnectedSock \in Descriptors \cup {0, -1}
  /\ exitFlg \in BOOLEAN
  /\ open \in SUBSET Descriptors
  /\ waiters \in SUBSET {"client", "manager"}
  /\ mPc \in {"top", "lock", "wait", "connect", "exchange", "gone"}
  /\ cPc \in {"idle", "sendWait", "readWait", "collWrite"}
             \cup Sending \cup Receiving \cup Leaving
  /\ handle \in Descriptors \cup {0}
  /\ result \in {"none", "ok", "error"}
  /\ replied \in BOOLEAN

\* _rcConnect: connected, the manager started.
Init ==
  /\ clientState = "processing" /\ reconnThrState = "processing"
  /\ sock \in Descriptors /\ open = {sock}
  /\ reconnectedSock = 0
  /\ exitFlg = FALSE
  /\ waiters = {}
  /\ mPc = "top" /\ cPc = "idle"
  /\ handle = 0 /\ result = "none" /\ replied = FALSE

\* Operators with a fault in their name are variants with that fault: what a
\* plausible slip in the code would do, to see that a property notices.
NoMutex == TRUE
LockFree == mPc \notin {"connect", "exchange"}
NotifyAll == waiters' = {}

SwitchUnguarded ==
  /\ open' = open \ {sock}
  /\ sock' = reconnectedSock
  /\ reconnectedSock' = 0
SwitchForgetsClose ==
  IF reconnectedSock > 0
  THEN sock' = reconnectedSock /\ reconnectedSock' = 0 /\ UNCHANGED open
  ELSE UNCHANGED <<open, sock, reconnectedSock>>

\* cliSwitchConnect.
SwitchConnect ==
  IF reconnectedSock > 0
  THEN /\ open' = open \ {sock}
       /\ sock' = reconnectedSock
       /\ reconnectedSock' = 0
  ELSE UNCHANGED <<open, sock, reconnectedSock>>

-----------------------------------------------------------------------------
(* cliReconnManager.                                                       *)

Manages == cPc # "freed"   \* the connection handle still exists

ManagerTop ==
  /\ Manages /\ mPc = "top"
  /\ mPc' = IF exitFlg THEN "gone" ELSE "lock"
  /\ UNCHANGED <<clientState, reconnThrState, sock, reconnectedSock, exitFlg,
                 open, waiters, cPc, callVars>>

\* About to test clientState with the mutex held: just locked, or woken.
AtTest == Manages /\ (mPc = "lock" \/ (mPc = "wait" /\ "manager" \notin waiters))

ManagerWaits ==
  /\ AtTest
  /\ clientState # "processing"
  /\ reconnThrState' = "connwait"
  /\ waiters' = waiters \cup {"manager"}
  /\ mPc' = "wait"
  /\ UNCHANGED <<clientState, sock, reconnectedSock, exitFlg, open, cPc, callVars>>

ManagerReconnects ==
  /\ AtTest
  /\ clientState = "processing"
  /\ reconnThrState' = "processing"
  /\ mPc' = "connect"
  /\ UNCHANGED <<clientState, sock, reconnectedSock, exitFlg, open, waiters, cPc,
                 callVars>>

\* The early return: the mutex is released, nobody is notified.
ManagerResolveFails ==
  /\ Manages /\ mPc = "connect"
  /\ ResolveMayFail
  /\ mPc' = "gone"
  /\ UNCHANGED <<clientState, reconnThrState, sock, reconnectedSock, exitFlg,
                 open, waiters, cPc, callVars>>

ManagerConnects ==
  /\ Manages /\ mPc = "connect"
  /\ \E n \in Descriptors \ open :
       /\ reconnectedSock' = n
       /\ open' = open \cup {n}
  /\ mPc' = "exchange"
  /\ UNCHANGED <<clientState, reconnThrState, sock, exitFlg, waiters, cPc, callVars>>

ManagerConnectFails ==
  /\ Manages /\ mPc = "connect"
  /\ reconnectedSock' = -1
  /\ NotifyAll
  /\ mPc' = "top"
  /\ UNCHANGED <<clientState, reconnThrState, sock, exitFlg, open, cPc, callVars>>

\* sendReconnMsg or readReconMsg fails.
ManagerExchangeFails ==
  /\ Manages /\ mPc = "exchange"
  /\ open' = open \ {reconnectedSock}
  /\ reconnectedSock' = 0
  /\ NotifyAll
  /\ mPc' = "top"
  /\ UNCHANGED <<clientState, reconnThrState, sock, exitFlg, cPc, callVars>>

ManagerSwitches ==
  /\ Manages /\ mPc = "exchange"
  /\ IF clientState = "processing"
     THEN SwitchConnect
     ELSE UNCHANGED <<open, sock, reconnectedSock>>
  /\ NotifyAll
  /\ mPc' = "top"
  /\ UNCHANGED <<clientState, reconnThrState, exitFlg, cPc, callVars>>

Manager ==
  \/ ManagerTop \/ ManagerWaits \/ ManagerReconnects \/ ManagerResolveFails
  \/ ManagerConnects \/ ManagerConnectFails \/ ManagerExchangeFails
  \/ ManagerSwitches

-----------------------------------------------------------------------------
(* The client: sendApiRequest.                                             *)

\* cliChkReconnAtSendStart, at the start of a call.
SendStart ==
  /\ cPc = "idle" /\ LockFree
  /\ result' = "none" /\ replied' = FALSE
  /\ IF reconnThrState = "connwait"
     THEN /\ clientState' = "processing"
          /\ waiters' = {"client"}
          /\ cPc' = "sendWait"
     ELSE /\ clientState' = "sending"
          /\ cPc' = "pack"
          /\ UNCHANGED waiters
  /\ UNCHANGED <<managerVars, sock, exitFlg, open, handle>>

SendWaitEnds ==
  /\ cPc = "sendWait" /\ "client" \notin waiters /\ LockFree
  /\ clientState' = "sending"
  /\ cPc' = "pack"
  /\ UNCHANGED <<managerVars, sock, exitFlg, open, waiters, callVars>>

BadInputForgetsSendEnd ==
  /\ cPc = "pack"
  /\ result' = "error"
  /\ cPc' = "idle"
  /\ UNCHANGED <<managerVars, clientState, sock, exitFlg, open, waiters, handle, replied>>

\* The input is missing or cannot be packed: cliChkReconnAtSendEnd, and the
\* call fails.
BadInput ==
  /\ cPc = "pack" /\ LockFree
  /\ clientState' = "processing"
  /\ IF reconnThrState = "connwait" THEN NotifyAll ELSE UNCHANGED waiters
  /\ result' = "error"
  /\ cPc' = "idle"
  /\ UNCHANGED <<managerVars, sock, exitFlg, open, handle, replied>>

\* network_factory: the network object copies conn->sock.
SendFactory ==
  /\ cPc = "pack"
  /\ handle' = sock
  /\ cPc' = "send"
  /\ UNCHANGED <<managerVars, clientState, sock, exitFlg, open, waiters, result, replied>>

\* sendRodsMsg.  After a failure the status is still packStruct's, not negative.
SendRequest ==
  /\ cPc = "send"
  /\ cPc' \in {"readStart", "sendSwitch"}
  /\ UNCHANGED <<managerVars, clientState, sock, exitFlg, open, waiters, callVars>>

\* "should not be here": had the manager left a socket to switch to, the request
\* would be sent once more.  NoSwitchLeft says it never has, so that branch is
\* not modelled; the call goes on to read, its status not negative.
SendSwitch ==
  /\ cPc = "sendSwitch" /\ LockFree
  /\ SwitchConnect
  /\ cPc' = "readStart"
  /\ UNCHANGED <<reconnThrState, mPc, clientState, exitFlg, waiters, callVars>>

-----------------------------------------------------------------------------
(* The client: readAndProcApiReply.                                        *)

ReadStart ==
  /\ cPc = "readStart" /\ LockFree
  /\ clientState' = "receiving"
  /\ cPc' = "check"
  /\ UNCHANGED <<managerVars, sock, exitFlg, open, waiters, callVars>>

\* The caller has given no place for the output.
BadOutput ==
  /\ cPc = "check"
  /\ result' = "error"
  /\ cPc' = "readEnd"
  /\ UNCHANGED <<managerVars, clientState, sock, exitFlg, open, waiters, handle, replied>>

ReadFactory ==
  /\ cPc = "check"
  /\ handle' = sock
  /\ cPc' = "header"
  /\ UNCHANGED <<managerVars, clientState, sock, exitFlg, open, waiters, result, replied>>

ReadHeader ==
  /\ cPc = "header"
  /\ cPc' \in {"body", "headerSwitch"}
  /\ UNCHANGED <<managerVars, clientState, sock, exitFlg, open, waiters, callVars>>

\* "try again. the socket might have changed".
HeaderSwitch ==
  /\ cPc = "headerSwitch" /\ LockFree
  /\ SwitchConnect
  /\ cPc' = "reheader"
  /\ UNCHANGED <<reconnThrState, mPc, clientState, exitFlg, waiters, callVars>>

RereadHeader ==
  /\ cPc = "reheader"
  /\ \/ cPc' = "body" /\ UNCHANGED result
     \/ cPc' = "readEnd" /\ result' = "error"
  /\ UNCHANGED <<managerVars, clientState, sock, exitFlg, open, waiters, handle, replied>>

\* readMsgBody and procApiReply: a reply, which carries the server's status; a
\* message of another type, status 0; or a failure, status still 0.
ReadBody ==
  /\ cPc = "body"
  /\ \/ result' \in {"ok", "error"} /\ replied' = TRUE
     \/ result' = "ok" /\ replied' = FALSE
  /\ cPc' = "readEnd"
  /\ UNCHANGED <<managerVars, clientState, sock, exitFlg, open, waiters, handle>>

\* cliChkReconnAtReadEnd.
ReadEnd ==
  /\ cPc = "readEnd" /\ LockFree
  /\ clientState' = "processing"
  /\ IF reconnThrState = "connwait"
     THEN waiters' = {"client"} /\ cPc' = "readWait"
     ELSE cPc' = "idle" /\ UNCHANGED waiters
  /\ UNCHANGED <<managerVars, sock, exitFlg, open, callVars>>

ReadWaitEnds ==
  /\ cPc = "readWait" /\ "client" \notin waiters /\ LockFree
  /\ cPc' = "idle"
  /\ UNCHANGED <<managerVars, clientState, sock, exitFlg, open, waiters, callVars>>

-----------------------------------------------------------------------------
(* The client: _cliGetCollOprStat after a reply that says more is to come. *)
(* It reads conn->sock and writes to it without the mutex.                 *)

CollStatLoad ==
  /\ "collstat" \in Uses
  /\ cPc = "idle" /\ result = "ok" /\ replied
  /\ handle' = sock
  /\ cPc' = "collWrite"
  /\ UNCHANGED <<managerVars, clientState, sock, exitFlg, open, waiters, result, replied>>

CollStatWrite ==
  /\ cPc = "collWrite"
  /\ replied' = FALSE
  /\ \/ cPc' = "readStart" /\ result' = "none"
     \/ cPc' = "idle" /\ result' = "error"
  /\ UNCHANGED <<managerVars, clientState, sock, exitFlg, open, waiters, handle>>

-----------------------------------------------------------------------------
(* The client: rcDisconnect, which takes the mutex nowhere.                *)

\* network_factory.
Disconnect ==
  /\ "disconnect" \in Uses
  /\ cPc = "idle"
  /\ handle' = sock
  /\ cPc' = "bye"
  /\ UNCHANGED <<managerVars, clientState, sock, exitFlg, open, waiters, result, replied>>

\* The farewell message and sockClientStop, whatever they return; to_client
\* stores the network object's socket in the connection.
DisconnectRestore ==
  /\ cPc = "bye"
  /\ sock' = handle
  /\ cPc' = "restored"
  /\ UNCHANGED <<managerVars, clientState, exitFlg, open, waiters, callVars>>

DisconnectClose ==
  /\ cPc = "restored"
  /\ open' = open \ {sock}
  /\ cPc' = "closed"
  /\ UNCHANGED <<managerVars, clientState, sock, exitFlg, waiters, callVars>>

DisconnectExit ==
  /\ cPc = "closed"
  /\ exitFlg' = TRUE
  /\ cPc' = "join"
  /\ UNCHANGED <<managerVars, clientState, sock, open, waiters, callVars>>

\* try_join_for two seconds, then freeRcComm, whether the manager has ended or
\* not.
DisconnectFree ==
  /\ cPc = "join"
  /\ cPc' = "freed"
  /\ UNCHANGED <<managerVars, clientState, sock, exitFlg, open, waiters, callVars>>

-----------------------------------------------------------------------------
SpuriousWakeup ==
  /\ Spurious
  /\ \E t \in waiters : waiters' = waiters \ {t}
  /\ UNCHANGED <<managerVars, clientState, sock, exitFlg, open, cPc, callVars>>

\* Steps of the client that need the mutex, and what it goes on with by itself
\* once a call or a disconnect has begun.
Locking ==
  SendStart \/ SendWaitEnds \/ BadInput \/ SendSwitch \/ ReadStart
  \/ HeaderSwitch \/ ReadEnd \/ ReadWaitEnds
Network ==
  SendFactory \/ SendRequest \/ BadOutput \/ ReadFactory
  \/ ReadHeader \/ RereadHeader \/ ReadBody \/ CollStatWrite
Disconnecting ==
  DisconnectRestore \/ DisconnectClose \/ DisconnectExit \/ DisconnectFree

Client == Locking \/ Network \/ CollStatLoad \/ Disconnect \/ Disconnecting

Next == Manager \/ Client \/ SpuriousWakeup
Spec == Init /\ [][Next]_vars

\* Every thread runs; connecting, sending and reading end, well or not.  The
\* manager sleeps between two attempts, minutes long, without the mutex, so a
\* client that wants it gets it: strong fairness.  Nothing makes the
\* application start a call.  Once rcDisconnect is called only the client's own
\* steps are counted on: the manager may sleep, or hold the mutex waiting for a
\* server that never answers, for as long as it likes.  Spurious wakeups do not
\* go on for ever.
FairSpec ==
  /\ Spec
  /\ <>[][~SpuriousWakeup]_vars
  /\ WF_vars(cPc \notin Leaving /\ Manager)
  /\ WF_vars(Network \/ Disconnecting)
  /\ SF_vars(Locking /\ cPc # "idle")

-----------------------------------------------------------------------------
\* A call that uses conn->sock through a network object it made, outside the
\* mutex, never has it closed or replaced under it: the request, the header and
\* the body go over the connection's current, open socket.
HandleFresh == cPc \in InFlight => handle = sock /\ handle \in open

\* So does the answer to a progress report: cliReconnManager has "to wait until
\* the client stop sending".
StatReplyFresh == cPc = "collWrite" => handle = sock /\ handle \in open

\* Whenever the mutex is free no renewed socket is waiting to be switched to:
\* the two retries after a failed send ("should not be here") and a failed read
\* ("the socket might have changed") never find one.
NoSwitchLeft == LockFree => reconnectedSock <= 0

\* Until rcDisconnect, no descriptor is lost or closed twice: what is open is the
\* connection's socket and, while the manager makes it, the renewed one.
DescriptorsAccounted ==
  cPc \notin Leaving =>
    /\ sock # reconnectedSock
    /\ open = {sock, reconnectedSock} \cap Descriptors

\* A call, however it ends, leaves the connection in PROCESSING_STATE, so that a
\* manager waiting for the client is let through.
CallReleases == cPc = "idle" => clientState = "processing"

\* What a call leaves behind and what it finds: no renewed socket waits for a
\* retry, and the manager is let through.
CallsEndClean == NoSwitchLeft /\ CallReleases

\* The socket is replaced only in PROCESSING_STATE, never between a request and
\* its reply.
RenewedWhileProcessing == [][sock' # sock => clientState = "processing"]_vars

\* A client waiting "for reconnManager to get done" (cliChkReconnAtSendStart,
\* cliChkReconnAtReadEnd) goes on at some time.
ClientWaitEnds == cPc \in {"sendWait", "readWait"} ~> cPc \notin {"sendWait", "readWait"}

\* It does, as long as the manager has not ended.
ManagerLetsGo ==
  cPc \in {"sendWait", "readWait"} ~> cPc \notin {"sendWait", "readWait"} \/ mPc = "gone"

\* A manager waiting for the client to stop sending gets to reconnect: a call
\* that has begun ends, and its end lets the manager through, unless the
\* connection is freed first.
ManagerServed == mPc = "wait" ~> mPc = "connect" \/ cPc = "freed"

\* rcDisconnect returns, even if the manager never takes another step
\* (try_join_for gives up after two seconds, and no mutex is needed).
DisconnectEnds == cPc = "bye" ~> cPc = "freed"

\* Every wait of the two threads for each other ends, but for the manager that
\* has ended without a word.
WaitsEnd == ManagerLetsGo /\ ManagerServed /\ DisconnectEnds

\* "request shut down client-server connection": after rcDisconnect the process
\* has no socket to the server left.
DisconnectCloses == cPc = "freed" => open = {}

\* exit_flg is set to "force an interruption point": the manager has ended when
\* the handle it works on is freed.
ManagerEnded == cPc = "freed" => mPc = "gone"

\* "0 on success" (every rc API function): a call that returns no error has read
\* the server's reply.
SuccessMeansReply == cPc = "idle" /\ result = "ok" => replied
=============================================================================
