------------------------------ MODULE Connect ------------------------------
(***************************************************************************)
(* _rcConnect makes a connection to a server: sockets are tried until one  *)
(* connects, the start-up pack goes out, client and server negotiate       *)
(* whether the connection uses SSL, the server sends its version, and the  *)
(* network plugin starts what was negotiated.  An attempt that timed out   *)
(* is made once more on the same handle.                                   *)
(*                                                                         *)
(* The function runs in one thread, hence one program counter.  The server *)
(* and the network plugins are not in the repository: an exchange with     *)
(* them has every outcome its caller distinguishes, but for one: bytes     *)
(* written by the TCP plugin are read only by a server in "plain" mode,    *)
(* those of the SSL plugin only by one in "ssl" mode.  Users, zones,       *)
(* addresses and the keys of the SSL plugin are left out.                  *)
(***************************************************************************)
EXTENDS Integers

CONSTANTS
  Descriptors,   \* the file descriptors the process may be given
  MaxTries       \* MAX_CONN_RETRY_CNT

ASSUME DescriptorsAssumption == Descriptors \subseteq Nat \ {0}
ASSUME TriesAssumption == MaxTries \in Nat

VARIABLES
  setting,      \* what client and server are configured with
  conn,         \* the handle, rcComm_t
  peer,         \* the server's end of conn.sock
  open,         \* the descriptors that are open
  newSock,      \* the socket connectToRhostWithTout tries, or 0
  timeoutCnt,   \* its failed tries
  attempt,      \* calls of connectToRhost
  op,           \* what the application asked for last
  status,       \* what the function that returned last returned
  pc            \* where the thread is

tryVars == <<newSock, timeoutCnt>>
vars == <<setting, conn, peer, open, newSock, timeoutCnt, attempt, op, status, pc>>

Policies == {"require", "dontCare", "refuse"}
Settings ==
  [wants : {"absent", "contains", "equal"},   \* rodsClientServerNegotiation against
                                              \* the token that asks for negotiation
   option : BOOLEAN,                          \* does SP_OPTION hold the token?
   client : Policies \cup {"empty", "other"}, \* rodsClientServerPolicy
   negotiates : BOOLEAN,                      \* does the server know of negotiation?
   server : Policies \cup {"other"}]          \* the server's policy
Handles ==
  [sock : Descriptors \cup {0, -1},
   negotiation_results : {"none", "tcp", "ssl"},
   ssl : {"none", "live", "shut"},            \* conn->ssl: NULL, a session, one that
                                              \* has sent its close notify
   ssl_on : BOOLEAN,
   loggedIn : BOOLEAN]
\* What the server reads and writes on the connection (in "accepting" it waits for
\* an SSL handshake), and whether it has authenticated the client on it.
Peers == [mode : {"plain", "accepting", "ssl", "gone"}, authenticated : BOOLEAN]

Connecting ==
  {"connect", "try", "startup", "negotiate", "version", "start", "returned"}
Calling ==
  {"authRequest", "authResponse", "sslStart", "handshake", "certificate", "pamRequest",
   "sslEnd", "shutdown"}

TypeOK ==
  /\ setting \in Settings
  /\ conn \in Handles
  /\ peer \in Peers
  /\ open \subseteq Descriptors
  /\ newSock \in Descriptors \cup {0}
  /\ timeoutCnt \in 0 .. MaxTries
  /\ attempt \in {1, 2}
  /\ op \in {"connect", "request", "login", "password", "pam"}
  /\ status \in {"none", "ok", "error", "readTimeout"}
  /\ pc \in Connecting \cup {"opened", "idle", "failed", "crashed", "closed"} \cup Calling

Accepted == [mode |-> "plain", authenticated |-> FALSE]

\* The handle is zeroed, and user and host are set.
Init ==
  /\ setting \in Settings
  /\ conn = [sock |-> 0, negotiation_results |-> "none", ssl |-> "none",
             ssl_on |-> FALSE, loggedIn |-> FALSE]
  /\ peer = Accepted
  /\ open = {}
  /\ newSock = 0 /\ timeoutCnt = 0 /\ attempt = 1
  /\ op = "connect" /\ status = "none"
  /\ pc = "connect"

-----------------------------------------------------------------------------
(* Negotiation.                                                            *)

\* sendStartupPack adds the token only if the environment's value equals it;
\* the server negotiates if it finds the token in the option it was sent.
TokenSent == setting.wants = "equal" \/ setting.option
ServerNegotiates == setting.negotiates /\ TokenSent
\* The client waits for the server's policy if the value contains the token.
ClientWaits == setting.wants # "absent"

PolicyDefault == IF setting.client = "empty" THEN "dontCare" ELSE setting.client

\* The order in the comments of irods_client_server_negotiation.hpp.
PolicyIndexOfHeader(p) == CASE p = "refuse" -> 2 [] p = "dontCare" -> 3 [] OTHER -> 1

\* The row or column of a policy; a map yields 0 for a key it does not hold.
PolicyIndex(p) == CASE p = "dontCare" -> 2 [] p = "refuse" -> 3 [] OTHER -> 1
NegotiationTable ==
  << <<"ssl",  "ssl", "fail">>,
     <<"ssl",  "ssl", "tcp">>,
     <<"fail", "tcp", "tcp">> >>
Negotiate(client, server) == NegotiationTable[PolicyIndex(client)][PolicyIndex(server)]
NegotiationResult == Negotiate(PolicyDefault, setting.server)

\* What network_factory's choice for the handle writes, the server can read; an
\* SSL object works on the handle's session.
Readable ==
  IF conn.negotiation_results = "ssl"
  THEN peer.mode = "ssl" /\ conn.ssl = "live"
  ELSE peer.mode = "plain"

-----------------------------------------------------------------------------
(* connectToRhostWithTout.                                                 *)

\* Operators with a fault in their name are variants with that fault.
Close(d) == open' = open \ {d}

Return(s) == pc' = "returned" /\ status' = s
NoSock == conn' = [conn EXCEPT !.sock = -1]

CreateSocketUnbounded ==
  /\ pc = "connect"
  /\ \E d \in Descriptors \ open : open' = open \cup {d} /\ newSock' = d
  /\ pc' = "try"
  /\ UNCHANGED <<setting, conn, peer, timeoutCnt, attempt, op, status>>

\* create_nonblocking_socket.
CreateSocket ==
  /\ pc = "connect" /\ timeoutCnt < MaxTries
  /\ \E d \in Descriptors \ open : open' = open \cup {d} /\ newSock' = d
  /\ pc' = "try"
  /\ UNCHANGED <<setting, conn, peer, timeoutCnt, attempt, op, status>>

NoSocket ==
  /\ pc = "connect"
  /\ NoSock /\ Return("error")
  /\ UNCHANGED <<setting, peer, open, tryVars, attempt, op>>

TryAgainSameSocket ==
  /\ pc = "try"
  /\ Close(newSock)
  /\ UNCHANGED <<setting, conn, peer, newSock, timeoutCnt, attempt, op, status, pc>>

\* The connection is refused, by connect, select or SO_ERROR.
TryAgain ==
  /\ pc = "try"
  /\ Close(newSock)
  /\ newSock' = 0 /\ timeoutCnt' = timeoutCnt + 1
  /\ pc' = "connect"
  /\ UNCHANGED <<setting, conn, peer, attempt, op, status>>

\* A signal interrupts select: the next try is not counted.
TryInterrupted ==
  /\ pc = "try"
  /\ Close(newSock)
  /\ newSock' = 0
  /\ pc' = "connect"
  /\ UNCHANGED <<setting, conn, peer, timeoutCnt, attempt, op, status>>

\* select times out, or getsockopt or fcntl fails: no more tries.
TryFails ==
  /\ pc = "try"
  /\ Close(newSock)
  /\ newSock' = 0
  /\ NoSock /\ Return("error")
  /\ UNCHANGED <<setting, peer, timeoutCnt, attempt, op>>

TryConnects ==
  /\ pc = "try"
  /\ conn' = [conn EXCEPT !.sock = newSock]
  /\ newSock' = 0
  /\ peer' = Accepted
  /\ pc' = "startup"
  /\ UNCHANGED <<setting, open, timeoutCnt, attempt, op, status>>

-----------------------------------------------------------------------------
(* connectToRhost, once the socket is connected.  Only some of its early   *)
(* returns close the socket.                                               *)

SendStartupPack ==
  /\ pc = "startup" /\ Readable
  /\ pc' = IF ClientWaits THEN "negotiate" ELSE "version"
  /\ UNCHANGED <<setting, conn, peer, open, tryVars, attempt, op, status>>

StartupFails ==
  /\ pc = "startup"
  /\ Close(conn.sock) /\ Return("error")
  /\ UNCHANGED <<setting, conn, peer, tryVars, attempt, op>>

\* No message in time; or a broken one, another one (a server that does not
\* negotiate sends its version), or one without a policy; or the answer is not sent.
NegotiationFails ==
  /\ pc = "negotiate"
  /\ \E s \in {"error", "readTimeout"} : Return(s)
  /\ UNCHANGED <<setting, conn, peer, open, tryVars, attempt, op>>

\* The server is told, whether that works or not.  This is an error already, so that
\* connectToRhost's own test for a failed negotiation never sees one.
NegotiationIncompatible ==
  /\ pc = "negotiate" /\ ServerNegotiates
  /\ NegotiationResult = "fail"
  /\ Return("error")
  /\ UNCHANGED <<setting, conn, peer, open, tryVars, attempt, op>>

\* The server is told and the result goes into the handle.
Negotiated ==
  /\ pc = "negotiate" /\ ServerNegotiates
  /\ NegotiationResult # "fail"
  /\ conn' = [conn EXCEPT !.negotiation_results = NegotiationResult]
  /\ pc' = "version"
  /\ UNCHANGED <<setting, peer, open, tryVars, attempt, op, status>>

\* A server that negotiates does not send its version before it was answered.
ReadVersion ==
  /\ pc = "version"
  /\ ServerNegotiates => ClientWaits
  /\ pc' = "start"
  /\ UNCHANGED <<setting, conn, peer, open, tryVars, attempt, op, status>>

\* No version in time, a broken message, another one, or an error as version.
VersionFails ==
  /\ pc = "version"
  /\ Close(conn.sock)
  /\ \E s \in {"error", "readTimeout"} : Return(s)
  /\ UNCHANGED <<setting, conn, peer, tryVars, attempt, op>>

\* sockClientStart and to_client.
StartTcp ==
  /\ pc = "start" /\ conn.negotiation_results # "ssl"
  /\ Return("ok")
  /\ UNCHANGED <<setting, conn, peer, open, tryVars, attempt, op>>

StartSsl ==
  /\ pc = "start" /\ conn.negotiation_results = "ssl"
  /\ conn' = [conn EXCEPT !.ssl = "live"]
  /\ peer' = [peer EXCEPT !.mode = "ssl"]
  /\ Return("ok")
  /\ UNCHANGED <<setting, open, tryVars, attempt, op>>

StartFails ==
  /\ pc = "start"
  /\ Return("error")
  /\ UNCHANGED <<setting, conn, peer, open, tryVars, attempt, op>>

-----------------------------------------------------------------------------
(* _rcConnect, when connectToRhost has returned.                           *)

RetriesWithoutLimit == pc = "returned" /\ status = "readTimeout"
Retries == pc = "returned" /\ status = "readTimeout" /\ attempt = 1

\* The handle is used again as the first attempt left it.
Retry ==
  /\ Retries
  /\ attempt' = 2 /\ timeoutCnt' = 0
  /\ status' = "none" /\ pc' = "connect"
  /\ UNCHANGED <<setting, conn, peer, open, newSock, op>>

\* The handle is freed; nothing is closed.
GiveUp ==
  /\ pc = "returned" /\ status # "ok" /\ ~Retries
  /\ pc' = "failed"
  /\ UNCHANGED <<setting, conn, peer, open, tryVars, attempt, op, status>>

Opened ==
  /\ pc = "returned" /\ status = "ok"
  /\ pc' = "opened"
  /\ UNCHANGED <<setting, conn, peer, open, tryVars, attempt, op, status>>

\* The reconnection manager's thread cannot be made: no handle is returned, and
\* what it holds is neither freed nor closed.
ManagerFails ==
  /\ pc = "returned" /\ status = "ok"
  /\ pc' = "failed"
  /\ UNCHANGED <<setting, conn, peer, open, tryVars, attempt, op, status>>

TryDecided == TryAgain \/ TryFails \/ TryConnects
ConnectNext ==
  \/ CreateSocket \/ NoSocket \/ TryAgain \/ TryInterrupted \/ TryFails \/ TryConnects
  \/ SendStartupPack \/ StartupFails
  \/ NegotiationFails \/ NegotiationIncompatible \/ Negotiated
  \/ ReadVersion \/ VersionFails
  \/ StartTcp \/ StartSsl \/ StartFails
  \/ Retry \/ GiveUp \/ Opened \/ ManagerFails

-----------------------------------------------------------------------------
(* Properties.                                                             *)

\* connectToRhost and the calls after it work on a socket that is open, and
\* connectToRhostWithTout on the one it has just made: what an earlier try or
\* attempt closed is not used again.
SocketOpen ==
  /\ pc = "try" => newSock \in open
  /\ pc \in {"startup", "negotiate", "version", "start", "opened", "idle"} \cup Calling
       => conn.sock \in open

\* Of the sockets a call of _rcConnect makes, however many tries and attempts it
\* takes, at most one is left behind besides the handle's: the one of a first
\* attempt that timed out in the negotiation.
OneLeftBehind ==
  /\ attempt = 1 => open \subseteq {conn.sock, newSock}
  /\ \E d \in Descriptors \cup {0, -1} : open \subseteq {conn.sock, newSock, d}

\* No socket is used after it was closed, and none but one is lost.
SocketsKept == SocketOpen /\ OneLeftBehind

\* The handle _rcConnect returns works, and in the way both ends' policies ask
\* for ("client-server negotiation"): the server reads what the client writes; if
\* they negotiated, an end that requires SSL has it, one that refuses it has not.
OpenedAsAgreed ==
  pc = "opened" =>
    /\ Readable
    /\ ClientWaits => ServerNegotiates
    /\ ClientWaits =>
         LET ends == {PolicyDefault, setting.server} IN
         /\ "require" \in ends => conn.negotiation_results = "ssl"
         /\ "refuse" \in ends => conn.negotiation_results = "tcp"
    /\ ~ClientWaits => conn.negotiation_results # "ssl"

\* The start-up pack, the first thing a server reads, is written by the TCP
\* object: "our only criteria on the network object is whether SSL has been
\* enabled".  The handle of a retry may still hold the first attempt's result.
StartupPlain == pc = "startup" => conn.negotiation_results # "ssl"

\* _rcConnect returns, whatever fails or times out.
ConnectEnds == <>(pc \in {"opened", "failed"})
=============================================================================
