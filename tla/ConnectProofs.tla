--------------------------- MODULE ConnectProofs ---------------------------
(***************************************************************************)
(* Theorems about Connect and Login, for every set of descriptors and      *)
(* every number of tries.                                                  *)
(***************************************************************************)
EXTENDS Login, TLAPS

\* A descriptor is a positive number.
LEMMA DescriptorsPositive ==
  /\ Descriptors \subseteq Int
  /\ \A d \in Descriptors : d > 0
BY DescriptorsAssumption

-----------------------------------------------------------------------------
(* Sockets.                                                                *)

Using == {"startup", "negotiate", "version", "start", "opened", "idle"} \cup Calling

\* The socket this attempt has made: the one being tried, then the handle's.
Mine == IF pc \in {"connect", "try"} THEN newSock ELSE conn.sock

\* What makes SocketOpen and OneLeftBehind inductive: a socket is only tried when it
\* has just been made, and is open until a step that returns an error; but for it
\* only a socket of the first attempt is open.
SocketInv ==
  /\ IF pc = "try" THEN newSock \in open ELSE newSock = 0
  /\ pc \in Using => conn.sock \in open
  /\ pc = "returned" /\ status = "ok" => conn.sock \in open
  /\ attempt = 1 => open \subseteq {Mine}
  /\ \E d \in Descriptors \cup {0, -1} : open \subseteq {Mine, d}

-----------------------------------------------------------------------------
(* What the ends agree on.                                                 *)

\* The handle has the result of the table if the client waits for the server's
\* policy, otherwise anything but SSL.
Agreed ==
  /\ ClientWaits =>
       ServerNegotiates /\ NegotiationResult # "fail"
         /\ conn.negotiation_results = NegotiationResult
  /\ ~ClientWaits => conn.negotiation_results # "ssl"

\* What makes OpenedAsAgreed inductive: the server reads plain text until sockClientStart,
\* and from the negotiation on the handle has what was agreed.
AgreedInv ==
  /\ pc \in {"startup", "negotiate", "version", "start"} => peer.mode = "plain"
  /\ pc = "negotiate" => ClientWaits
  /\ pc \in {"version", "start"} => Agreed
  /\ pc = "returned" /\ status = "ok" => Readable /\ Agreed
  /\ pc = "opened" => Readable /\ Agreed

\* What makes LoginSound inductive.
LoginInv ==
  /\ pc \in Connecting => ~conn.loggedIn
  /\ pc \in {"authRequest", "authResponse"} => op \in {"login", "password"}
  /\ pc \in Calling \ {"authRequest", "authResponse"} => op = "pam"
  /\ LoginSound

\* What makes PamAgreement inductive: sslEnd finds the ends agreeing if the request
\* succeeded, and its own request leaves a server that reads plain text.
PamInv ==
  /\ pc \in {"authRequest", "authResponse"} => op # "pam"
  /\ pc = "sslEnd" /\ status = "ok" => Readable \/ peer.mode = "gone"
  /\ pc = "shutdown" => peer.mode \in {"plain", "gone"}
  /\ PamAgreement

-----------------------------------------------------------------------------
\* What makes the types inductive: another socket is tried only while tries are left.
ITypeInv ==
  /\ TypeOK
  /\ pc = "try" => timeoutCnt < MaxTries

\* What a policy is made of, the table holds one of three results for.
LEMMA NegotiationResultType == NegotiationResult \in {"ssl", "tcp", "fail"}
<1>1. \A p : PolicyIndex(p) \in 1 .. 3
  BY DEF PolicyIndex
<1>2. \A i, j \in 1 .. 3 : NegotiationTable[i][j] \in {"ssl", "tcp", "fail"}
  BY DEF NegotiationTable
<1> QED BY <1>1, <1>2 DEF NegotiationResult, Negotiate

\* _rcConnect's handle has the types.
LEMMA TypeInit == Init => ITypeInv
<1> SUFFICES ASSUME Init PROVE ITypeInv
  OBVIOUS
<1>1. conn \in Handles /\ peer \in Peers
  BY DEF Init, Handles, Peers, Accepted
<1>2. newSock = 0 /\ timeoutCnt = 0 /\ attempt = 1 /\ open = {} /\ setting \in Settings
  BY DEF Init
<1> QED BY <1>1, <1>2, TriesAssumption DEF Init, ITypeInv, TypeOK, Connecting

\* Every step of _rcConnect keeps the types.
LEMMA TypeConnect == ITypeInv /\ ConnectNext => ITypeInv'
<1> SUFFICES ASSUME ITypeInv, ConnectNext PROVE ITypeInv'
  OBVIOUS
<1> USE DescriptorsPositive, TriesAssumption DEF ITypeInv, TypeOK, Handles, Peers,
    Connecting, Calling, tryVars
<1>1. CASE CreateSocket
  BY <1>1 DEF CreateSocket
<1>2. CASE NoSocket
  BY <1>2 DEF NoSocket, NoSock, Return
<1>3. CASE TryAgain
  BY <1>3 DEF TryAgain, Close
<1>4. CASE TryInterrupted
  BY <1>4 DEF TryInterrupted, Close
<1>5. CASE TryFails
  BY <1>5 DEF TryFails, Close, NoSock, Return
<1>6. CASE TryConnects
  BY <1>6 DEF TryConnects, Accepted
<1>7. CASE SendStartupPack
  BY <1>7 DEF SendStartupPack
<1>8. CASE StartupFails
  <2>1. open' \subseteq Descriptors
    BY <1>8 DEF StartupFails, Close, Return
  <2> QED BY <1>8, <2>1 DEF StartupFails, Return
<1>9. CASE NegotiationFails
  BY <1>9 DEF NegotiationFails, Return
<1>10. CASE NegotiationIncompatible
  BY <1>10 DEF NegotiationIncompatible, Return
<1>11. CASE Negotiated
  <2>1. NegotiationResult \in {"ssl", "tcp"}
    BY <1>11, NegotiationResultType DEF Negotiated
  <2> QED BY <1>11, <2>1 DEF Negotiated
<1>12. CASE ReadVersion
  BY <1>12 DEF ReadVersion
<1>13. CASE VersionFails
  <2>1. open' \subseteq Descriptors
    BY <1>13 DEF VersionFails, Close, Return
  <2> QED BY <1>13, <2>1 DEF VersionFails, Return
<1>14. CASE StartTcp
  BY <1>14 DEF StartTcp, Return
<1>15. CASE StartSsl
  BY <1>15 DEF StartSsl, Return
<1>16. CASE StartFails
  BY <1>16 DEF StartFails, Return
<1>17. CASE Retry
  BY <1>17 DEF Retry, Retries
<1>18. CASE GiveUp
  BY <1>18 DEF GiveUp, Retries
<1>19. CASE Opened
  BY <1>19 DEF Opened
<1>20. CASE ManagerFails
  BY <1>20 DEF ManagerFails
<1> QED BY <1>1, <1>2, <1>3, <1>4, <1>5, <1>6, <1>7, <1>8, <1>9, <1>10, <1>11,
    <1>12, <1>13, <1>14, <1>15, <1>16, <1>17, <1>18, <1>19, <1>20 DEF ConnectNext

\* So does every call of the application.
LEMMA TypeLogin == ITypeInv /\ LoginNext => ITypeInv'
<1> SUFFICES ASSUME ITypeInv, LoginNext PROVE ITypeInv'
  OBVIOUS
<1> USE DescriptorsPositive, TriesAssumption DEF ITypeInv, TypeOK, Handles, Peers,
    Connecting, Calling, tryVars
<1>1. CASE CallRequest
  BY <1>1 DEF CallRequest, Ready, Done, RequestFails, Gone
<1>2. CASE CallLogin
  BY <1>2 DEF CallLogin, Ready, CallBegins
<1>3. CASE CallLoginAgain
  BY <1>3 DEF CallLoginAgain, Ready, Done
<1>4. CASE CallPam
  BY <1>4 DEF CallPam, Ready, CallBegins
<1>5. CASE CallDisconnect
  <2>1. open' \subseteq Descriptors
    BY <1>5 DEF CallDisconnect, Ready, Close
  <2> QED BY <1>5, <2>1 DEF CallDisconnect, Ready
<1>6. CASE AuthRequest
  BY <1>6 DEF AuthRequest
<1>7. CASE AuthRequestFails
  BY <1>7 DEF AuthRequestFails, RequestFails, Done, Gone
<1>8. CASE AuthRequestEmpty
  BY <1>8 DEF AuthRequestEmpty, Gone, Done
<1>9. CASE AuthResponse
  <2>1. \A a \in BOOLEAN : [mode |-> "gone", authenticated |-> a] \in Peers
    OBVIOUS
  <2>2. [peer EXCEPT !.authenticated = TRUE] \in Peers
    OBVIOUS
  <2>3. peer' \in Peers
    BY <1>9, <2>1, <2>2 DEF AuthResponse
  <2>4. conn' \in Handles
    BY <1>9 DEF AuthResponse, LoggedIn
  <2> QED BY <1>9, <2>3, <2>4 DEF AuthResponse, Done
<1>10. CASE AuthResponseRefused
  <2>1. [mode |-> "gone", authenticated |-> TRUE] \in Peers
    OBVIOUS
  <2>2. [peer EXCEPT !.mode = "gone"] \in Peers
    OBVIOUS
  <2>3. peer' \in Peers
    BY <1>10, <2>1, <2>2 DEF AuthResponseRefused, RequestFails, Gone
  <2> QED BY <1>10, <2>3 DEF AuthResponseRefused, Refused, Done
<1>11. CASE SslIsOn
  BY <1>11 DEF SslIsOn
<1>12. CASE SslStart
  BY <1>12 DEF SslStart
<1>13. CASE SslStartFails
  BY <1>13 DEF SslStartFails, RequestFails, Done, Gone
<1>14. CASE Handshake
  BY <1>14 DEF Handshake
<1>15. CASE HandshakeFails
  BY <1>15 DEF HandshakeFails, RequestFails, Done, Gone
<1>16. CASE CertificateOk
  BY <1>16 DEF CertificateOk, SslStarted
<1>17. CASE CertificateFails
  BY <1>17 DEF CertificateFails
<1>18. CASE PamRequest
  BY <1>18 DEF PamRequest
<1>19. CASE PamRequestFails
  BY <1>19 DEF PamRequestFails, RequestFails, Gone
<1>20. CASE PamRequestEmpty
  BY <1>20 DEF PamRequestEmpty, Gone
<1>21. CASE SslEnd
  BY <1>21 DEF SslEnd
<1>22. CASE SslEndFails
  BY <1>22 DEF SslEndFails, RequestFails, PamEnds, Gone
<1>23. CASE Shutdown
  BY <1>23 DEF Shutdown, ShutdownDone, PamEnds
<1>24. CASE ShutdownFails
  BY <1>24 DEF ShutdownFails, PamEnds
<1> QED BY <1>1, <1>2, <1>3, <1>4, <1>5, <1>6, <1>7, <1>8, <1>9, <1>10, <1>11,
    <1>12, <1>13, <1>14, <1>15, <1>16, <1>17, <1>18, <1>19, <1>20, <1>21, <1>22,
        <1>23, <1>24 DEF LoginNext

\* Every step of _rcConnect keeps what SocketOpen rests on.
LEMMA SocketConnect == ITypeInv /\ SocketInv /\ ConnectNext => SocketInv'
<1> SUFFICES ASSUME ITypeInv /\ SocketInv, ConnectNext PROVE SocketInv'
  OBVIOUS
<1> USE DescriptorsPositive DEF ITypeInv, TypeOK, Handles, SocketInv, Mine, Using,
    Calling, tryVars
<1>1. CASE CreateSocket
  <2>1. PICK d \in Descriptors : open' = open \cup {d} /\ newSock' = d
    BY <1>1 DEF CreateSocket
  <2>2. pc = "connect" /\ newSock = 0 /\ pc' = "try" /\ attempt' = attempt
    BY <1>1 DEF CreateSocket
  <2>3. Mine' = d /\ 0 \notin open
    BY <2>1, <2>2
  <2>4. PICK e \in Descriptors \cup {0, -1} : open \subseteq {Mine, e}
    OBVIOUS
  <2>5. open' \subseteq {Mine', e}
    BY <2>1, <2>2, <2>3, <2>4
  <2>6. attempt' = 1 => open' \subseteq {Mine'}
    BY <2>1, <2>2, <2>3
  <2> QED BY <2>1, <2>2, <2>4, <2>5, <2>6
<1>2. CASE NoSocket
  BY <1>2 DEF NoSocket, NoSock, Return
<1>3. CASE TryAgain
  BY <1>3 DEF TryAgain, Close
<1>4. CASE TryInterrupted
  BY <1>4 DEF TryInterrupted, Close
<1>5. CASE TryFails
  BY <1>5 DEF TryFails, Close, NoSock, Return
<1>6. CASE TryConnects
  BY <1>6 DEF TryConnects, Accepted
<1>7. CASE SendStartupPack
  BY <1>7 DEF SendStartupPack
<1>8. CASE StartupFails
  BY <1>8 DEF StartupFails, Close, Return
<1>9. CASE NegotiationFails
  BY <1>9 DEF NegotiationFails, Return
<1>10. CASE NegotiationIncompatible
  BY <1>10 DEF NegotiationIncompatible, Return
<1>11. CASE Negotiated
  BY <1>11 DEF Negotiated
<1>12. CASE ReadVersion
  BY <1>12 DEF ReadVersion
<1>13. CASE VersionFails
  BY <1>13 DEF VersionFails, Close, Return
<1>14. CASE StartTcp
  BY <1>14 DEF StartTcp, Return
<1>15. CASE StartSsl
  BY <1>15 DEF StartSsl, Return
<1>16. CASE StartFails
  BY <1>16 DEF StartFails, Return
<1>17. CASE Retry
  BY <1>17 DEF Retry, Retries
<1>18. CASE GiveUp
  BY <1>18 DEF GiveUp, Retries
<1>19. CASE Opened
  BY <1>19 DEF Opened
<1>20. CASE ManagerFails
  BY <1>20 DEF ManagerFails
<1> QED BY <1>1, <1>2, <1>3, <1>4, <1>5, <1>6, <1>7, <1>8, <1>9, <1>10, <1>11,
    <1>12, <1>13, <1>14, <1>15, <1>16, <1>17, <1>18, <1>19, <1>20 DEF ConnectNext

\* A call works on the handle's socket until rcDisconnect closes it.
LEMMA SocketLogin == ITypeInv /\ SocketInv /\ LoginNext => SocketInv'
<1> SUFFICES ASSUME ITypeInv /\ SocketInv, LoginNext PROVE SocketInv'
  OBVIOUS
<1> USE DescriptorsPositive DEF ITypeInv, TypeOK, Handles, SocketInv, Mine, Using,
    Calling, tryVars
<1>1. CASE CallRequest
  BY <1>1 DEF CallRequest, Ready, Done, RequestFails, Gone
<1>2. CASE CallLogin
  BY <1>2 DEF CallLogin, Ready, CallBegins
<1>3. CASE CallLoginAgain
  BY <1>3 DEF CallLoginAgain, Ready, Done
<1>4. CASE CallPam
  BY <1>4 DEF CallPam, Ready, CallBegins
<1>5. CASE CallDisconnect
  BY <1>5 DEF CallDisconnect, Ready, Close
<1>6. CASE AuthRequest
  BY <1>6 DEF AuthRequest
<1>7. CASE AuthRequestFails
  BY <1>7 DEF AuthRequestFails, RequestFails, Done, Gone
<1>8. CASE AuthRequestEmpty
  BY <1>8 DEF AuthRequestEmpty, Gone, Done
<1>9. CASE AuthResponse
  BY <1>9 DEF AuthResponse, LoggedIn, Done
<1>10. CASE AuthResponseRefused
  BY <1>10 DEF AuthResponseRefused, RequestFails, Refused, Done, Gone
<1>11. CASE SslIsOn
  BY <1>11 DEF SslIsOn
<1>12. CASE SslStart
  BY <1>12 DEF SslStart
<1>13. CASE SslStartFails
  BY <1>13 DEF SslStartFails, RequestFails, Done, Gone
<1>14. CASE Handshake
  BY <1>14 DEF Handshake
<1>15. CASE HandshakeFails
  BY <1>15 DEF HandshakeFails, RequestFails, Done, Gone
<1>16. CASE CertificateOk
  BY <1>16 DEF CertificateOk, SslStarted
<1>17. CASE CertificateFails
  BY <1>17 DEF CertificateFails
<1>18. CASE PamRequest
  BY <1>18 DEF PamRequest
<1>19. CASE PamRequestFails
  BY <1>19 DEF PamRequestFails, RequestFails, Gone
<1>20. CASE PamRequestEmpty
  BY <1>20 DEF PamRequestEmpty, Gone
<1>21. CASE SslEnd
  BY <1>21 DEF SslEnd
<1>22. CASE SslEndFails
  BY <1>22 DEF SslEndFails, RequestFails, PamEnds, Gone
<1>23. CASE Shutdown
  BY <1>23 DEF Shutdown, ShutdownDone, PamEnds
<1>24. CASE ShutdownFails
  BY <1>24 DEF ShutdownFails, PamEnds
<1> QED BY <1>1, <1>2, <1>3, <1>4, <1>5, <1>6, <1>7, <1>8, <1>9, <1>10, <1>11,
    <1>12, <1>13, <1>14, <1>15, <1>16, <1>17, <1>18, <1>19, <1>20, <1>21, <1>22,
        <1>23, <1>24 DEF LoginNext

\* The configuration, and with it what can be agreed, does not change.
LEMMA SettingKept ==
  UNCHANGED setting => UNCHANGED <<ClientWaits, ServerNegotiates, NegotiationResult>>
BY DEF ClientWaits, ServerNegotiates, TokenSent, NegotiationResult, Negotiate, PolicyDefault,
       PolicyIndex, NegotiationTable

\* Every step of _rcConnect keeps what OpenedAsAgreed rests on.
LEMMA AgreedConnect == ITypeInv /\ AgreedInv /\ ConnectNext => AgreedInv'
<1> SUFFICES ASSUME ITypeInv /\ AgreedInv, ConnectNext PROVE AgreedInv'
  OBVIOUS
<1> USE DEF ITypeInv, TypeOK, Handles, Peers, AgreedInv, Agreed, Readable, Calling,
    tryVars
<1>1. CASE CreateSocket
  BY <1>1 DEF CreateSocket
<1>2. CASE NoSocket
  BY <1>2 DEF NoSocket, NoSock, Return
<1>3. CASE TryAgain
  BY <1>3 DEF TryAgain, Close
<1>4. CASE TryInterrupted
  BY <1>4 DEF TryInterrupted, Close
<1>5. CASE TryFails
  BY <1>5 DEF TryFails, Close, NoSock, Return
<1>6. CASE TryConnects
  BY <1>6 DEF TryConnects, Accepted
<1>7. CASE SendStartupPack
  <2>1. UNCHANGED <<ClientWaits, ServerNegotiates, NegotiationResult>>
    BY <1>7, SettingKept DEF SendStartupPack
  <2> QED BY <1>7, <2>1 DEF SendStartupPack
<1>8. CASE StartupFails
  BY <1>8 DEF StartupFails, Close, Return
<1>9. CASE NegotiationFails
  BY <1>9 DEF NegotiationFails, Return
<1>10. CASE NegotiationIncompatible
  BY <1>10 DEF NegotiationIncompatible, Return
<1>11. CASE Negotiated
  <2>1. UNCHANGED <<ClientWaits, ServerNegotiates, NegotiationResult>>
    BY <1>11, SettingKept DEF Negotiated
  <2> QED BY <1>11, <2>1 DEF Negotiated
<1>12. CASE ReadVersion
  <2>1. UNCHANGED <<ClientWaits, ServerNegotiates, NegotiationResult>>
    BY <1>12, SettingKept DEF ReadVersion
  <2> QED BY <1>12, <2>1 DEF ReadVersion
<1>13. CASE VersionFails
  BY <1>13 DEF VersionFails, Close, Return
<1>14. CASE StartTcp
  <2>1. UNCHANGED <<ClientWaits, ServerNegotiates, NegotiationResult>>
    BY <1>14, SettingKept DEF StartTcp
  <2> QED BY <1>14, <2>1 DEF StartTcp, Return
<1>15. CASE StartSsl
  <2>1. UNCHANGED <<ClientWaits, ServerNegotiates, NegotiationResult>>
    BY <1>15, SettingKept DEF StartSsl
  <2> QED BY <1>15, <2>1 DEF StartSsl, Return
<1>16. CASE StartFails
  BY <1>16 DEF StartFails, Return
<1>17. CASE Retry
  BY <1>17 DEF Retry, Retries
<1>18. CASE GiveUp
  BY <1>18 DEF GiveUp, Retries
<1>19. CASE Opened
  <2>1. UNCHANGED <<ClientWaits, ServerNegotiates, NegotiationResult>>
    BY <1>19, SettingKept DEF Opened
  <2> QED BY <1>19, <2>1 DEF Opened
<1>20. CASE ManagerFails
  BY <1>20 DEF ManagerFails
<1> QED BY <1>1, <1>2, <1>3, <1>4, <1>5, <1>6, <1>7, <1>8, <1>9, <1>10, <1>11,
    <1>12, <1>13, <1>14, <1>15, <1>16, <1>17, <1>18, <1>19, <1>20 DEF ConnectNext

\* A call leaves the states AgreedInv is about.
LEMMA AgreedLogin == ITypeInv /\ AgreedInv /\ LoginNext => AgreedInv'
<1> SUFFICES ASSUME ITypeInv /\ AgreedInv, LoginNext PROVE AgreedInv'
  OBVIOUS
<1> USE DEF ITypeInv, TypeOK, Handles, Peers, AgreedInv, Agreed, Readable, Calling,
    tryVars
<1>1. CASE CallRequest
  BY <1>1 DEF CallRequest, Ready, Done, RequestFails, Gone
<1>2. CASE CallLogin
  BY <1>2 DEF CallLogin, Ready, CallBegins
<1>3. CASE CallLoginAgain
  BY <1>3 DEF CallLoginAgain, Ready, Done
<1>4. CASE CallPam
  BY <1>4 DEF CallPam, Ready, CallBegins
<1>5. CASE CallDisconnect
  BY <1>5 DEF CallDisconnect, Ready, Close
<1>6. CASE AuthRequest
  BY <1>6 DEF AuthRequest
<1>7. CASE AuthRequestFails
  BY <1>7 DEF AuthRequestFails, RequestFails, Done, Gone
<1>8. CASE AuthRequestEmpty
  BY <1>8 DEF AuthRequestEmpty, Gone, Done
<1>9. CASE AuthResponse
  BY <1>9 DEF AuthResponse, LoggedIn, Done
<1>10. CASE AuthResponseRefused
  BY <1>10 DEF AuthResponseRefused, RequestFails, Refused, Done, Gone
<1>11. CASE SslIsOn
  BY <1>11 DEF SslIsOn
<1>12. CASE SslStart
  BY <1>12 DEF SslStart
<1>13. CASE SslStartFails
  BY <1>13 DEF SslStartFails, RequestFails, Done, Gone
<1>14. CASE Handshake
  BY <1>14 DEF Handshake
<1>15. CASE HandshakeFails
  BY <1>15 DEF HandshakeFails, RequestFails, Done, Gone
<1>16. CASE CertificateOk
  BY <1>16 DEF CertificateOk, SslStarted
<1>17. CASE CertificateFails
  BY <1>17 DEF CertificateFails
<1>18. CASE PamRequest
  BY <1>18 DEF PamRequest
<1>19. CASE PamRequestFails
  BY <1>19 DEF PamRequestFails, RequestFails, Gone
<1>20. CASE PamRequestEmpty
  BY <1>20 DEF PamRequestEmpty, Gone
<1>21. CASE SslEnd
  BY <1>21 DEF SslEnd
<1>22. CASE SslEndFails
  BY <1>22 DEF SslEndFails, RequestFails, PamEnds, Gone
<1>23. CASE Shutdown
  BY <1>23 DEF Shutdown, ShutdownDone, PamEnds
<1>24. CASE ShutdownFails
  BY <1>24 DEF ShutdownFails, PamEnds
<1> QED BY <1>1, <1>2, <1>3, <1>4, <1>5, <1>6, <1>7, <1>8, <1>9, <1>10, <1>11,
    <1>12, <1>13, <1>14, <1>15, <1>16, <1>17, <1>18, <1>19, <1>20, <1>21, <1>22,
        <1>23, <1>24 DEF LoginNext

\* Until _rcConnect returns nobody is logged in.
LEMMA LoginConnect == ITypeInv /\ LoginInv /\ ConnectNext => LoginInv'
<1> SUFFICES ASSUME ITypeInv /\ LoginInv, ConnectNext PROVE LoginInv'
  OBVIOUS
<1> USE DEF ITypeInv, TypeOK, Handles, Peers, LoginInv, LoginSound, Connecting,
    Calling, tryVars
<1>1. CASE CreateSocket
  BY <1>1 DEF CreateSocket
<1>2. CASE NoSocket
  BY <1>2 DEF NoSocket, NoSock, Return
<1>3. CASE TryAgain
  BY <1>3 DEF TryAgain, Close
<1>4. CASE TryInterrupted
  BY <1>4 DEF TryInterrupted, Close
<1>5. CASE TryFails
  BY <1>5 DEF TryFails, Close, NoSock, Return
<1>6. CASE TryConnects
  BY <1>6 DEF TryConnects, Accepted
<1>7. CASE SendStartupPack
  BY <1>7 DEF SendStartupPack
<1>8. CASE StartupFails
  BY <1>8 DEF StartupFails, Close, Return
<1>9. CASE NegotiationFails
  BY <1>9 DEF NegotiationFails, Return
<1>10. CASE NegotiationIncompatible
  BY <1>10 DEF NegotiationIncompatible, Return
<1>11. CASE Negotiated
  BY <1>11 DEF Negotiated
<1>12. CASE ReadVersion
  BY <1>12 DEF ReadVersion
<1>13. CASE VersionFails
  BY <1>13 DEF VersionFails, Close, Return
<1>14. CASE StartTcp
  BY <1>14 DEF StartTcp, Return
<1>15. CASE StartSsl
  BY <1>15 DEF StartSsl, Return
<1>16. CASE StartFails
  BY <1>16 DEF StartFails, Return
<1>17. CASE Retry
  BY <1>17 DEF Retry, Retries
<1>18. CASE GiveUp
  BY <1>18 DEF GiveUp, Retries
<1>19. CASE Opened
  BY <1>19 DEF Opened
<1>20. CASE ManagerFails
  BY <1>20 DEF ManagerFails
<1> QED BY <1>1, <1>2, <1>3, <1>4, <1>5, <1>6, <1>7, <1>8, <1>9, <1>10, <1>11,
    <1>12, <1>13, <1>14, <1>15, <1>16, <1>17, <1>18, <1>19, <1>20 DEF ConnectNext

\* Every call keeps what LoginSound rests on.
LEMMA LoginLogin == ITypeInv /\ LoginInv /\ LoginNext => LoginInv'
<1> SUFFICES ASSUME ITypeInv /\ LoginInv, LoginNext PROVE LoginInv'
  OBVIOUS
<1> USE DEF ITypeInv, TypeOK, Handles, Peers, LoginInv, LoginSound, Connecting,
    Calling, tryVars
<1>1. CASE CallRequest
  BY <1>1 DEF CallRequest, Ready, Readable, Done, RequestFails, Gone
<1>2. CASE CallLogin
  BY <1>2 DEF CallLogin, Ready, CallBegins
<1>3. CASE CallLoginAgain
  BY <1>3 DEF CallLoginAgain, Ready, Done
<1>4. CASE CallPam
  BY <1>4 DEF CallPam, Ready, CallBegins
<1>5. CASE CallDisconnect
  BY <1>5 DEF CallDisconnect, Ready, Close
<1>6. CASE AuthRequest
  BY <1>6 DEF AuthRequest, Readable
<1>7. CASE AuthRequestFails
  BY <1>7 DEF AuthRequestFails, RequestFails, Done, Gone
<1>8. CASE AuthRequestEmpty
  BY <1>8 DEF AuthRequestEmpty, Readable, Gone, Done
<1>9. CASE AuthResponse
  BY <1>9 DEF AuthResponse, Readable, LoggedIn, Done
<1>10. CASE AuthResponseRefused
  BY <1>10 DEF AuthResponseRefused, RequestFails, Readable, Refused, Done, Gone
<1>11. CASE SslIsOn
  BY <1>11 DEF SslIsOn
<1>12. CASE SslStart
  BY <1>12 DEF SslStart, Readable
<1>13. CASE SslStartFails
  BY <1>13 DEF SslStartFails, RequestFails, Done, Gone
<1>14. CASE Handshake
  BY <1>14 DEF Handshake
<1>15. CASE HandshakeFails
  BY <1>15 DEF HandshakeFails, RequestFails, Done, Gone
<1>16. CASE CertificateOk
  BY <1>16 DEF CertificateOk, SslStarted
<1>17. CASE CertificateFails
  BY <1>17 DEF CertificateFails
<1>18. CASE PamRequest
  BY <1>18 DEF PamRequest, Readable
<1>19. CASE PamRequestFails
  BY <1>19 DEF PamRequestFails, RequestFails, Gone
<1>20. CASE PamRequestEmpty
  BY <1>20 DEF PamRequestEmpty, Readable, Gone
<1>21. CASE SslEnd
  BY <1>21 DEF SslEnd, Readable
<1>22. CASE SslEndFails
  BY <1>22 DEF SslEndFails, RequestFails, PamEnds, Gone
<1>23. CASE Shutdown
  BY <1>23 DEF Shutdown, ShutdownDone, PamEnds
<1>24. CASE ShutdownFails
  BY <1>24 DEF ShutdownFails, PamEnds
<1> QED BY <1>1, <1>2, <1>3, <1>4, <1>5, <1>6, <1>7, <1>8, <1>9, <1>10, <1>11,
    <1>12, <1>13, <1>14, <1>15, <1>16, <1>17, <1>18, <1>19, <1>20, <1>21, <1>22,
        <1>23, <1>24 DEF LoginNext

\* _rcConnect leaves nothing to PamAgreement.
LEMMA PamConnect == ITypeInv /\ PamInv /\ ConnectNext => PamInv'
<1> SUFFICES ASSUME ITypeInv /\ PamInv, ConnectNext PROVE PamInv'
  OBVIOUS
<1> USE DEF ITypeInv, TypeOK, Handles, Peers, PamInv, PamAgreement, Readable, tryVars
<1>1. CASE CreateSocket
  BY <1>1 DEF CreateSocket
<1>2. CASE NoSocket
  BY <1>2 DEF NoSocket, NoSock, Return
<1>3. CASE TryAgain
  BY <1>3 DEF TryAgain, Close
<1>4. CASE TryInterrupted
  BY <1>4 DEF TryInterrupted, Close
<1>5. CASE TryFails
  BY <1>5 DEF TryFails, Close, NoSock, Return
<1>6. CASE TryConnects
  BY <1>6 DEF TryConnects, Accepted
<1>7. CASE SendStartupPack
  BY <1>7 DEF SendStartupPack
<1>8. CASE StartupFails
  BY <1>8 DEF StartupFails, Close, Return
<1>9. CASE NegotiationFails
  BY <1>9 DEF NegotiationFails, Return
<1>10. CASE NegotiationIncompatible
  BY <1>10 DEF NegotiationIncompatible, Return
<1>11. CASE Negotiated
  BY <1>11 DEF Negotiated
<1>12. CASE ReadVersion
  BY <1>12 DEF ReadVersion
<1>13. CASE VersionFails
  BY <1>13 DEF VersionFails, Close, Return
<1>14. CASE StartTcp
  BY <1>14 DEF StartTcp, Return
<1>15. CASE StartSsl
  BY <1>15 DEF StartSsl, Return
<1>16. CASE StartFails
  BY <1>16 DEF StartFails, Return
<1>17. CASE Retry
  BY <1>17 DEF Retry, Retries
<1>18. CASE GiveUp
  BY <1>18 DEF GiveUp, Retries
<1>19. CASE Opened
  BY <1>19 DEF Opened
<1>20. CASE ManagerFails
  BY <1>20 DEF ManagerFails
<1> QED BY <1>1, <1>2, <1>3, <1>4, <1>5, <1>6, <1>7, <1>8, <1>9, <1>10, <1>11,
    <1>12, <1>13, <1>14, <1>15, <1>16, <1>17, <1>18, <1>19, <1>20 DEF ConnectNext

\* Every call keeps what PamAgreement rests on.
LEMMA PamLogin == ITypeInv /\ PamInv /\ LoginNext => PamInv'
<1> SUFFICES ASSUME ITypeInv /\ PamInv, LoginNext PROVE PamInv'
  OBVIOUS
<1> USE DEF ITypeInv, TypeOK, Handles, Peers, PamInv, PamAgreement, Readable, tryVars
<1>1. CASE CallRequest
  BY <1>1 DEF CallRequest, Ready, Done, RequestFails, Gone
<1>2. CASE CallLogin
  BY <1>2 DEF CallLogin, Ready, CallBegins
<1>3. CASE CallLoginAgain
  BY <1>3 DEF CallLoginAgain, Ready, Done
<1>4. CASE CallPam
  BY <1>4 DEF CallPam, Ready, CallBegins
<1>5. CASE CallDisconnect
  BY <1>5 DEF CallDisconnect, Ready, Close
<1>6. CASE AuthRequest
  BY <1>6 DEF AuthRequest
<1>7. CASE AuthRequestFails
  BY <1>7 DEF AuthRequestFails, RequestFails, Done, Gone
<1>8. CASE AuthRequestEmpty
  BY <1>8 DEF AuthRequestEmpty, Gone, Done
<1>9. CASE AuthResponse
  BY <1>9 DEF AuthResponse, LoggedIn, Done
<1>10. CASE AuthResponseRefused
  BY <1>10 DEF AuthResponseRefused, RequestFails, Refused, Done, Gone
<1>11. CASE SslIsOn
  BY <1>11 DEF SslIsOn
<1>12. CASE SslStart
  BY <1>12 DEF SslStart
<1>13. CASE SslStartFails
  BY <1>13 DEF SslStartFails, RequestFails, Done, Gone
<1>14. CASE Handshake
  BY <1>14 DEF Handshake
<1>15. CASE HandshakeFails
  BY <1>15 DEF HandshakeFails, RequestFails, Done, Gone
<1>16. CASE CertificateOk
  BY <1>16 DEF CertificateOk, SslStarted
<1>17. CASE CertificateFails
  BY <1>17 DEF CertificateFails
<1>18. CASE PamRequest
  BY <1>18 DEF PamRequest
<1>19. CASE PamRequestFails
  BY <1>19 DEF PamRequestFails, RequestFails, Gone
<1>20. CASE PamRequestEmpty
  BY <1>20 DEF PamRequestEmpty, Gone
<1>21. CASE SslEnd
  BY <1>21 DEF SslEnd
<1>22. CASE SslEndFails
  BY <1>22 DEF SslEndFails, RequestFails, PamEnds, Gone
<1>23. CASE Shutdown
  BY <1>23 DEF Shutdown, ShutdownDone, PamEnds
<1>24. CASE ShutdownFails
  BY <1>24 DEF ShutdownFails, PamEnds
<1> QED BY <1>1, <1>2, <1>3, <1>4, <1>5, <1>6, <1>7, <1>8, <1>9, <1>10, <1>11,
    <1>12, <1>13, <1>14, <1>15, <1>16, <1>17, <1>18, <1>19, <1>20, <1>21, <1>22,
        <1>23, <1>24 DEF LoginNext
-----------------------------------------------------------------------------
(* The theorems.                                                           *)

\* The types are kept whatever fails, is refused or times out: the tries stay within
\* MaxTries and the socket is a descriptor, 0 or -1.
LEMMA TypeStep == ITypeInv /\ [Next]_vars => ITypeInv'
<1> SUFFICES ASSUME ITypeInv, [Next]_vars PROVE ITypeInv'
  OBVIOUS
<1>1. CASE ConnectNext
  BY <1>1, TypeConnect
<1>2. CASE LoginNext
  BY <1>2, TypeLogin
<1>3. CASE UNCHANGED vars
  BY <1>3 DEF vars, ITypeInv, TypeOK
<1> QED BY <1>1, <1>2, <1>3 DEF Next

\* The strengthened type invariant of the connection.
LEMMA ITypeAlways == Spec => []ITypeInv
<1> QED BY TypeInit, TypeStep, PTL DEF Spec

\* Type correctness of _rcConnect, the logins and rcDisconnect, for any number of
\* descriptors and tries.
THEOREM LoginType == Spec => []TypeOK
<1>1. ITypeInv => TypeOK
  BY DEF ITypeInv
<1> QED BY <1>1, ITypeAlways, PTL

\* The socket part, kept by every step.
LEMMA SocketAlways == Spec => []SocketInv
<1>1. Init => SocketInv
  BY DEF Init, SocketInv, Mine, Using, Calling
<1>2. ITypeInv /\ SocketInv /\ [Next]_vars => SocketInv'
  <2> SUFFICES ASSUME ITypeInv, SocketInv, [Next]_vars PROVE SocketInv'
    OBVIOUS
  <2>1. CASE UNCHANGED vars
    BY <2>1 DEF vars, SocketInv, Mine
  <2> QED BY <2>1, SocketConnect, SocketLogin DEF Next
<1> QED BY <1>1, <1>2, ITypeAlways, PTL DEF Spec

\* What connectToRhost, the retry and every later call work on is open.
THEOREM LoginSocketOpen == Spec => []SocketOpen
<1>1. SocketInv => SocketOpen
  BY DEF SocketInv, SocketOpen, Using
<1> QED BY <1>1, SocketAlways, PTL

\* Of all the sockets of a call of _rcConnect at most one is left behind.
THEOREM LoginOneLeftBehind == Spec => []OneLeftBehind
<1>1. SocketInv => OneLeftBehind
  <2> SUFFICES ASSUME SocketInv PROVE OneLeftBehind
    OBVIOUS
  <2>1. attempt = 1 => open \subseteq {Mine}
    BY DEF SocketInv
  <2>2. PICK d \in Descriptors \cup {0, -1} : open \subseteq {Mine, d}
    BY DEF SocketInv
  <2>3. Mine \in {conn.sock, newSock}
    BY DEF Mine
  <2> QED BY <2>1, <2>2, <2>3 DEF OneLeftBehind
<1> QED BY <1>1, SocketAlways, PTL

\* The part about the negotiation, kept by every step.
LEMMA AgreedAlways == Spec => []AgreedInv
<1>1. Init => AgreedInv
  BY DEF Init, AgreedInv
<1>2. ITypeInv /\ AgreedInv /\ [Next]_vars => AgreedInv'
  <2> SUFFICES ASSUME ITypeInv, AgreedInv, [Next]_vars PROVE AgreedInv'
    OBVIOUS
  <2>1. CASE UNCHANGED vars
    <3>1. UNCHANGED <<ClientWaits, ServerNegotiates, NegotiationResult>>
      BY <2>1, SettingKept DEF vars
    <3> QED BY <2>1, <3>1 DEF vars, AgreedInv, Agreed, Readable
  <2> QED BY <2>1, AgreedConnect, AgreedLogin DEF Next
<1> QED BY <1>1, <1>2, ITypeAlways, PTL DEF Spec

\* Whatever the policies of the two ends, whatever an earlier attempt left in the
\* handle: a connection that _rcConnect returns works, and in the way both ask for.
THEOREM LoginOpenedAsAgreed == Spec => []OpenedAsAgreed
<1>1. AgreedInv => OpenedAsAgreed
  <2> SUFFICES ASSUME AgreedInv, pc = "opened" PROVE OpenedAsAgreed
    BY DEF OpenedAsAgreed
  <2>1. Readable /\ Agreed
    BY DEF AgreedInv
  <2>2. ASSUME "require" \in {PolicyDefault, setting.server}
        PROVE  NegotiationResult \in {"ssl", "fail"}
    BY <2>2 DEF NegotiationResult, Negotiate, PolicyIndex, NegotiationTable
  <2>3. ASSUME "refuse" \in {PolicyDefault, setting.server}
        PROVE  NegotiationResult \in {"tcp", "fail"}
    BY <2>3 DEF NegotiationResult, Negotiate, PolicyIndex, NegotiationTable
  <2> QED BY <2>1, <2>2, <2>3 DEF Agreed, OpenedAsAgreed
<1> QED BY <1>1, AgreedAlways, PTL

\* The flag loggedIn of a handle says what the server at its other end has done.
THEOREM LoginIsSound == Spec => []LoginSound
<1>1. Init => LoginInv
  BY DEF Init, LoginInv, LoginSound, Calling
<1>2. ITypeInv /\ LoginInv /\ [Next]_vars => LoginInv'
  <2> SUFFICES ASSUME ITypeInv, LoginInv, [Next]_vars PROVE LoginInv'
    OBVIOUS
  <2>1. CASE UNCHANGED vars
    BY <2>1 DEF vars, LoginInv, LoginSound
  <2> QED BY <2>1, LoginConnect, LoginLogin DEF Next
<1>3. LoginInv => LoginSound
  BY DEF LoginInv
<1> QED BY <1>1, <1>2, <1>3, ITypeAlways, PTL DEF Spec

\* A clientLoginPam that succeeds leaves the two ends of the connection talking the
\* same way, though it does not look at what sslEnd returns, but for the one case.
THEOREM LoginPamAgreement == Spec => []PamAgreement
<1>1. Init => PamInv
  BY DEF Init, PamInv, PamAgreement
<1>2. ITypeInv /\ PamInv /\ [Next]_vars => PamInv'
  <2> SUFFICES ASSUME ITypeInv, PamInv, [Next]_vars PROVE PamInv'
    OBVIOUS
  <2>1. CASE UNCHANGED vars
    BY <2>1 DEF vars, PamInv, PamAgreement, Readable
  <2> QED BY <2>1, PamConnect, PamLogin DEF Next
<1>3. PamInv => PamAgreement
  BY DEF PamInv
<1> QED BY <1>1, <1>2, <1>3, ITypeAlways, PTL DEF Spec

\* No socket is used after it was closed, and at most one is lost.
THEOREM LoginSocketsKept == Spec => []SocketsKept
BY LoginSocketOpen, LoginOneLeftBehind, PTL DEF SocketsKept

\* loggedIn says the truth and a clientLoginPam leaves the two ends agreed.
THEOREM LoginAuthSound == Spec => []AuthSound
BY LoginIsSound, LoginPamAgreement, PTL DEF AuthSound
=============================================================================
