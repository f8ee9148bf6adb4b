------------------------------- MODULE Login -------------------------------
(***************************************************************************)
(* What an application does with a connection, as far as it changes how    *)
(* the two ends talk and whether the client is logged in: API requests,    *)
(* clientLogin and clientLoginWithPassword, clientLoginPam, which switches *)
(* the connection to SSL and back (sslStart, sslEnd), and rcDisconnect.    *)
(*                                                                         *)
(* A request to the server is one step: the server may do what it was      *)
(* asked or refuse; it or its answer may be lost, with the connection; and *)
(* if only the answer's body is lost, procApiRequest returns 0 (Reconn's   *)
(* SuccessMeansReply).                                                     *)
(***************************************************************************)
EXTENDS Connect

Ready == pc \in {"opened", "idle"}

\* The function called by the application returns s.
Done(s) == pc' = "idle" /\ status' = s

Gone == peer' = [peer EXCEPT !.mode = "gone"]
\* A request that returns an error.
RequestFails == UNCHANGED peer \/ Gone

CallBegins(o, first) ==
  /\ op' = o /\ pc' = first /\ status' = "none"
  /\ UNCHANGED <<setting, conn, peer, open, tryVars, attempt>>

\* Any other API.
CallRequest ==
  /\ Ready
  /\ op' = "request"
  /\ \/ Readable /\ Done("ok") /\ RequestFails
     \/ Done("error") /\ RequestFails
  /\ UNCHANGED <<setting, conn, open, tryVars, attempt>>

-----------------------------------------------------------------------------
(* clientLogin and clientLoginWithPassword.                                *)

CallLogin ==
  /\ Ready /\ ~conn.loggedIn
  /\ \E o \in {"login", "password"} : CallBegins(o, "authRequest")

CallLoginAgain ==
  /\ Ready /\ conn.loggedIn
  /\ op' \in {"login", "password"} /\ Done("ok")
  /\ UNCHANGED <<setting, conn, peer, open, tryVars, attempt>>

\* The challenge; for clientLogin also what its plugin does before and after.
AuthRequest ==
  /\ pc = "authRequest" /\ Readable
  /\ peer' \in {peer, [peer EXCEPT !.mode = "gone"]}
  /\ pc' = "authResponse"
  /\ UNCHANGED <<setting, conn, open, tryVars, attempt, op, status>>

AuthRequestFails ==
  /\ pc = "authRequest"
  /\ RequestFails /\ Done("error")
  /\ UNCHANGED <<setting, conn, open, tryVars, attempt, op>>

\* status is 0, but there is no challenge: clientLoginWithPassword returns status.
AuthRequestEmpty ==
  /\ pc = "authRequest" /\ op = "password" /\ Readable
  /\ Gone /\ Done("ok")
  /\ UNCHANGED <<setting, conn, open, tryVars, attempt, op>>

LoggedIn == conn' = [conn EXCEPT !.loggedIn = TRUE]
RefusedUnchecked == LoggedIn
Refused == UNCHANGED conn

AuthResponse ==
  /\ pc = "authResponse" /\ Readable
  /\ \/ peer' = [peer EXCEPT !.authenticated = TRUE]
     \/ \E a \in BOOLEAN : peer' = [mode |-> "gone", authenticated |-> a]
  /\ LoggedIn
  /\ Done("ok")
  /\ UNCHANGED <<setting, open, tryVars, attempt, op>>

\* The server refuses, or its answer does not arrive.
AuthResponseRefused ==
  /\ pc = "authResponse"
  /\ \/ RequestFails
     \/ Readable /\ peer' = [mode |-> "gone", authenticated |-> TRUE]
  /\ Refused
  /\ Done("error")
  /\ UNCHANGED <<setting, open, tryVars, attempt, op>>

-----------------------------------------------------------------------------
(* sslStart.                                                               *)

CallPam == Ready /\ CallBegins("pam", "sslStart")

SslIsOn ==
  /\ pc = "sslStart" /\ conn.ssl_on
  /\ pc' = "pamRequest"
  /\ UNCHANGED <<setting, conn, peer, open, tryVars, attempt, op, status>>

\* rcSslStart: the server waits for the handshake.
SslStart ==
  /\ pc = "sslStart" /\ ~conn.ssl_on /\ Readable
  /\ \E m \in {"accepting", "gone"} : peer' = [peer EXCEPT !.mode = m]
  /\ pc' = "handshake"
  /\ UNCHANGED <<setting, conn, open, tryVars, attempt, op, status>>

SslStartFails ==
  /\ pc = "sslStart" /\ ~conn.ssl_on
  /\ RequestFails /\ Done("error")
  /\ UNCHANGED <<setting, conn, open, tryVars, attempt, op>>

\* A new session takes the place of the one the handle may have.
Handshake ==
  /\ pc = "handshake" /\ peer.mode = "accepting"
  /\ conn' = [conn EXCEPT !.ssl = "live", !.ssl_on = TRUE]
  /\ peer' = [peer EXCEPT !.mode = "ssl"]
  /\ pc' = "certificate"
  /\ UNCHANGED <<setting, open, tryVars, attempt, op, status>>

\* sslInit fails and leaves the session, or a later step frees it.
HandshakeFails ==
  /\ pc = "handshake"
  /\ conn' \in {conn, [conn EXCEPT !.ssl = "none"]}
  /\ RequestFails /\ Done("error")
  /\ UNCHANGED <<setting, open, tryVars, attempt, op>>

SslStarted == conn' = [conn EXCEPT !.negotiation_results = "ssl"]
CertificateOk ==
  /\ pc = "certificate"
  /\ SslStarted
  /\ pc' = "pamRequest"
  /\ UNCHANGED <<setting, peer, open, tryVars, attempt, op, status>>

\* sslEnd is called before negotiation_results says what the server reads.
CertificateFails ==
  /\ pc = "certificate"
  /\ status' = "error" /\ pc' = "sslEnd"
  /\ UNCHANGED <<setting, conn, peer, open, tryVars, attempt, op>>

-----------------------------------------------------------------------------
(* clientLoginPam; status holds what it will return.                       *)

PamRequest ==
  /\ pc = "pamRequest" /\ Readable
  /\ status' = "ok" /\ pc' = "sslEnd"
  /\ UNCHANGED <<setting, conn, peer, open, tryVars, attempt, op>>

PamRequestFails ==
  /\ pc = "pamRequest"
  /\ RequestFails
  /\ status' = "error" /\ pc' = "sslEnd"
  /\ UNCHANGED <<setting, conn, open, tryVars, attempt, op>>

\* status is 0, but there is no password: a null pointer is read.
PamRequestEmpty ==
  /\ pc = "pamRequest" /\ Readable
  /\ Gone
  /\ pc' = "crashed"
  /\ UNCHANGED <<setting, conn, open, tryVars, attempt, op, status>>

\* clientLoginPam ignores what sslEnd returns, but its own last step, to save the
\* password it was given, may fail.
PamEnds == pc' = "idle" /\ (status' = status \/ status' = "error")

\* sslEnd.  SSL is on wherever it is called, so its early return is never taken.
\* rcSslEnd: the server goes back to plain text.
SslEnd ==
  /\ pc = "sslEnd" /\ conn.ssl_on /\ Readable
  /\ \E m \in {"plain", "gone"} : peer' = [peer EXCEPT !.mode = m]
  /\ pc' = "shutdown"
  /\ UNCHANGED <<setting, conn, open, tryVars, attempt, op, status>>

SslEndFails ==
  /\ pc = "sslEnd" /\ conn.ssl_on
  /\ RequestFails /\ PamEnds
  /\ UNCHANGED <<setting, conn, open, tryVars, attempt, op>>

ShutdownDone ==
  conn' = [conn EXCEPT !.ssl = "none", !.ssl_on = FALSE, !.negotiation_results = "tcp"]
Shutdown ==
  /\ pc = "shutdown"
  /\ ShutdownDone
  /\ PamEnds
  /\ UNCHANGED <<setting, peer, open, tryVars, attempt, op>>

\* The close notify is sent, the server's does not come.
ShutdownFails ==
  /\ pc = "shutdown"
  /\ conn' = [conn EXCEPT !.ssl = "shut"]
  /\ PamEnds
  /\ UNCHANGED <<setting, peer, open, tryVars, attempt, op>>

-----------------------------------------------------------------------------
\* rcDisconnect; Reconn has its steps.
CallDisconnect ==
  /\ Ready
  /\ Close(conn.sock)
  /\ pc' = "closed"
  /\ UNCHANGED <<setting, conn, peer, tryVars, attempt, op, status>>

LoginNext ==
  \/ CallRequest \/ CallLogin \/ CallLoginAgain \/ CallPam \/ CallDisconnect
  \/ AuthRequest \/ AuthRequestFails \/ AuthRequestEmpty
  \/ AuthResponse \/ AuthResponseRefused
  \/ SslIsOn \/ SslStart \/ SslStartFails \/ Handshake \/ HandshakeFails
  \/ CertificateOk \/ CertificateFails
  \/ PamRequest \/ PamRequestFails \/ PamRequestEmpty
  \/ SslEnd \/ SslEndFails \/ Shutdown \/ ShutdownFails

Next == ConnectNext \/ LoginNext
Spec == Init /\ [][Next]_vars

\* Connecting, writing and reading end, well or not, and select is not interrupted
\* for ever.  Nothing makes the application call, and a server may let an API
\* request wait for its answer.
FairSpec == Spec /\ WF_vars(ConnectNext) /\ SF_vars(TryDecided)

-----------------------------------------------------------------------------
(* Properties.                                                             *)

\* "set the flag stating we are logged in": the flag, which makes every later login
\* return 0 at once, is set only if the server at the other end of this very
\* connection has authenticated the client, or is gone; and clientLogin does not
\* return 0 without it.
LoginSound ==
  /\ conn.loggedIn => peer.authenticated \/ peer.mode = "gone"
  /\ pc = "idle" /\ op = "login" /\ status = "ok" => conn.loggedIn

\* "future socket ops are probably unaffected": after a clientLoginPam that
\* succeeded, though it ignores what sslEnd returns, the two ends agree on how they
\* talk, unless the server is gone or SSL_shutdown failed.
PamAgreement ==
  pc = "idle" /\ op = "pam" /\ status = "ok" =>
    Readable \/ peer.mode = "gone" \/ conn.ssl = "shut"

\* Of both logins: the flag, and how the two ends talk after it.
AuthSound == LoginSound /\ PamAgreement
=============================================================================
