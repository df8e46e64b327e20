--------------------------- MODULE NFSConnection ---------------------------
(***************************************************************************)
(* The client library (src/NFSConnection.cpp).  Each client is a process   *)
(* with one NFSConnection object, used by one thread: it connects, makes   *)
(* synchronous calls, and destroys the object.                             *)
(***************************************************************************)
EXTENDS Tcp

CONSTANTS
    Clients,        \* the client processes
    ConnectArgs,    \* the <<username, password, filesystemName>> given to connect
    Calls,          \* the calls applications make, as the requests they send
    Reconnects,     \* whether connect is called again on the same object
    SignalsHandled, \* whether a signal handler may interrupt recv(2) (EINTR)
    ClientsCrash    \* whether a client process may die at any point

NoSock   == "-1"
NoClient == "none"

ASSUME ConnectionAssumption ==
    /\ ConnectArgs \subseteq Strings \X Strings \X Strings
    /\ Calls \subseteq Request
    /\ \A r \in Calls : r.code \in {"REQUEST_OPEN", "REQUEST_UNLINK"} =>
                           r.path \in Strings   \* strlen(path) + 1 bytes
    /\ \A r \in Calls : r.code \notin {"REQUEST_OPEN", "REQUEST_UNLINK"} =>
                           ToInt(r.fd) = r.fd   \* an int
    /\ Reconnects \in BOOLEAN /\ SignalsHandled \in BOOLEAN
    /\ ClientsCrash \in BOOLEAN
    /\ NoSock \notin Sessions /\ NoClient \notin Clients

VARIABLES
    cpc,                            \* where the client is
    m_sockfd, m_access, m_errno,    \* members of the same name
    args, step,                     \* arguments of connect, credentials sent
    call,                           \* the call being made
    ret,                            \* what the last call returned
    owner                           \* the process that has each socket open

connectionVars == <<cpc, m_sockfd, m_access, m_errno, args, step, call, ret, owner>>

\* "dying": killed, or exiting; "sigpipe": killed by a send to a closed end;
\* "gone": its sockets are closed.
ClientStages == {"idle", "login", "verdict", "call", "destroyed",
                 "dying", "sigpipe", "gone"}

ConnectReturn == {"TCP_ERROR", "INVALID_HOST_NAME", "SERVER_NOT_RESPONDING",
                  "INVALID_SERVER_REQUEST", "LOGIN_FAILED", "ACCESS_DENIED", "OK"}

NoReturn == [code |-> "NONE"]
Returned == [code : {"CONNECT"}, result : ConnectReturn]
            \cup [code : RequestCodes, request : Request, value : Int,
                  data : Seq(Nat)]

ConnectionTypeOK ==
    /\ cpc \in [Clients -> ClientStages]
    /\ m_sockfd \in [Clients -> Sessions \cup {NoSock}]
    /\ m_access \in [Clients -> BOOLEAN]
    /\ m_errno \in [Clients -> Errnos \cup {"EHOSTUNREACH", "EBADMSG"}]
    /\ args \in [Clients -> Seq(Strings)]
    /\ step \in [Clients -> 0..3]
    /\ call \in [Clients -> Request \cup {NoMessage}]
    /\ ret \in [Clients -> Returned \cup {NoReturn}]
    /\ owner \in [Sessions -> Clients \cup {NoClient}]

ConnectionInit ==
    /\ cpc = [c \in Clients |-> "idle"]
    /\ m_sockfd = [c \in Clients |-> NoSock]
    /\ m_access = [c \in Clients |-> FALSE]
    /\ m_errno = [c \in Clients |-> "0"]
    /\ args = [c \in Clients |-> << >>]
    /\ step = [c \in Clients |-> 0]
    /\ call = [c \in Clients |-> NoMessage]
    /\ ret = [c \in Clients |-> NoReturn]
    /\ owner = [s \in Sessions |-> NoClient]

-----------------------------------------------------------------------------
\* The end of connect.  The argument strings and counters are locals.
\* Mutant: a connect that fails grants access too.
ConnectReturnsWithAccess(c, result) ==
    /\ ret' = [ret EXCEPT ![c] = [code |-> "CONNECT", result |-> result]]
    /\ cpc' = [cpc EXCEPT ![c] = "idle"]
    /\ m_access' = [m_access EXCEPT ![c] = TRUE]
    /\ args' = [args EXCEPT ![c] = << >>]
    /\ step' = [step EXCEPT ![c] = 0]
    /\ UNCHANGED <<m_sockfd, m_errno, call, owner>>
ConnectReturns(c, result) ==
    /\ ret' = [ret EXCEPT ![c] = [code |-> "CONNECT", result |-> result]]
    /\ cpc' = [cpc EXCEPT ![c] = "idle"]
    /\ m_access' = [m_access EXCEPT ![c] = @ \/ result = "OK"]
    /\ args' = [args EXCEPT ![c] = << >>]
    /\ step' = [step EXCEPT ![c] = 0]
    /\ UNCHANGED <<m_sockfd, m_errno, call, owner>>

\* recv(2) on the socket of c has a message; or it returns 0, an error, or -1
\* because a signal handler ran while it was waiting.
ClientReceives(s) == s2c[s] # << >> /\ s2c' = [s2c EXCEPT ![s] = Tail(@)]
ClientHangup(s)   == s2c[s] = << >> /\ wend[s] = "closed"
\* Mutant: the socket has a receive timeout.
TimesOut(s)       == s2c[s] = << >>
Interrupted(s)    == SignalsHandled /\ s2c[s] = << >>

ClientSends(s, m) == /\ HasRoom(c2s[s], wend[s])
                     /\ c2s' = [c2s EXCEPT ![s] = Sent(@, m, wend[s])]

\* connect_to_server succeeds: the new socket replaces the old one, which stays
\* open; m_access keeps its value.
connect(c, s, a) ==
    /\ cpc[c] = "idle" /\ (Reconnects \/ m_sockfd[c] = NoSock)
    /\ cend[s] = "unused"
    /\ cend' = [cend EXCEPT ![s] = "open"]
    /\ wend' = [wend EXCEPT ![s] = "backlog"]
    /\ owner' = [owner EXCEPT ![s] = c]
    /\ m_sockfd' = [m_sockfd EXCEPT ![c] = s]
    /\ args' = [args EXCEPT ![c] = a]
    /\ step' = [step EXCEPT ![c] = 1]
    /\ cpc' = [cpc EXCEPT ![c] = "login"]
    /\ ret' = [ret EXCEPT ![c] = NoReturn]
    /\ UNCHANGED <<c2s, s2c, m_access, m_errno, call>>

\* connect_to_server fails: unknown host, or nobody listens.
connect_fails(c) ==
    /\ cpc[c] = "idle" /\ (Reconnects \/ m_sockfd[c] = NoSock)
    /\ m_sockfd' = [m_sockfd EXCEPT ![c] = NoSock]
    /\ ret' = [ret EXCEPT ![c] = [code |-> "CONNECT",
                                  result |-> "INVALID_HOST_NAME"]]
    /\ UNCHANGED <<tcpVars, cpc, m_access, m_errno, args, step, call, owner>>

\* The number of the credential after the k-th.
NextStep(k) == IF k = 3 THEN 0 ELSE k + 1

\* send_username, send_password and the first half of access_filesystem.  The
\* result -1 of send_message, compared as unsigned, is not less than the size:
\* the login goes on.
send_credential(c) ==
    /\ cpc[c] = "login"
    /\ LET s == m_sockfd[c]
           cmsg == [code |-> ConnectInfoCode[step[c]], text |-> args[c][step[c]]]
       IN  \/ /\ ClientHangup(s) \/ Interrupted(s)
              /\ ConnectReturns(c, "SERVER_NOT_RESPONDING")
              /\ UNCHANGED <<c2s, s2c>>
           \/ /\ ClientReceives(s)
              /\ Head(s2c[s]).code # ProvideCode[step[c]]
              /\ ConnectReturns(c, "INVALID_SERVER_REQUEST")
              /\ UNCHANGED c2s
           \/ /\ ClientReceives(s)
              /\ Head(s2c[s]).code = ProvideCode[step[c]]
              /\ ClientSends(s, cmsg)
              /\ \/ /\ step' = [step EXCEPT ![c] = NextStep(@)]
                    /\ cpc' = [cpc EXCEPT ![c] = IF step[c] = 3 THEN "verdict"
                                                 ELSE "login"]
                 \/ /\ "sigpipe" \in SendOutcomes(wend[s])
                    /\ cpc' = [cpc EXCEPT ![c] = "sigpipe"]
                    /\ UNCHANGED step
              /\ UNCHANGED <<m_sockfd, m_access, m_errno, args, call, ret, owner>>
    /\ UNCHANGED <<cend, wend>>

\* The second half of access_filesystem: every other message means denied.
receive_verdict(c) ==
    /\ cpc[c] = "verdict"
    /\ LET s == m_sockfd[c]
       IN  \/ /\ ClientHangup(s) \/ Interrupted(s)
              /\ ConnectReturns(c, "SERVER_NOT_RESPONDING")
              /\ UNCHANGED s2c
           \/ /\ ClientReceives(s)
              /\ ConnectReturns(c, IF Head(s2c[s]).code = "AUTHORIZATION_OK"
                                   THEN "OK" ELSE "ACCESS_DENIED")
    /\ UNCHANGED <<c2s, cend, wend>>

-----------------------------------------------------------------------------
\* The end of a call that failed in the library, or was answered.
CallReturns(c, r, value, data) ==
    /\ ret' = [ret EXCEPT ![c] = [code |-> r.code, request |-> r,
                                  value |-> value, data |-> data]]
    /\ cpc' = [cpc EXCEPT ![c] = "idle"]
    /\ call' = [call EXCEPT ![c] = NoMessage]
CallFails(c, r, errno) ==
    /\ CallReturns(c, r, -1, << >>)
    /\ m_errno' = [m_errno EXCEPT ![c] = errno]

\* What each of the eight functions checks first.
\* Mutant: a function that goes by the socket alone.
AnyAccess(c) == TRUE
HasAccess(c) == m_access[c]

\* open, close, read, write, lseek, fstat, unlink and flock up to the recv of
\* send_and_wait.
begin_call(c, r) ==
    /\ cpc[c] = "idle"
    /\ LET s == m_sockfd[c]
       IN  \/ /\ ~HasAccess(c)
              /\ CallFails(c, r, "EACCES")
              /\ UNCHANGED c2s
           \/ /\ HasAccess(c) /\ s = NoSock
              /\ CallFails(c, r, "EBADMSG")
              /\ UNCHANGED c2s
           \/ /\ HasAccess(c) /\ s # NoSock
              /\ ClientSends(s, r)
              /\ \E outcome \in SendOutcomes(wend[s]) :
                    \/ /\ outcome = "sent"
                       /\ cpc' = [cpc EXCEPT ![c] = "call"]
                       /\ call' = [call EXCEPT ![c] = r]
                       /\ UNCHANGED <<ret, m_errno>>
                    \/ outcome = "error" /\ CallFails(c, r, "EBADMSG")
                    \/ /\ outcome = "sigpipe"
                       /\ cpc' = [cpc EXCEPT ![c] = "sigpipe"]
                       /\ UNCHANGED <<call, ret, m_errno>>
    /\ UNCHANGED <<s2c, cend, wend, m_sockfd, m_access, args, step, owner>>

\* What the eight functions take for a failure, and what they return otherwise.
\* Mutant: the test of fstat, unlink and flock misses the result -1.
FailedIfPositive(code, value) ==
    IF code \in {"REQUEST_FSTAT", "REQUEST_UNLINK", "REQUEST_FLOCK"}
    THEN value > 0 ELSE value < 0
Failed(code, value) ==
    IF code \in {"REQUEST_FSTAT", "REQUEST_UNLINK", "REQUEST_FLOCK"}
    THEN value # 0 ELSE value < 0
ReturnValue(code, value) ==
    IF code \in {"REQUEST_OPEN", "REQUEST_READ", "REQUEST_WRITE", "REQUEST_LSEEK"}
    THEN value ELSE 0

\* ... and from that recv on.
end_call(c) ==
    /\ cpc[c] = "call"
    /\ LET s == m_sockfd[c]  r == call[c]  code == r.code  m == Head(s2c[s])
       IN  \/ /\ ClientHangup(s) \/ Interrupted(s)
              /\ \E e \in {"EHOSTUNREACH", "EBADMSG"} : CallFails(c, r, e)
              /\ UNCHANGED s2c
           \/ /\ ClientReceives(s)
              /\ \/ m.code # ResultCode(code) /\ CallFails(c, r, "EBADMSG")
                 \/ /\ m.code = ResultCode(code) /\ Failed(code, m.value)
                    /\ CallFails(c, r, m.errno)
                 \/ /\ m.code = ResultCode(code) /\ ~Failed(code, m.value)
                    /\ CallReturns(c, r, ReturnValue(code, m.value), m.data)
                    /\ UNCHANGED m_errno
    /\ UNCHANGED <<c2s, cend, wend, m_sockfd, m_access, args, step, owner>>

-----------------------------------------------------------------------------
\* ~NFSConnection: DISCONNECT is sent and the socket closed, whatever came of it.
destroy_connection(c) ==
    /\ cpc[c] = "idle"
    /\ LET s == m_sockfd[c]
       IN  \/ /\ s = NoSock
              /\ cpc' = [cpc EXCEPT ![c] = "destroyed"]
              /\ UNCHANGED tcpVars
           \/ /\ s # NoSock
              /\ ClientSends(s, Bare("DISCONNECT"))
              /\ \/ /\ cpc' = [cpc EXCEPT ![c] = "destroyed"]
                    /\ cend' = [cend EXCEPT ![s] = "closed"]
                    /\ s2c' = [s2c EXCEPT ![s] = << >>]
                 \/ /\ "sigpipe" \in SendOutcomes(wend[s])
                    /\ cpc' = [cpc EXCEPT ![c] = "sigpipe"]
                    /\ UNCHANGED <<cend, s2c>>
              /\ UNCHANGED wend
    /\ ret' = [ret EXCEPT ![c] = NoReturn]
    /\ UNCHANGED <<m_sockfd, m_access, m_errno, args, step, call, owner>>

crash(c) ==
    /\ ClientsCrash /\ cpc[c] \in {"idle", "login", "verdict", "call", "destroyed"}
    /\ cpc' = [cpc EXCEPT ![c] = "dying"]
    /\ UNCHANGED <<tcpVars, m_sockfd, m_access, m_errno, args, step, call, ret, owner>>

\* The process ends and the system closes every socket it still has.
end_process(c) ==
    /\ cpc[c] \in {"destroyed", "dying", "sigpipe"}
    /\ cpc' = [cpc EXCEPT ![c] = "gone"]
    /\ LET open == {s \in Sessions : owner[s] = c /\ cend[s] = "open"}
       IN  /\ cend' = [s \in Sessions |-> IF s \in open THEN "closed" ELSE cend[s]]
           /\ s2c' = [s \in Sessions |-> IF s \in open THEN << >> ELSE s2c[s]]
    /\ call' = [call EXCEPT ![c] = NoMessage]
    /\ ret' = [ret EXCEPT ![c] = NoReturn]
    /\ args' = [args EXCEPT ![c] = << >>]
    /\ step' = [step EXCEPT ![c] = 0]
    /\ UNCHANGED <<c2s, wend, m_sockfd, m_access, m_errno, owner>>

\* The steps a client takes by itself once the application has called.
ClientProgress(c) ==
    send_credential(c) \/ receive_verdict(c) \/ end_call(c)

ClientStep(c) ==
    \/ ClientProgress(c)
    \/ connect_fails(c)
    \/ \E r \in Calls : begin_call(c, r)
    \/ destroy_connection(c) \/ crash(c) \/ end_process(c)
=============================================================================
