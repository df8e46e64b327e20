-------------------------- MODULE NFSSystem_proofs --------------------------
(***************************************************************************)
(* Proofs about the whole system of NFSSystem.tla.  The library is one of  *)
(* the clients that NFSServer.tla assumes, so that what is proved of the   *)
(* server holds in the system.                                             *)
(***************************************************************************)
EXTENDS NFSSystem, NFSServer_proofs

\* The stages of a process that has an NFSConnection object.
Waiting == {"login", "verdict", "call"}
Living  == Waiting \cup {"idle"}

\* A living client has the socket of its object open, and nobody else has it.
SocketOf(c) ==
    /\ cpc[c] \in Waiting => m_sockfd[c] # NoSock
    /\ cpc[c] \in Living /\ m_sockfd[c] # NoSock =>
          cend[m_sockfd[c]] = "open" /\ owner[m_sockfd[c]] = c

\* What it is about to send is what it was called with.
ArgumentsOf(c) ==
    /\ cpc[c] = "login" => args[c] \in ConnectArgs /\ step[c] \in 1..3
    /\ cpc[c] = "call" => m_access[c] /\ call[c] \in Calls

ClientInv(c) == SocketOf(c) /\ ArgumentsOf(c)

ClientsInv == ConnectionTypeOK /\ \A c \in Clients : ClientInv(c)

\* A step of client c leaves the other clients and their sockets alone.
SameClient(d) ==
    /\ cpc'[d] = cpc[d] /\ m_sockfd'[d] = m_sockfd[d] /\ args'[d] = args[d]
    /\ step'[d] = step[d] /\ call'[d] = call[d] /\ m_access'[d] = m_access[d]
ClientOK(c) ==
    /\ ConnectionTypeOK' /\ ClientInv(c)'
    /\ \A d \in Clients \ {c} : SameClient(d)
    /\ \A s \in Sessions : cend[s] = "open" /\ owner[s] # c =>
          cend'[s] = "open" /\ owner'[s] = owner[s]

\* Such a step keeps the invariant of all clients.
LEMMA ClientKeepsInv ==
    ASSUME NEW c \in Clients, ClientsInv, ClientOK(c)
    PROVE  ClientsInv'
<1>1. ASSUME NEW d \in Clients \ {c} PROVE ClientInv(d)'
  <2>1. /\ ClientInv(d) /\ SameClient(d)
        /\ m_sockfd[d] # NoSock => m_sockfd[d] \in Sessions
    BY DEF ClientsInv, ClientOK, ConnectionTypeOK
  <2>2. cpc[d] \in Living /\ m_sockfd[d] # NoSock =>
           cend'[m_sockfd[d]] = "open" /\ owner'[m_sockfd[d]] = d
    BY <2>1 DEF ClientInv, SocketOf, ClientOK
  <2> QED BY <2>1, <2>2 DEF ClientInv, SocketOf, ArgumentsOf, SameClient
<1> QED BY <1>1 DEF ClientsInv, ClientOK

-----------------------------------------------------------------------------
(* The steps of a client, one by one: each keeps the invariant of clients, *)
(* and shows itself to the server as a step of EnvStep or as none.         *)

\* The three arguments of connect are strings.
LEMMA ArgumentsType ==
    ASSUME NEW a \in ConnectArgs
    PROVE  a \in Seq(Strings) /\ \A k \in 1..3 : a[k] \in Strings
<1>1. PICK x \in Strings, y \in Strings, z \in Strings : a = <<x, y, z>>
  BY ConnectionAssumption
<1> QED BY <1>1

\* connect up to the socket (connect_to_server).
LEMMA ConnectOK ==
    ASSUME NEW c \in Clients, ClientsInv, NEW s \in Sessions, NEW a \in ConnectArgs,
           TcpTypeOK, connect(c, s, a)
    PROVE  ClientOK(c)
<1>1. ConnectionTypeOK /\ s # NoSock
  BY ConnectionAssumption DEF ClientsInv
<1>2. a \in Seq(Strings)
  BY ArgumentsType
<1>3. ConnectionTypeOK'
  BY <1>1, <1>2 DEF connect, ConnectionTypeOK, ClientStages, NoReturn
<1>4. cend'[s] = "open" /\ owner'[s] = c
  BY <1>1 DEF connect, ConnectionTypeOK, TcpTypeOK
<1>5. /\ cpc'[c] = "login" /\ m_sockfd'[c] = s /\ args'[c] = a /\ step'[c] = 1
      /\ \A d \in Clients \ {c} : SameClient(d)
  BY <1>1 DEF connect, ConnectionTypeOK, SameClient
<1>6. ClientInv(c)'
  BY <1>1, <1>4, <1>5 DEF ClientInv, SocketOf, ArgumentsOf
<1>7. \A t \in Sessions : cend[t] = "open" => cend'[t] = "open" /\ owner'[t] = owner[t]
  BY <1>1 DEF connect, ConnectionTypeOK, TcpTypeOK
<1> QED BY <1>3, <1>5, <1>6, <1>7 DEF ClientOK

\* connect without a socket (connect_to_server).
LEMMA ConnectFailsOK ==
    ASSUME NEW c \in Clients, ClientsInv, connect_fails(c)
    PROVE  ClientOK(c)
<1>1. ConnectionTypeOK /\ ClientInv(c)
  BY DEF ClientsInv
<1>2. ConnectionTypeOK'
  BY <1>1 DEF connect_fails, ConnectionTypeOK, Returned, ConnectReturn
<1>3. /\ m_sockfd'[c] = NoSock /\ cpc'[c] = "idle"
      /\ \A d \in Clients \ {c} : SameClient(d)
  BY <1>1 DEF connect_fails, ConnectionTypeOK, SameClient
<1>4. ClientInv(c)'
  BY <1>3 DEF ClientInv, SocketOf, ArgumentsOf, Waiting
<1> QED BY <1>2, <1>3, <1>4 DEF connect_fails, tcpVars, ClientOK

\* The end of connect (ConnectReturn).
LEMMA ConnectReturnsOK ==
    ASSUME NEW c \in Clients, ClientsInv, NEW result \in ConnectReturn,
           ConnectReturns(c, result), UNCHANGED cend, cpc[c] \in Living
    PROVE  ClientOK(c)
<1>1. ConnectionTypeOK /\ ClientInv(c)
  BY DEF ClientsInv
<1>2. << >> \in Seq(Strings)
  OBVIOUS
<1>3. [code |-> "CONNECT", result |-> result] \in Returned
  BY DEF Returned
<1>4. ConnectionTypeOK'
  BY <1>1, <1>2, <1>3 DEF ConnectReturns, ConnectionTypeOK, ClientStages
<1>5. cpc'[c] = "idle" /\ m_sockfd'[c] = m_sockfd[c] /\ UNCHANGED owner
      /\ \A d \in Clients \ {c} : SameClient(d)
  BY <1>1 DEF ConnectReturns, ConnectionTypeOK, SameClient
<1>6. ClientInv(c)'
  BY <1>1, <1>5 DEF ClientInv, SocketOf, ArgumentsOf, Waiting
<1> QED BY <1>4, <1>5, <1>6 DEF ClientOK

\* A credential is sent, or connect gives up (log_in).
LEMMA CredentialOK ==
    ASSUME NEW c \in Clients, ClientsInv, send_credential(c)
    PROVE  ClientOK(c)
<1>1. ConnectionTypeOK /\ ClientInv(c) /\ cpc[c] = "login" /\ UNCHANGED cend
  BY DEF ClientsInv, send_credential
<1>2. ASSUME NEW result \in ConnectReturn, ConnectReturns(c, result) PROVE ClientOK(c)
  BY <1>1, <1>2, ConnectReturnsOK DEF Living, Waiting
<1>3. "SERVER_NOT_RESPONDING" \in ConnectReturn /\ "INVALID_SERVER_REQUEST" \in ConnectReturn
  BY DEF ConnectReturn
<1>4. CASE /\ \/ /\ step' = [step EXCEPT ![c] = NextStep(step[c])]
                 /\ cpc' = [cpc EXCEPT ![c] = IF step[c] = 3 THEN "verdict" ELSE "login"]
              \/ /\ cpc' = [cpc EXCEPT ![c] = "sigpipe"]
                 /\ UNCHANGED step
           /\ UNCHANGED <<m_sockfd, m_access, m_errno, args, call, ret, owner>>
  <2>1. step[c] \in 1..3 /\ args[c] \in ConnectArgs
    BY <1>1 DEF ClientInv, ArgumentsOf
  <2>2. NextStep(step[c]) \in 0..3 /\ (step[c] # 3 => NextStep(step[c]) \in 1..3)
    BY <2>1 DEF NextStep
  <2>3. ConnectionTypeOK'
    <3>1. cpc \in [Clients -> ClientStages] /\ step \in [Clients -> 0..3]
      BY <1>1 DEF ConnectionTypeOK
    <3>2. cpc' \in [Clients -> ClientStages]
      BY <1>4, <3>1 DEF ClientStages
    <3>3. step' \in [Clients -> 0..3]
      BY <1>4, <2>2, <3>1
    <3> QED BY <1>1, <1>4, <3>2, <3>3 DEF ConnectionTypeOK
  <2>4. \A d \in Clients \ {c} : SameClient(d)
    BY <1>1, <1>4 DEF ConnectionTypeOK, SameClient
  <2>5. ClientInv(c)'
    BY <1>1, <1>4, <2>1, <2>2
       DEF ConnectionTypeOK, ClientInv, SocketOf, ArgumentsOf, Living, Waiting
  <2> QED BY <1>1, <1>4, <2>3, <2>4, <2>5 DEF ClientOK
<1> QED BY <1>2, <1>3, <1>4 DEF send_credential

\* The verdict is received, or connect gives up (access_filesystem).
LEMMA VerdictOK ==
    ASSUME NEW c \in Clients, ClientsInv, receive_verdict(c)
    PROVE  ClientOK(c)
<1>1. cpc[c] \in Living /\ UNCHANGED cend
  BY DEF receive_verdict, Living, Waiting
<1>2. {"SERVER_NOT_RESPONDING", "OK", "ACCESS_DENIED"} \subseteq ConnectReturn
  BY DEF ConnectReturn
<1> QED BY <1>1, <1>2, ConnectReturnsOK DEF receive_verdict

\* A message of a call's result type has the fields of a result (NFSMessages.hpp).
LEMMA ResultFields ==
    ASSUME NEW m \in MSG, NEW code \in RequestCodes, m.code = ResultCode(code)
    PROVE  m.value \in Int /\ m.errno \in Errnos /\ m.data \in Seq(Nat)
BY DEF MSG, ConnectInfo, ConnectInfoCode, Request, CMSGRequestOpen, CMSGRequestClose,
       CMSGRequestRead, CMSGRequestWrite, CMSGRequestLseek, CMSGRequestFstat,
       CMSGRequestUnlink, CMSGRequestFlock, Result, BareCodes, ResultCode, RequestCodes

\* A request has a request's code.
LEMMA RequestCode ==
    ASSUME NEW r \in Request
    PROVE  r.code \in RequestCodes
BY DEF Request, CMSGRequestOpen, CMSGRequestClose, CMSGRequestRead, CMSGRequestWrite,
       CMSGRequestLseek, CMSGRequestFstat, CMSGRequestUnlink, CMSGRequestFlock,
       RequestCodes

\* The end of a call (send_and_wait and what the eight functions return).
LEMMA CallReturnsOK ==
    ASSUME NEW c \in Clients, ClientsInv, NEW r \in Calls, NEW value \in Int,
           NEW data \in Seq(Nat), CallReturns(c, r, value, data),
           m_errno' \in [Clients -> Errnos \cup {"EHOSTUNREACH", "EBADMSG"}],
           UNCHANGED <<cend, m_sockfd, m_access, args, step, owner>>, cpc[c] \in Living
    PROVE  ClientOK(c)
<1>1. ConnectionTypeOK /\ ClientInv(c)
  BY DEF ClientsInv
<1>2. [code |-> r.code, request |-> r, value |-> value, data |-> data] \in Returned
  BY RequestCode, ConnectionAssumption DEF Returned
<1>3. ConnectionTypeOK'
  BY <1>1, <1>2 DEF CallReturns, ConnectionTypeOK, ClientStages
<1>4. cpc'[c] = "idle" /\ \A d \in Clients \ {c} : SameClient(d)
  BY <1>1 DEF CallReturns, ConnectionTypeOK, SameClient
<1>5. ClientInv(c)'
  BY <1>1, <1>4 DEF ClientInv, SocketOf, ArgumentsOf, Waiting
<1> QED BY <1>3, <1>4, <1>5 DEF ClientOK

\* A call that fails sets m_errno.
LEMMA CallFailsOK ==
    ASSUME NEW c \in Clients, ClientsInv, NEW r \in Calls,
           NEW errno \in Errnos \cup {"EHOSTUNREACH", "EBADMSG"}, CallFails(c, r, errno),
           UNCHANGED <<cend, m_sockfd, m_access, args, step, owner>>, cpc[c] \in Living
    PROVE  ClientOK(c)
<1>1. m_errno' \in [Clients -> Errnos \cup {"EHOSTUNREACH", "EBADMSG"}]
  BY DEF CallFails, ClientsInv, ConnectionTypeOK
<1>2. -1 \in Int /\ << >> \in Seq(Nat)
  OBVIOUS
<1> QED BY <1>1, <1>2, CallReturnsOK DEF CallFails

\* A call is sent, or fails before (open ... flock, up to send_and_wait).
LEMMA BeginCallOK ==
    ASSUME NEW c \in Clients, ClientsInv, NEW r \in Calls, begin_call(c, r)
    PROVE  ClientOK(c)
<1>1. /\ ConnectionTypeOK /\ ClientInv(c) /\ cpc[c] = "idle"
      /\ UNCHANGED <<cend, m_sockfd, m_access, args, step, owner>>
  BY DEF ClientsInv, begin_call
<1>2. ASSUME NEW errno \in {"EACCES", "EBADMSG"}, CallFails(c, r, errno)
      PROVE  ClientOK(c)
  BY <1>1, <1>2, CallFailsOK DEF Errnos, Living
<1>3. ASSUME NEW stage \in {"call", "sigpipe"}, m_sockfd[c] # NoSock,
             cpc' = [cpc EXCEPT ![c] = stage],
             stage = "call" => HasAccess(c) /\ call' = [call EXCEPT ![c] = r],
             stage # "call" => UNCHANGED call,
             UNCHANGED <<ret, m_errno>>
      PROVE  ClientOK(c)
  <2>1. r \in Request
    BY ConnectionAssumption
  <2>2. ConnectionTypeOK'
    BY <1>1, <1>3, <2>1 DEF ConnectionTypeOK, ClientStages
  <2>3. /\ cpc'[c] = stage /\ (stage = "call" => call'[c] = r)
        /\ \A d \in Clients \ {c} : SameClient(d)
    BY <1>1, <1>3 DEF ConnectionTypeOK, SameClient
  <2>4. ClientInv(c)'
    BY <1>1, <1>3, <2>3
       DEF ClientInv, SocketOf, ArgumentsOf, Living, Waiting, HasAccess
  <2> QED BY <1>1, <2>2, <2>3, <2>4 DEF ClientOK
<1> QED BY <1>2, <1>3 DEF begin_call

\* A call gets its answer, or fails (send_and_wait from its recv on).
LEMMA EndCallOK ==
    ASSUME NEW c \in Clients, ClientsInv, TcpTypeOK, end_call(c)
    PROVE  ClientOK(c)
<1> DEFINE m == Head(s2c[m_sockfd[c]])
           r == call[c]
<1>1. /\ ConnectionTypeOK /\ ClientInv(c) /\ cpc[c] = "call" /\ cpc[c] \in Living
      /\ UNCHANGED <<cend, m_sockfd, m_access, args, step, owner>>
  BY DEF ClientsInv, end_call, Living, Waiting
<1>2. r \in Calls /\ r.code \in RequestCodes
  BY <1>1, RequestCode, ConnectionAssumption DEF ClientInv, ArgumentsOf
<1>3. ASSUME NEW errno \in {"EHOSTUNREACH", "EBADMSG"}, CallFails(c, r, errno)
      PROVE  ClientOK(c)
  BY <1>1, <1>2, <1>3, CallFailsOK
<1>4. ASSUME s2c[m_sockfd[c]] # << >>, m.code = ResultCode(r.code)
      PROVE  m.value \in Int /\ m.errno \in Errnos /\ m.data \in Seq(Nat)
  <2>1. m_sockfd[c] \in Sessions
    BY <1>1 DEF ConnectionTypeOK, ClientInv, SocketOf, Waiting
  <2>2. m \in MSG
    BY <1>4, <2>1 DEF TcpTypeOK
  <2> QED BY <1>2, <1>4, <2>2, ResultFields
<1>5. ASSUME s2c[m_sockfd[c]] # << >>, m.code = ResultCode(r.code), CallFails(c, r, m.errno)
      PROVE  ClientOK(c)
  BY <1>1, <1>2, <1>4, <1>5, CallFailsOK
<1>6. ASSUME s2c[m_sockfd[c]] # << >>, m.code = ResultCode(r.code),
             CallReturns(c, r, ReturnValue(r.code, m.value), m.data), UNCHANGED m_errno
      PROVE  ClientOK(c)
  <2>1. ReturnValue(r.code, m.value) \in Int
    BY <1>4, <1>6 DEF ReturnValue
  <2>2. m_errno' \in [Clients -> Errnos \cup {"EHOSTUNREACH", "EBADMSG"}]
    BY <1>1, <1>6 DEF ConnectionTypeOK
  <2> QED BY <1>1, <1>2, <1>4, <1>6, <2>1, <2>2, CallReturnsOK
<1> QED BY <1>3, <1>5, <1>6 DEF end_call, ClientReceives

\* The destructor, and the death of a process (~NFSConnection).
LEMMA LeavesOK ==
    ASSUME NEW c \in Clients, ClientsInv, TcpTypeOK,
           destroy_connection(c) \/ crash(c) \/ end_process(c)
    PROVE  ClientOK(c)
<1>1. ConnectionTypeOK /\ ClientInv(c)
  BY DEF ClientsInv
<1>2. UNCHANGED <<m_sockfd, owner>>
  BY DEF destroy_connection, crash, end_process
<1>3. << >> \in Seq(Strings) /\ 0 \in 0..3
  OBVIOUS
<1>4. ConnectionTypeOK'
  <2>1. CASE destroy_connection(c)
    BY <1>1, <2>1 DEF destroy_connection, ConnectionTypeOK, ClientStages
  <2>2. CASE crash(c)
    BY <1>1, <2>2 DEF crash, ConnectionTypeOK, ClientStages
  <2>3. CASE end_process(c)
    BY <1>1, <1>3, <2>3 DEF end_process, ConnectionTypeOK, ClientStages
  <2> QED BY <2>1, <2>2, <2>3
<1>5. /\ cpc'[c] \in {"destroyed", "sigpipe", "dying", "gone"}
      /\ \A d \in Clients \ {c} : SameClient(d)
  BY <1>1 DEF destroy_connection, crash, end_process, ConnectionTypeOK, SameClient
<1>6. ClientInv(c)'
  BY <1>5 DEF ClientInv, SocketOf, ArgumentsOf, Living, Waiting
<1>7. ASSUME NEW s \in Sessions, cend[s] = "open", owner[s] # c PROVE cend'[s] = "open"
  <2>1. CASE destroy_connection(c)
    <3>1. m_sockfd[c] # s \/ m_sockfd[c] = NoSock
      BY <1>1, <1>7, <2>1 DEF destroy_connection, ClientInv, SocketOf, Living
    <3> QED BY <1>7, <2>1, <3>1 DEF destroy_connection, tcpVars, TcpTypeOK
  <2>2. CASE crash(c)
    BY <1>7, <2>2 DEF crash, tcpVars
  <2>3. CASE end_process(c)
    BY <1>7, <2>3 DEF end_process
  <2> QED BY <2>1, <2>2, <2>3
<1> QED BY <1>2, <1>4, <1>5, <1>6, <1>7 DEF ClientOK

\* Every step of a client.
LEMMA ClientMovesOK ==
    ASSUME NEW c \in Clients, ClientsInv, TcpTypeOK, ClientMoves(c)
    PROVE  ClientsInv'
<1>1. ClientOK(c)
  BY ConnectOK, ConnectFailsOK, CredentialOK, VerdictOK, BeginCallOK, EndCallOK, LeavesOK
     DEF ClientMoves, Connects, ClientStep, ClientProgress
<1> QED BY <1>1, ClientKeepsInv

-----------------------------------------------------------------------------
(* What the server sees of a client.                                       *)

\* A client that sends, receives, or does both talks (send_message and
\* wait_for_message).
LEMMA Talking ==
    ASSUME NEW s \in Sessions, NEW m \in ClientMessages, cend[s] = "open",
           ClientReceives(s) \/ UNCHANGED s2c, ClientSends(s, m) \/ UNCHANGED c2s,
           ~UNCHANGED <<s2c, c2s>>, UNCHANGED <<cend, wend>>,
           UNCHANGED <<kernelVars, workerVars, lpc>>
    PROVE  EnvStep
<1>1. ClientReceives(s) => EnvReceives(s)
  BY DEF ClientReceives, EnvReceives
<1>2. ClientSends(s, m) => EnvSends(s, m)
  BY DEF ClientSends, EnvSends
<1>3. EnvTalks(s, m)
  BY <1>1, <1>2 DEF EnvTalks
<1> QED BY <1>3 DEF EnvStep

\* A client step is a step of the server's environment, or none.
LEMMA ClientIsEnvironment ==
    ASSUME NEW c \in Clients, ClientsInv, TcpTypeOK, ClientMoves(c)
    PROVE  [ServerNext]_serverVars
<1> DEFINE s == m_sockfd[c]
<1>1. /\ UNCHANGED <<kernelVars, workerVars, lpc>>
      /\ ConnectionTypeOK /\ ClientInv(c)
      /\ s # NoSock => s \in Sessions
  BY DEF ClientMoves, ClientsInv, ConnectionTypeOK
<1>2. Bare("DISCONNECT") \in ClientMessages
  BY SystemAssumption DEF LibraryMessages
<1>3. ASSUME UNCHANGED tcpVars PROVE UNCHANGED serverVars
  BY <1>1, <1>3 DEF serverVars
<1>4. ASSUME NEW m \in ClientMessages, s \in Sessions, cend[s] = "open",
             ClientReceives(s) \/ UNCHANGED s2c, ClientSends(s, m) \/ UNCHANGED c2s,
             UNCHANGED <<cend, wend>>
      PROVE  EnvStep \/ UNCHANGED serverVars
  BY <1>1, <1>3, <1>4, Talking DEF tcpVars
<1>5. cpc[c] \in Living /\ (s # NoSock \/ cpc[c] \in Waiting) =>
         s \in Sessions /\ cend[s] = "open"
  BY <1>1 DEF ClientInv, SocketOf, Living
<1>6. CASE Connects(c)
  <2>1. PICK t \in Sessions, a \in ConnectArgs : lpc = "listening" /\ connect(c, t, a)
    BY <1>6 DEF Connects
  <2>2. EnvConnect(t)
    BY <2>1 DEF connect, EnvConnect
  <2> QED BY <1>1, <2>2 DEF EnvStep, ServerNext
<1>7. CASE connect_fails(c) \/ crash(c)
  BY <1>3, <1>7 DEF connect_fails, crash
<1>8. CASE send_credential(c)
  <2> DEFINE m == [code |-> ConnectInfoCode[step[c]], text |-> args[c][step[c]]]
  <2>1. m \in ClientMessages
    BY <1>1, <1>8, SystemAssumption
       DEF send_credential, ClientInv, ArgumentsOf, LibraryMessages
  <2>2. s \in Sessions /\ cend[s] = "open"
    BY <1>5, <1>8 DEF send_credential, Living, Waiting
  <2>3. /\ ClientReceives(s) \/ UNCHANGED s2c
        /\ ClientSends(s, m) \/ UNCHANGED c2s
        /\ UNCHANGED <<cend, wend>>
    BY <1>8 DEF send_credential
  <2> HIDE DEF m
  <2> QED BY <1>4, <2>1, <2>2, <2>3 DEF ServerNext
<1>9. CASE receive_verdict(c) \/ end_call(c)
  <2>1. s \in Sessions /\ cend[s] = "open"
    BY <1>5, <1>9 DEF receive_verdict, end_call, Living, Waiting
  <2>2. ClientReceives(s) \/ UNCHANGED s2c
    BY <1>9 DEF receive_verdict, end_call
  <2>3. UNCHANGED <<c2s, cend, wend>>
    BY <1>9 DEF receive_verdict, end_call
  <2> QED BY <1>2, <1>4, <2>1, <2>2, <2>3 DEF ServerNext
<1>10. ASSUME NEW r \in Calls, begin_call(c, r) PROVE [ServerNext]_serverVars
  <2>1. r \in ClientMessages
    BY SystemAssumption DEF LibraryMessages
  <2>2. UNCHANGED <<s2c, cend, wend>> /\ cpc[c] = "idle"
    BY <1>10 DEF begin_call
  <2>3. CASE UNCHANGED c2s
    BY <1>3, <2>2, <2>3 DEF tcpVars
  <2>4. CASE s # NoSock /\ ClientSends(s, r)
    BY <1>4, <1>5, <2>1, <2>2, <2>4 DEF ServerNext, Living
  <2> QED BY <1>10, <2>3, <2>4 DEF begin_call
<1>11. CASE destroy_connection(c)
  <2>1. CASE UNCHANGED tcpVars
    BY <1>3, <2>1
  <2>2. CASE s # NoSock /\ ClientSends(s, Bare("DISCONNECT")) /\ UNCHANGED <<s2c, cend, wend>>
    BY <1>2, <1>4, <1>5, <1>11, <2>2 DEF destroy_connection, ServerNext, Living
  <2>3. CASE /\ s # NoSock /\ ClientSends(s, Bare("DISCONNECT"))
             /\ cend' = [cend EXCEPT ![s] = "closed"]
             /\ s2c' = [s2c EXCEPT ![s] = << >>]
             /\ UNCHANGED wend
    <3>1. s \in Sessions /\ cend[s] = "open"
      BY <1>5, <1>11, <2>3 DEF destroy_connection, Living
    <3>2. EnvDisconnects(s)
      BY <1>2, <2>3, <3>1 DEF EnvDisconnects, ClientSends, EnvSends
    <3> QED BY <1>1, <3>1, <3>2 DEF EnvStep, ServerNext
  <2> QED BY <1>11, <2>1, <2>2, <2>3 DEF destroy_connection
<1>12. CASE end_process(c)
  <2> DEFINE open == {t \in Sessions : owner[t] = c /\ cend[t] = "open"}
  <2>1. EnvCloses(open)
    BY <1>12 DEF end_process, EnvCloses
  <2>2. CASE open # {}
    <3>1. open \in (SUBSET Sessions) \ {{}}
      BY <2>2
    <3> HIDE DEF open
    <3>2. EnvStep
      BY <1>1, <2>1, <3>1 DEF EnvStep
    <3> QED BY <3>2 DEF ServerNext
  <2>3. CASE open = {}
    <3>1. cend' = [t \in Sessions |-> cend[t]] /\ s2c' = [t \in Sessions |-> s2c[t]]
      <4> HIDE DEF open
      <4> QED BY <2>1, <2>3 DEF EnvCloses
    <3>2. UNCHANGED <<cend, s2c>>
      BY <3>1 DEF TcpTypeOK
    <3> QED BY <1>3, <1>12, <3>2 DEF end_process, tcpVars
  <2> QED BY <2>2, <2>3
<1> QED BY <1>6, <1>7, <1>8, <1>9, <1>10, <1>11, <1>12
        DEF ClientMoves, ClientStep, ClientProgress

-----------------------------------------------------------------------------
\* The invariant of the server and that of the clients, together.
SystemInv == IInv /\ ClientsInv

\* A step of the server leaves the clients and their ends of the sockets alone.
LEMMA ServerMovesOK ==
    ASSUME ClientsInv, UNCHANGED <<cend, connectionVars>>
    PROVE  ClientsInv'
BY DEF ClientsInv, ConnectionTypeOK, ClientInv, SocketOf, ArgumentsOf, connectionVars

\* No step of the server moves a client's end of a socket.
LEMMA ServerKeepsEnds ==
    ASSUME ListenerStep \/ \E s \in Sessions : WorkerStep(s)
    PROVE  UNCHANGED cend
<1>1. CASE ListenerStep
  BY <1>1 DEF ListenerStep, accept_fails, accept_and_fork, fork_fails, WorkerCloses
<1>2. ASSUME NEW s \in Sessions, handle_request(s) PROVE UNCHANGED cend
  BY <1>2 DEF handle_request, handle_request_open, handle_request_close,
              handle_request_read, handle_request_write, handle_request_lseek,
              handle_request_fstat, handle_request_unlink, handle_request_flock,
              flock_ends, handle_disconnect, reject_message, Answer, AnswerEBADF, Abandon,
              tcpVars
<1>3. ASSUME NEW s \in Sessions,
             \/ authenticate(s) \/ receive_request(s) \/ send_result(s)
             \/ receive_fails(s) \/ destroy(s) \/ exit_process(s)
      PROVE  UNCHANGED cend
  BY <1>3 DEF authenticate, ask_info, receive_info, select, send_verdict,
              receive_request, send_result, receive_fails, destroy, exit_process,
              SendThen, WorkerSend, WorkerReceives, WorkerHangup, WorkerCloses, tcpVars
<1> QED BY <1>1, <1>2, <1>3 DEF WorkerStep

\* Every step of the system is one of the server or of its environment ...
LEMMA SystemSteps ==
    ASSUME SystemInv, [Next]_vars
    PROVE  [ServerNext]_serverVars
<1>1. TcpTypeOK
  BY DEF SystemInv, IInv, ServerTypeOK
<1>2. ASSUME NEW c \in Clients, ClientMoves(c) PROVE [ServerNext]_serverVars
  BY <1>1, <1>2, ClientIsEnvironment DEF SystemInv
<1>3. CASE UNCHANGED vars
  BY <1>3 DEF vars
<1> QED BY <1>2, <1>3 DEF Next, WorkerMoves, ServerNext

\* ... and keeps the invariant of the clients.
LEMMA SystemStepsKeepClients ==
    ASSUME SystemInv, [Next]_vars
    PROVE  ClientsInv'
<1>1. TcpTypeOK
  BY DEF SystemInv, IInv, ServerTypeOK
<1>2. ASSUME NEW c \in Clients, ClientMoves(c) PROVE ClientsInv'
  BY <1>1, <1>2, ClientMovesOK DEF SystemInv
<1>3. CASE UNCHANGED vars
  BY <1>3, ServerMovesOK DEF vars, serverVars, tcpVars, SystemInv
<1>4. CASE \/ ListenerStep /\ UNCHANGED connectionVars
           \/ \E s \in Sessions : WorkerMoves(s)
  BY <1>4, ServerKeepsEnds, ServerMovesOK DEF WorkerMoves, SystemInv
<1> QED BY <1>2, <1>3, <1>4 DEF Next

\* The invariant holds in every reachable state of the system.
LEMMA SystemInvHolds == Spec => []SystemInv
<1>1. Init => SystemInv
  <2>1. ConnectionInit => ConnectionTypeOK
    BY DEF ConnectionInit, ConnectionTypeOK, ClientStages, Errnos
  <2>2. ConnectionInit => \A c \in Clients : ClientInv(c)
    BY DEF ConnectionInit, ClientInv, SocketOf, ArgumentsOf, Waiting
  <2> QED BY <2>1, <2>2, InitIInv DEF Init, SystemInv, ClientsInv
<1>2. SystemInv /\ [Next]_vars => SystemInv'
  BY SystemSteps, SystemStepsKeepClients, ServerStepsKeepIInv DEF SystemInv
<1> QED BY <1>1, <1>2, PTL DEF Spec

\* The library's clients are clients that the server is proved for: a run of the
\* system is a run of the server (NFSConnection.cpp, NFSServerWorker.cpp).
THEOREM SystemImplementsServer == Spec => ImplementsServer
<1>1. Init => ServerInit
  BY DEF Init
<1>2. SystemInv /\ [Next]_vars => [ServerNext]_serverVars
  BY SystemSteps
<1> QED BY <1>1, <1>2, SystemInvHolds, PTL DEF Spec, ImplementsServer, ServerSpec

\* Every variable of the system keeps its type, and a client that waits for a
\* message has what it needs (connect, and the check of m_access in every call).
THEOREM SystemTypesHold == Spec => []TypeOK
<1>1. SystemInv => TypeOK
  BY DEF SystemInv, IInv, ClientsInv, ClientInv, SocketOf, ArgumentsOf, Waiting,
         TypeOK, WaitsForAnAnswer
<1> QED BY <1>1, SystemInvHolds, PTL

-----------------------------------------------------------------------------
(* Access means authenticated, on an object that connects once.            *)

\* A client with access holds the socket of a worker that has accepted it.
AccessAt(c) == m_access[c] => m_sockfd[c] # NoSock /\ authenticated[m_sockfd[c]]

\* The acceptance on its way to a client is true.
VerdictAt(s) ==
    \A i \in 1..Len(s2c[s]) :
        s2c[s][i].code = "AUTHORIZATION_OK" => authenticated[s]

AccessInv == (\A c \in Clients : AccessAt(c)) /\ (\A s \in Sessions : VerdictAt(s))

\* A worker that has accepted its client has done so for good (authenticated).
LEMMA AcceptedForGood ==
    ASSUME NEW s \in Sessions, NEW t \in Sessions, IInv, WorkerStep(s)
    PROVE  authenticated[t] => authenticated'[t]
<1>1. CASE select(s)
  BY <1>1 DEF select, IInv, ServerTypeOK, WorkerTypeOK, SessionInv, LoginAt, Early
<1>2. CASE handle_request(s)
  <2>1. UNCHANGED authenticated
    BY <1>2 DEF handle_request, handle_request_open, handle_request_close,
                handle_request_read, handle_request_write, handle_request_lseek,
                handle_request_fstat, handle_request_unlink, handle_request_flock,
                flock_ends, handle_disconnect, reject_message, Answer, AnswerEBADF,
                Abandon, sessionVars
  <2> QED BY <2>1
<1>3. CASE \/ ask_info(s) \/ receive_info(s) \/ send_verdict(s) \/ receive_request(s)
           \/ send_result(s) \/ receive_fails(s) \/ destroy(s) \/ exit_process(s)
  <2>1. UNCHANGED authenticated
    BY <1>3 DEF ask_info, receive_info, send_verdict, receive_request, send_result,
                receive_fails, destroy, exit_process, sessionVars
  <2> QED BY <2>1
<1> QED BY <1>1, <1>2, <1>3 DEF WorkerStep, authenticate

\* What a worker sends, and when it says that it has accepted its client.
LEMMA WorkerSends ==
    ASSUME NEW s \in Sessions, IInv, WorkerStep(s)
    PROVE  \/ UNCHANGED s2c
           \/ \E m \in MSG : \E outcome :
                 /\ WorkerSend(s, m, outcome)
                 /\ m.code = "AUTHORIZATION_OK" => authenticated[s]
<1>1. CASE handle_request(s)
  <2>1. UNCHANGED s2c
    BY <1>1 DEF handle_request, handle_request_open, handle_request_close,
                handle_request_read, handle_request_write, handle_request_lseek,
                handle_request_fstat, handle_request_unlink, handle_request_flock,
                flock_ends, handle_disconnect, reject_message, Answer, AnswerEBADF,
                Abandon, tcpVars
  <2> QED BY <2>1
<1>2. CASE \/ receive_info(s) \/ select(s) \/ receive_request(s)
           \/ receive_fails(s) \/ destroy(s) \/ exit_process(s)
  <2>1. UNCHANGED s2c
    BY <1>2 DEF receive_info, select, receive_request, receive_fails, destroy,
                exit_process, WorkerReceives, WorkerHangup, WorkerCloses, tcpVars
  <2> QED BY <2>1
<1>3. CASE ask_info(s)
  <2> DEFINE m == Bare(ProvideCode[Len(info[s]) + 1])
  <2>1. Len(info[s]) \in 0..2
    BY <1>3 DEF ask_info, IInv, SessionInv, LoginAt
  <2>2. \A n \in 0..2 : LET q == Bare(ProvideCode[n + 1])
                        IN  q \in MSG /\ q.code # "AUTHORIZATION_OK"
    BY DEF ProvideCode, Bare, MSG, BareCodes
  <2>3. m \in MSG /\ m.code # "AUTHORIZATION_OK"
    BY <2>1, <2>2
  <2> QED BY <1>3, <2>3 DEF ask_info, SendThen
<1>4. CASE send_verdict(s)
  <2>1. \A code \in {"AUTHORIZATION_OK", "AUTHORIZATION_FAILED"} :
           Bare(code) \in MSG /\ Bare(code).code = code
    BY DEF Bare, MSG, BareCodes
  <2> QED BY <1>4, <2>1 DEF send_verdict
<1>5. CASE send_result(s)
  <2>1. response[s] \in Result
    BY <1>5 DEF send_result, IInv, SessionInv, MessagesAt
  <2>2. response[s] \in MSG /\ response[s].code # "AUTHORIZATION_OK"
    BY <2>1 DEF Result, MSG
  <2> QED BY <1>5, <2>2 DEF send_result
<1> QED BY <1>1, <1>2, <1>3, <1>4, <1>5 DEF WorkerStep, authenticate

\* A step of a worker keeps both (send_verdict, select_user).
LEMMA WorkerKeepsAccess ==
    ASSUME NEW s \in Sessions, IInv, ClientsInv, AccessInv, WorkerMoves(s)
    PROVE  AccessInv'
<1>1. /\ WorkerStep(s) /\ TcpTypeOK
      /\ \A t \in Sessions : authenticated[t] => authenticated'[t]
      /\ \A c \in Clients : m_sockfd[c] # NoSock => m_sockfd[c] \in Sessions
  BY AcceptedForGood
     DEF WorkerMoves, IInv, ServerTypeOK, ClientsInv, ConnectionTypeOK
<1>2. \A c \in Clients : AccessAt(c)'
  BY <1>1 DEF AccessInv, AccessAt, WorkerMoves, connectionVars
<1>3. ASSUME NEW t \in Sessions PROVE VerdictAt(t)'
  <2>1. VerdictAt(t)
    BY DEF AccessInv
  <2>2. CASE UNCHANGED s2c
    BY <1>1, <2>1, <2>2 DEF VerdictAt
  <2>3. ASSUME NEW m \in MSG, NEW outcome, WorkerSend(s, m, outcome),
               m.code = "AUTHORIZATION_OK" => authenticated[s]
        PROVE  VerdictAt(t)'
    <3>1. CASE s2c'[t] = s2c[t]
      BY <1>1, <2>1, <3>1 DEF VerdictAt
    <3>2. CASE t = s /\ s2c'[t] = Append(s2c[t], m)
      BY <1>1, <2>1, <2>3, <3>2 DEF VerdictAt, TcpTypeOK
    <3> QED BY <1>1, <2>3, <3>1, <3>2 DEF WorkerSend, Sent, TcpTypeOK
  <2> QED BY <1>1, <2>2, <2>3, WorkerSends
<1> QED BY <1>2, <1>3 DEF AccessInv

\* A step of a client keeps both, when it connects once (connect, m_access).
LEMMA ClientKeepsAccess ==
    ASSUME NEW c \in Clients, IInv, ClientsInv, AccessInv, ~Reconnects, ClientMoves(c)
    PROVE  AccessInv'
<1>1. /\ TcpTypeOK /\ ConnectionTypeOK /\ UNCHANGED authenticated
  BY DEF IInv, ServerTypeOK, ClientsInv, ClientMoves, workerVars
<1>2. ASSUME NEW s \in Sessions PROVE VerdictAt(s)'
  <2>1. \/ s2c'[s] = s2c[s] \/ s2c'[s] = << >>
        \/ s2c[s] # << >> /\ s2c'[s] = Tail(s2c[s])
    BY <1>1 DEF ClientMoves, Connects, connect, ClientStep, ClientProgress,
                send_credential, receive_verdict, end_call, connect_fails, begin_call,
                destroy_connection, crash, end_process, ClientReceives, tcpVars, TcpTypeOK
  <2>2. VerdictAt(s) /\ s2c[s] \in Seq(MSG)
    BY <1>1 DEF AccessInv, TcpTypeOK
  <2>3. CASE s2c[s] # << >> /\ s2c'[s] = Tail(s2c[s])
    BY <1>1, <2>2, <2>3 DEF VerdictAt
  <2> QED BY <1>1, <2>1, <2>2, <2>3 DEF VerdictAt
<1>3. CASE receive_verdict(c) /\ m_access'[c] # m_access[c]
  <2>1. s2c[m_sockfd[c]] # << >> /\ Head(s2c[m_sockfd[c]]).code = "AUTHORIZATION_OK"
    BY <1>1, <1>3 DEF receive_verdict, ConnectReturns, ClientReceives, ConnectionTypeOK
  <2>2. m_sockfd[c] \in Sessions /\ m_sockfd[c] # NoSock
    BY <1>3 DEF receive_verdict, ClientsInv, ConnectionTypeOK, ClientInv, SocketOf, Waiting
  <2>3. Head(s2c[m_sockfd[c]]) = s2c[m_sockfd[c]][1] /\ 1 \in 1..Len(s2c[m_sockfd[c]])
    BY <1>1, <2>1, <2>2 DEF TcpTypeOK
  <2>4. authenticated[m_sockfd[c]]
    BY <2>1, <2>2, <2>3 DEF AccessInv, VerdictAt
  <2>5. /\ UNCHANGED m_sockfd
        /\ \A d \in Clients \ {c} : m_access'[d] = m_access[d]
    BY <1>1, <1>3 DEF receive_verdict, ConnectReturns, ConnectionTypeOK
  <2>6. \A d \in Clients : AccessAt(d)'
    BY <1>1, <2>2, <2>4, <2>5 DEF AccessInv, AccessAt
  <2> QED BY <1>2, <2>6 DEF AccessInv
<1>4. CASE UNCHANGED m_access
  <2>1. \A d \in Clients : m_access[d] => m_sockfd'[d] = m_sockfd[d]
    BY <1>1 DEF AccessInv, AccessAt, ClientMoves, Connects, connect, ClientStep,
                ClientProgress, send_credential, receive_verdict, end_call,
                connect_fails, begin_call, destroy_connection, crash, end_process,
                ConnectReturns, ConnectionTypeOK
  <2> QED BY <1>1, <1>2, <1>4, <2>1 DEF AccessInv, AccessAt
<1>5. UNCHANGED m_access \/ receive_verdict(c)
  BY <1>1 DEF ClientMoves, Connects, connect, ClientStep, ClientProgress,
              send_credential, end_call, connect_fails, begin_call,
              destroy_connection, crash, end_process, ConnectReturns, ConnectionTypeOK,
              CallFails, CallReturns
<1>6. receive_verdict(c) => \A d \in Clients \ {c} : m_access'[d] = m_access[d]
  BY <1>1 DEF receive_verdict, ConnectReturns, ConnectionTypeOK
<1>7. receive_verdict(c) => m_access' \in [Clients -> BOOLEAN]
  BY <1>1 DEF receive_verdict, ConnectReturns, ConnectionTypeOK
<1>8. receive_verdict(c) /\ m_access'[c] = m_access[c] => UNCHANGED m_access
  BY <1>1, <1>6, <1>7 DEF ConnectionTypeOK
<1> QED BY <1>3, <1>4, <1>5, <1>8

\* A client that has been granted access talks to a worker that has accepted the
\* credentials; connecting an object twice is why the condition is there
\* (NFSConnection.hpp:146, NFSConnection.cpp:27).
THEOREM AccessIsAuthenticated ==
    ASSUME ~Reconnects
    PROVE  Spec => []AccessMeansAuthenticated
<1>1. Init => AccessInv
  BY DEF Init, ConnectionInit, ServerInit, TcpInit, AccessInv, AccessAt, VerdictAt
<1>2. SystemInv /\ AccessInv /\ [Next]_vars => AccessInv'
  <2> SUFFICES ASSUME SystemInv, AccessInv, [Next]_vars PROVE AccessInv'
    OBVIOUS
  <2>1. ASSUME NEW s \in Sessions, WorkerMoves(s) PROVE AccessInv'
    BY <2>1, WorkerKeepsAccess DEF SystemInv
  <2>2. ASSUME NEW c \in Clients, ClientMoves(c) PROVE AccessInv'
    BY <2>2, ClientKeepsAccess DEF SystemInv
  <2>3. CASE UNCHANGED vars \/ (ListenerStep /\ UNCHANGED connectionVars)
    <3>1. UNCHANGED <<s2c, authenticated, m_access, m_sockfd>>
      BY <2>3 DEF vars, serverVars, ListenerStep, accept_fails, accept_and_fork,
                  fork_fails, WorkerCloses, tcpVars, workerVars, connectionVars,
                  sessionVars
    <3> QED BY <3>1 DEF AccessInv, AccessAt, VerdictAt
  <2> QED BY <2>1, <2>2, <2>3 DEF Next
<1>3. SystemInv /\ AccessInv => AccessMeansAuthenticated
  BY DEF SystemInv, ClientsInv, ConnectionTypeOK, AccessInv, AccessAt, IInv, SessionInv,
         LoginAt, AccessMeansAuthenticated, Sock
<1> QED BY <1>1, <1>2, <1>3, SystemInvHolds, PTL DEF Spec
=============================================================================
