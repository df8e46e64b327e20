-------------------------- MODULE NFSRemote_proofs --------------------------
(***************************************************************************)
(* The proof that the system implements RemoteFiles.tla: what a client     *)
(* sees of its worker is a local process of the server's system.  The      *)
(* invariant RemoteInv relates each client to the session it has; then     *)
(* every step of the system is a step of RemoteFiles.tla, or changes       *)
(* nothing that it shows.                                                  *)
(***************************************************************************)
EXTENDS NFSConversation_proofs

\* A client has been granted access to the worker of session s.
Served(s) == \E c \in Clients : m_access[c] /\ m_sockfd[c] = s

\* The socket of an object was opened by that very process.
OwnAt(c) == m_sockfd[c] # NoSock =>
                owner[m_sockfd[c]] = c /\ cend[m_sockfd[c]] # "unused"

\* A client has access to a worker that serves it, or has done so, and makes its
\* calls with access only.
StageAt(c) ==
    /\ m_access[c] => /\ m_sockfd[c] # NoSock
                      /\ wpc[m_sockfd[c]] \in Serving \cup Ended
    /\ cpc[c] = "call" => m_access[c]

\* What the worker has heard so far are the arguments of connect.
CredentialsOf(c) ==
    cpc[c] \in {"login", "verdict"} =>
        /\ ~m_access[c] /\ args[c] \in ConnectArgs
        /\ \A k \in 1..Len(info[m_sockfd[c]]) : info[m_sockfd[c]][k] = args[c][k]
        /\ c2s[m_sockfd[c]] # << >> /\ wpc[m_sockfd[c]] = "await" =>
              Head(c2s[m_sockfd[c]]).text = args[c][Len(info[m_sockfd[c]]) + 1]

\* A result of one of the calls that return 0, and of all of them.
NoValue == {"RESULT_CLOSE", "RESULT_FSTAT", "RESULT_UNLINK", "RESULT_FLOCK"}
Proper(m) ==
    m.code \in {ResultCode(code) : code \in RequestCodes} =>
        /\ m.value >= 0 \/ (m.value = -1 /\ m.data = << >>)
        /\ m.code \in NoValue => m.value \in {0, -1}

\* What is on its way to a client, and the answer that will be.
WireAt(s) ==
    /\ s2c[s] # << >> =>
          /\ cend[s] = "open" /\ Proper(Head(s2c[s]))
          /\ Head(s2c[s]).code = "AUTHORIZATION_OK" => wpc[s] = "serve"
    /\ wpc[s] = "reply" => Proper(response[s])

\* Requests and files are those of a client that has access.
ServedAt(s) ==
    /\ c2s[s] # << >> /\ Head(c2s[s]).code \in RequestCodes => Served(s)
    /\ request[s].code \in RequestCodes => Served(s)
    /\ (\E fd \in Fds : IsFile(s, fd)) => Served(s)

\* A worker that handles no request is in server mode.
ServerModeAt(s) ==
    wpc[s] \in Early \cup {"verdict", "serve"} => euid[s] \in {Root, RealUid}

ClientsView  == \A c \in Clients : OwnAt(c) /\ StageAt(c) /\ CredentialsOf(c)
SessionsView == \A s \in Sessions : WireAt(s) /\ ServedAt(s) /\ ServerModeAt(s)
RemoteInv == ClientsView /\ SessionsView

-----------------------------------------------------------------------------
(* What the step of a worker makes of what it has heard.                   *)

Hears(s) ==
    /\ wpc[s] \in Serving \cup Ended => wpc'[s] \in Serving \cup Ended
    /\ c2s'[s] # << >> => /\ c2s'[s] = c2s[s] /\ info'[s] = info[s]
                          /\ wpc'[s] = "await" => wpc[s] = "await"
    /\ \/ info'[s] = info[s]
       \/ /\ wpc[s] = "await" /\ c2s[s] # << >>
          /\ info'[s] = Append(info[s], Head(c2s[s]).text)
    /\ \/ request'[s] \in {request[s], NoMessage}
       \/ c2s[s] # << >> /\ request'[s] = Head(c2s[s])
    /\ wpc'[s] \in Early \cup {"verdict", "serve"} =>
          \/ euid'[s] = RealUid
          \/ euid'[s] = euid[s] /\ wpc[s] \in Early \cup {"verdict", "serve"}

\* The steps of the login (authenticate).
LEMMA LoginHears ==
    ASSUME NEW s \in Sessions, IInv, ClientsInv, ConversationInv, authenticate(s)
    PROVE  Hears(s)
<1>1. TcpTypeOK /\ WorkerTypeOK /\ OneAt(s)
  BY TalkFacts
<1>2. CASE ask_info(s) \/ select(s) \/ send_verdict(s)
  <2>1. wpc[s] \in {"ask", "select", "verdict"} /\ c2s[s] = << >>
    BY <1>1, <1>2 DEF ask_info, select, send_verdict, OneAt, Working, Quiet
  <2>2. UNCHANGED <<c2s, info, request, euid>>
    BY <1>2 DEF ask_info, select, send_verdict, SendThen, WorkerSend, sessionVars,
                messageVars, kernelVars, tcpVars
  <2>3. wpc'[s] # wpc[s] /\ (wpc[s] = "verdict" => wpc'[s] # "await")
    BY <1>1, <1>2 DEF ask_info, select, send_verdict, SendThen, Goto, Returns, Dies,
                      WorkerTypeOK
  <2> QED BY <2>1, <2>2, <2>3 DEF Hears, Serving, Ended, Early
<1>3. CASE receive_info(s)
  <2>1. /\ wpc[s] = "await" /\ c2s[s] # << >> /\ c2s'[s] = << >>
        /\ UNCHANGED <<request, euid>>
    BY <1>1, <1>3, ReceivedAlone DEF receive_info, WorkerReceives, Quiet, messageVars,
                                     kernelVars
  <2>2. \/ info'[s] = info[s]
        \/ info'[s] = Append(info[s], Head(c2s[s]).text)
    BY <1>1, <1>3 DEF receive_info, WorkerTypeOK
  <2> QED BY <2>1, <2>2 DEF Hears, Serving, Ended, Early
<1> QED BY <1>2, <1>3 DEF authenticate

\* The steps of the request loop and those after it (handle_requests).
LEMMA LoopHears ==
    ASSUME NEW s \in Sessions, IInv, ClientsInv, ConversationInv,
           \/ receive_request(s) \/ handle_request(s) \/ send_result(s)
           \/ receive_fails(s) \/ destroy(s) \/ exit_process(s)
    PROVE  Hears(s)
<1>1. /\ TcpTypeOK /\ WorkerTypeOK /\ OneAt(s) /\ TurnAt(s)
      /\ euid \in [Sessions -> Uids]
  BY TalkFacts DEF ConversationInv, IInv, ServerTypeOK, KernelTypeOK
<1>2. CASE receive_request(s)
  <2>1. wpc[s] = "serve" /\ c2s[s] # << >> /\ c2s'[s] = << >> /\ UNCHANGED info
    BY <1>1, <1>2, ReceivedAlone DEF receive_request, WorkerReceives, Quiet, sessionVars
  <2>2. wpc'[s] \in {"handle", "unwind", "exit"} /\ request'[s] \in {request[s], Head(c2s[s])}
    BY <1>1, <1>2 DEF receive_request, Goto, Returns, Dies, WorkerTypeOK
  <2> QED BY <2>1, <2>2 DEF Hears, Serving, Ended, Early
<1>3. CASE handle_request(s)
  <2>1. HandlerStep(s)
    BY <1>1, <1>3, HandlersTalk
  <2>2. c2s'[s] = << >> /\ UNCHANGED info
    BY <1>1, <2>1, SMTT(20) DEF HandlerStep, OneAt, Working, Quiet, tcpVars
  <2>3. request'[s] \in {request[s], NoMessage}
    BY <1>1, <1>3
       DEF handle_request, handle_request_open, handle_request_close,
           handle_request_read, handle_request_write, handle_request_lseek,
           handle_request_fstat, handle_request_unlink, handle_request_flock,
           flock_ends, handle_disconnect, reject_message, Answer, AnswerEBADF,
           Abandon, Forget, messageVars, WorkerTypeOK
  <2> QED BY <2>1, <2>2, <2>3 DEF Hears, HandlerStep, Serving, Ended, Early
<1>4. CASE send_result(s)
  <2>1. wpc[s] = "reply" /\ c2s'[s] = << >> /\ UNCHANGED info /\ request'[s] = NoMessage
    BY <1>1, <1>4 DEF send_result, OneAt, Working, Quiet, WorkerSend, sessionVars, Forget,
                      WorkerTypeOK
  <2>2. /\ wpc'[s] \in {"serve", "unwind", "exit"}
        /\ wpc'[s] = "serve" => euid'[s] = RealUid
    BY <1>1, <1>4 DEF send_result, Goto, Returns, Dies, WorkerTypeOK, exit_user_mode
  <2> QED BY <2>1, <2>2 DEF Hears, Serving, Ended, Early
<1>5. CASE receive_fails(s)
  <2>1. /\ UNCHANGED <<c2s, info, request>> /\ wpc'[s] = "unwind"
    BY <1>1, <1>5 DEF receive_fails, WorkerHangup, Returns, sessionVars, messageVars,
                      tcpVars, WorkerTypeOK
  <2> QED BY <2>1 DEF Hears, Serving, Ended, Early
<1>6. CASE destroy(s)
  <2>1. /\ UNCHANGED <<c2s, info, request>> /\ wpc'[s] = "exit"
    BY <1>1, <1>6 DEF destroy, Goto, sessionVars, messageVars, tcpVars, WorkerTypeOK
  <2> QED BY <2>1 DEF Hears, Serving, Ended, Early
<1>7. CASE exit_process(s)
  <2>1. /\ UNCHANGED info /\ wpc'[s] = "zombie" /\ c2s'[s] = << >>
        /\ request'[s] = NoMessage
    BY <1>1, <1>7 DEF exit_process, WorkerCloses, Goto, sessionVars, Forget, TcpTypeOK,
                      WorkerTypeOK
  <2> QED BY <2>1 DEF Hears, Serving, Ended, Early
<1> QED BY <1>2, <1>3, <1>4, <1>5, <1>6, <1>7

\* A worker takes no message but the next one, and loses none before it ends,
\* at every stage of run().
LEMMA WorkerHears ==
    ASSUME NEW s \in Sessions, IInv, ClientsInv, ConversationInv, WorkerStep(s)
    PROVE  Hears(s)
BY LoginHears, LoopHears DEF WorkerStep

\* It touches no queue but its own, and no client's end.
LEMMA WorkerTouches ==
    ASSUME NEW s \in Sessions, IInv, WorkerMoves(s)
    PROVE  /\ UNCHANGED connectionVars /\ UNCHANGED cend /\ WorkerStep(s) /\ StepOK(s)
           /\ \A t \in Sessions \ {s} :
                 /\ SameAt(t) /\ c2s'[t] = c2s[t] /\ s2c'[t] = s2c[t]
                 /\ info'[t] = info[t] /\ wpc'[t] = wpc[t] /\ euid'[t] = euid[t]
                 /\ fdt'[t] = fdt[t] /\ descriptor_map'[t] = descriptor_map[t]
                 /\ userid'[t] = userid[t] /\ filesystem_prefix'[t] = filesystem_prefix[t]
                 /\ request'[t] = request[t] /\ response'[t] = response[t]
<1>1. /\ WorkerStep(s) /\ UNCHANGED connectionVars /\ StepOK(s) /\ UNCHANGED cend /\ TcpTypeOK
  BY WorkerStepOK, ServerKeepsEnds DEF WorkerMoves, IInv, ServerTypeOK
<1>2. \A t \in Sessions \ {s} : s2c'[t] = s2c[t]
  BY <1>1, WorkerSends DEF WorkerSend, TcpTypeOK
<1>3. UNCHANGED c2s \/ WorkerReceives(s) \/ WorkerCloses(s)
  <2>1. CASE handle_request(s)
    BY <2>1
       DEF handle_request, handle_request_open, handle_request_close,
           handle_request_read, handle_request_write, handle_request_lseek,
           handle_request_fstat, handle_request_unlink, handle_request_flock,
           flock_ends, handle_disconnect, reject_message, Answer, AnswerEBADF,
           Abandon, tcpVars
  <2>2. CASE \/ authenticate(s) \/ receive_request(s) \/ send_result(s)
             \/ receive_fails(s) \/ destroy(s) \/ exit_process(s)
    BY <2>2 DEF authenticate, ask_info, receive_info, select, send_verdict, SendThen,
                receive_request, send_result, receive_fails, destroy, exit_process,
                WorkerSend, WorkerHangup, tcpVars
  <2> QED BY <1>1, <2>1, <2>2 DEF WorkerStep
<1>4. \A t \in Sessions \ {s} : c2s'[t] = c2s[t]
  BY <1>1, <1>3 DEF WorkerReceives, WorkerCloses, TcpTypeOK
<1> QED BY <1>1, <1>2, <1>4 DEF StepOK, SameAt, KeepsFiles, KeepsLogin

\* A step of a worker keeps what relates clients to their sessions.
LEMMA WorkerKeepsClients ==
    ASSUME NEW s \in Sessions, IInv, ClientsInv, ConversationInv, ClientsView,
           WorkerMoves(s)
    PROVE  ClientsView'
<1>1. /\ UNCHANGED <<cpc, m_sockfd, m_access, args, owner, cend>> /\ Hears(s)
      /\ ConnectionTypeOK /\ TcpTypeOK /\ WorkerTypeOK /\ ExpectedAt(s)
      /\ \A t \in Sessions \ {s} :
            c2s'[t] = c2s[t] /\ info'[t] = info[t] /\ wpc'[t] = wpc[t]
  BY WorkerTouches, WorkerHears, TalkFacts DEF ClientsInv, connectionVars
<1> SUFFICES ASSUME NEW c \in Clients PROVE OwnAt(c)' /\ StageAt(c)' /\ CredentialsOf(c)'
  BY DEF ClientsView
<1>2. OwnAt(c) /\ StageAt(c) /\ CredentialsOf(c)
  BY DEF ClientsView
<1>3. OwnAt(c)'
  BY <1>1, <1>2 DEF OwnAt
<1>4. StageAt(c)'
  BY <1>1, <1>2 DEF StageAt, Hears, ConnectionTypeOK
<1>5. CASE m_sockfd[c] = s /\ cpc[c] \in {"login", "verdict"}
  <2>1. info[s] \in Seq(Strings) /\ c2s[s] \in Seq(MSG)
    BY <1>1 DEF WorkerTypeOK, TcpTypeOK
  <2>2. \A k \in 1..Len(info'[s]) : info'[s][k] = args[c][k]
    <3>1. CASE info'[s] = info[s]
      BY <1>2, <1>5, <3>1 DEF CredentialsOf
    <3>2. CASE /\ wpc[s] = "await" /\ c2s[s] # << >>
               /\ info'[s] = Append(info[s], Head(c2s[s]).text)
      <4>1. Head(c2s[s]).text = args[c][Len(info[s]) + 1] /\ Head(c2s[s]).text \in Strings
        BY <1>1, <1>2, <1>5, <3>2 DEF CredentialsOf, ExpectedAt
      <4>2. /\ Len(info'[s]) = Len(info[s]) + 1
            /\ \A k \in 1..Len(info[s]) : info'[s][k] = info[s][k]
            /\ info'[s][Len(info[s]) + 1] = Head(c2s[s]).text
        BY <2>1, <3>2, <4>1, AppendProperties
      <4> QED BY <1>2, <1>5, <2>1, <4>1, <4>2 DEF CredentialsOf
    <3> QED BY <1>1, <3>1, <3>2 DEF Hears
  <2>3. c2s'[s] # << >> /\ wpc'[s] = "await" =>
           Head(c2s'[s]).text = args[c][Len(info'[s]) + 1]
    BY <1>1, <1>2, <1>5 DEF Hears, CredentialsOf
  <2> QED BY <1>1, <1>2, <1>3, <1>4, <1>5, <2>2, <2>3 DEF CredentialsOf
<1>6. CASE m_sockfd[c] # s \/ cpc[c] \notin {"login", "verdict"}
  <2>1. cpc[c] \in {"login", "verdict"} => m_sockfd[c] \in Sessions \ {s}
    BY <1>1, <1>6 DEF ClientsInv, ClientInv, SocketOf, Waiting, ConnectionTypeOK
  <2> QED BY <1>1, <1>2, <1>3, <1>4, <2>1 DEF CredentialsOf
<1> QED BY <1>5, <1>6

-----------------------------------------------------------------------------
(* What a client does to the connections.                                  *)

\* A client sends to and receives from its own socket only, and closes only
\* sockets that it has opened.
Touches(c) ==
    /\ \A d \in Clients \ {c} : SameClient(d) /\ m_access'[d] = m_access[d]
    /\ \A t \in Sessions :
          /\ cend[t] # "unused" => owner'[t] = owner[t] /\ cend'[t] # "unused"
          /\ c2s'[t] # c2s[t] => cpc[c] \in Living /\ m_sockfd[c] = t /\ owner[t] = c
          /\ s2c'[t] # s2c[t] => owner[t] = c /\ s2c'[t] = << >>
          /\ cend'[t] # cend[t] => \/ cend[t] = "unused" /\ cend'[t] = "open"
                                   \/ owner[t] = c /\ s2c'[t] = << >>

\* That holds of every action of the library: connect, the two halves of a call, the
\* destructor, and the end of the process (NFSConnection.cpp).
LEMMA ClientTouchesOwn ==
    ASSUME NEW c \in Clients, IInv, ClientsInv, ConversationInv, ClientMoves(c)
    PROVE  Touches(c)
<1>1. /\ TcpTypeOK /\ ConnectionTypeOK /\ ClientInv(c)
      /\ \A d \in Clients \ {c} : SameClient(d)
  BY ClientTouches DEF IInv, ServerTypeOK, ClientsInv, ClientOK
<1>2. \A d \in Clients \ {c} : m_access'[d] = m_access[d]
  BY <1>1 DEF ClientMoves, Connects, connect, ClientStep, ClientProgress,
              send_credential, receive_verdict, end_call, connect_fails, begin_call,
              destroy_connection, crash, end_process, ConnectReturns, ConnectionTypeOK
<1>3. CASE Connects(c)
  <2>1. PICK s \in Sessions : /\ cend[s] = "unused" /\ cend' = [cend EXCEPT ![s] = "open"]
                              /\ owner' = [owner EXCEPT ![s] = c]
                              /\ UNCHANGED <<c2s, s2c>>
    BY <1>3 DEF Connects, connect
  <2> QED BY <1>1, <1>2, <2>1 DEF Touches, TcpTypeOK, ConnectionTypeOK
<1>4. CASE connect_fails(c) \/ crash(c)
  BY <1>1, <1>2, <1>4 DEF connect_fails, crash, tcpVars, Touches
<1>5. CASE end_process(c)
  <2>1. UNCHANGED <<c2s, owner>>
    BY <1>5 DEF end_process
  <2>2. \A t \in Sessions :
           IF owner[t] = c /\ cend[t] = "open"
           THEN cend'[t] = "closed" /\ s2c'[t] = << >>
           ELSE cend'[t] = cend[t] /\ s2c'[t] = s2c[t]
    BY <1>1, <1>5 DEF end_process, TcpTypeOK
  <2> QED BY <1>1, <1>2, <2>1, <2>2 DEF Touches
<1>6. ASSUME \/ send_credential(c) \/ receive_verdict(c) \/ end_call(c)
             \/ destroy_connection(c) \/ \E r \in Calls : begin_call(c, r)
      PROVE  Touches(c)
  <2>1. /\ UNCHANGED owner /\ cpc[c] \in Living
        /\ \/ UNCHANGED c2s
           \/ m_sockfd[c] # NoSock /\ \E m : ClientSends(m_sockfd[c], m)
        /\ \/ UNCHANGED <<s2c, cend>>
           \/ ClientReceives(m_sockfd[c]) /\ UNCHANGED cend
           \/ /\ m_sockfd[c] # NoSock
              /\ cend' = [cend EXCEPT ![m_sockfd[c]] = "closed"]
              /\ s2c' = [s2c EXCEPT ![m_sockfd[c]] = << >>]
        /\ cpc[c] = "idle" /\ m_sockfd[c] = NoSock => UNCHANGED <<c2s, s2c, cend>>
    <3>1. CASE send_credential(c)
      BY <1>1, <1>6, <3>1 DEF send_credential, ConnectReturns, Living, Waiting, ClientInv, SocketOf
    <3>2. CASE receive_verdict(c)
      BY <1>1, <1>6, <3>2 DEF receive_verdict, ConnectReturns, Living, Waiting
    <3>3. CASE end_call(c)
      BY <1>1, <1>6, <3>3 DEF end_call, CallFails, CallReturns, Living, Waiting
    <3>4. CASE destroy_connection(c)
      BY <1>1, <1>6, <3>4 DEF destroy_connection, Living, tcpVars
    <3>5. ASSUME NEW r \in Calls, begin_call(c, r)
          PROVE  /\ UNCHANGED owner /\ cpc[c] = "idle" /\ UNCHANGED <<s2c, cend>>
                 /\ \/ UNCHANGED c2s
                    \/ m_sockfd[c] # NoSock /\ \E m : ClientSends(m_sockfd[c], m)
                 /\ m_sockfd[c] = NoSock => UNCHANGED c2s
      BY <1>1, <3>5 DEF begin_call, CallFails, CallReturns
    <3> QED BY <1>6, <3>1, <3>2, <3>3, <3>4, <3>5 DEF Living
  <2>2. CASE cpc[c] = "idle" /\ m_sockfd[c] = NoSock
    BY <1>1, <1>2, <2>1, <2>2 DEF Touches
  <2>3. CASE cpc[c] # "idle" \/ m_sockfd[c] # NoSock
    <3>1. PICK s \in Sessions : /\ s = m_sockfd[c] /\ owner[s] = c /\ cend[s] = "open"
                                /\ OneAt(s)
      BY <2>1, <2>3, SocketFacts
    <3>2. \A t \in Sessions \ {s} : c2s'[t] = c2s[t]
      BY <1>1, <2>1, <3>1 DEF ClientSends, TcpTypeOK
    <3>3. /\ \A t \in Sessions \ {s} : s2c'[t] = s2c[t] /\ cend'[t] = cend[t]
          /\ s2c'[s] # s2c[s] => s2c'[s] = << >>
          /\ cend'[s] # cend[s] => s2c'[s] = << >>
          /\ cend'[s] # "unused"
      BY <1>1, <2>1, <3>1, ReceivedByClient DEF TcpTypeOK
    <3> QED BY <1>1, <1>2, <2>1, <3>1, <3>2, <3>3 DEF Touches
  <2> QED BY <2>2, <2>3
<1> QED BY <1>3, <1>4, <1>5, <1>6 DEF ClientMoves, ClientStep, ClientProgress

\* A step that a client does not take keeps what relates it to its session.
LEMMA OthersKeepClient ==
    ASSUME NEW c \in Clients, NEW d \in Clients, IInv, ClientsInv, Touches(c),
           UNCHANGED workerVars, OwnAt(d), StageAt(d), CredentialsOf(d), d # c
    PROVE  OwnAt(d)' /\ StageAt(d)' /\ CredentialsOf(d)'
<1>1. /\ cpc'[d] = cpc[d] /\ m_sockfd'[d] = m_sockfd[d] /\ args'[d] = args[d]
      /\ m_access'[d] = m_access[d] /\ UNCHANGED <<wpc, info>>
      /\ m_sockfd[d] \in Sessions \cup {NoSock}
  BY DEF Touches, SameClient, workerVars, ClientsInv, ConnectionTypeOK
<1>2. OwnAt(d)'
  BY <1>1 DEF OwnAt, Touches
<1>3. m_sockfd[d] # NoSock => c2s'[m_sockfd[d]] = c2s[m_sockfd[d]]
  BY <1>1 DEF OwnAt, Touches
<1>4. cpc[d] \in {"login", "verdict"} => m_sockfd[d] # NoSock
  BY DEF ClientsInv, ClientInv, SocketOf, Waiting
<1> QED BY <1>1, <1>2, <1>3, <1>4 DEF StageAt, CredentialsOf

\* An object that connects once starts afresh (connect).
LEMMA ConnectKeepsClient ==
    ASSUME NEW c \in Clients, ~Reconnects, IInv, ClientsInv, Connects(c),
           OwnAt(c), StageAt(c), UNCHANGED workerVars
    PROVE  OwnAt(c)' /\ StageAt(c)' /\ CredentialsOf(c)'
<1>1. PICK s \in Sessions, a \in ConnectArgs : connect(c, s, a)
  BY DEF Connects
<1>2. TcpTypeOK /\ ConnectionTypeOK /\ SessionInv(s) /\ UNCHANGED <<info, wpc>>
  BY DEF IInv, ServerTypeOK, ClientsInv, workerVars
<1>3. /\ m_sockfd'[c] = s /\ cpc'[c] = "login" /\ args'[c] = a /\ owner'[s] = c
      /\ cend'[s] = "open" /\ m_access'[c] = m_access[c] /\ m_sockfd[c] = NoSock
  BY <1>1, <1>2 DEF connect, ConnectionTypeOK, TcpTypeOK
<1>4. ~m_access[c]
  BY <1>3 DEF StageAt
<1>5. wpc[s] = "none" /\ info[s] = << >>
  BY <1>1, <1>2 DEF connect, SessionInv, SocketAt, LoginAt
<1> QED BY <1>2, <1>3, <1>4, <1>5 DEF OwnAt, StageAt, CredentialsOf

\* The credential that the worker waits for is sent (send_credential).
LEMMA CredentialKeepsClient ==
    ASSUME NEW c \in Clients, ~SignalsHandled, IInv, ClientsInv, ConversationInv,
           send_credential(c), StageAt(c), CredentialsOf(c), UNCHANGED workerVars
    PROVE  StageAt(c)' /\ CredentialsOf(c)'
<1>1. PICK s \in Sessions : /\ s = m_sockfd[c] /\ s # NoSock /\ TalkOf(c) /\ OneAt(s)
                            /\ TcpTypeOK /\ ConnectionTypeOK /\ cpc[c] = "login"
                            /\ UNCHANGED <<info, wpc>>
  BY SocketFacts DEF Living, Waiting, send_credential, workerVars
<1>2. /\ m_sockfd'[c] = s /\ ~m_access[c] /\ args[c] \in ConnectArgs
      /\ \A k \in 1..Len(info[s]) : info[s][k] = args[c][k]
  BY <1>1 DEF send_credential, ConnectReturns, CredentialsOf
<1>3. CASE \E result \in {"SERVER_NOT_RESPONDING", "INVALID_SERVER_REQUEST"} :
              ConnectReturns(c, result)
  <2>1. cpc'[c] = "idle" /\ ~m_access'[c]
    BY <1>1, <1>2, <1>3 DEF ConnectReturns, ConnectionTypeOK
  <2> QED BY <2>1 DEF StageAt, CredentialsOf
<1>4. CASE /\ UNCHANGED <<m_access, args>> /\ cpc'[c] # "call" /\ ClientReceives(s)
           /\ ClientSends(s, [code |-> ConnectInfoCode[step[c]],
                              text |-> args[c][step[c]]])
  <2>1. c2s[s] = << >> /\ s2c[s] # << >>
    BY <1>1, <1>4, ReceivedByClient
  <2>2. c2s'[s] # << >> => Head(c2s'[s]).text = args[c][step[c]]
    BY <1>1, <1>4, <2>1, SentToWorker
  <2>3. wpc[s] = "await" => step[c] = Len(info[s]) + 1
    BY <1>1, <2>1 DEF TalkOf, LoginTalk
  <2> QED BY <1>1, <1>2, <1>4, <2>2, <2>3 DEF StageAt, CredentialsOf
<1> QED BY <1>1, <1>3, <1>4 DEF send_credential, ConnectionTypeOK

\* A client gets access from a worker that serves it (receive_verdict).
LEMMA VerdictKeepsClient ==
    ASSUME NEW c \in Clients, IInv, ClientsInv, ConversationInv, SessionsView,
           receive_verdict(c), StageAt(c), UNCHANGED workerVars
    PROVE  StageAt(c)' /\ CredentialsOf(c)'
<1>1. PICK s \in Sessions : /\ s = m_sockfd[c] /\ s # NoSock /\ ConnectionTypeOK
                            /\ UNCHANGED <<info, wpc, m_sockfd>> /\ WireAt(s)
  BY SocketFacts DEF Living, Waiting, receive_verdict, workerVars, ConnectReturns,
                     SessionsView
<1>2. cpc'[c] = "idle"
  BY <1>1 DEF receive_verdict, ConnectReturns, ConnectionTypeOK
<1>3. m_access'[c] => m_access[c] \/ wpc[s] = "serve"
  BY <1>1 DEF receive_verdict, ConnectReturns, ConnectionTypeOK, ClientReceives, WireAt
<1> QED BY <1>1, <1>2, <1>3 DEF StageAt, CredentialsOf, Serving

\* A step of a client keeps what relates clients to their sessions.
LEMMA ClientKeepsClients ==
    ASSUME NEW c \in Clients, ~SignalsHandled, ~Reconnects, IInv, ClientsInv,
           ConversationInv, RemoteInv, ClientMoves(c)
    PROVE  ClientsView'
<1>1. /\ Touches(c) /\ UNCHANGED workerVars /\ ConnectionTypeOK
      /\ OwnAt(c) /\ StageAt(c) /\ CredentialsOf(c)
  BY ClientTouchesOwn DEF ClientMoves, ClientsInv, RemoteInv, ClientsView
<1>2. ASSUME NEW d \in Clients, d # c PROVE OwnAt(d)' /\ StageAt(d)' /\ CredentialsOf(d)'
  BY <1>1, <1>2, OthersKeepClient DEF RemoteInv, ClientsView
<1>3. CASE Connects(c)
  BY <1>1, <1>2, <1>3, ConnectKeepsClient DEF ClientsView
<1>4. CASE m_sockfd'[c] \in {m_sockfd[c], NoSock}
  <2>1. OwnAt(c)'
    BY <1>1, <1>4 DEF OwnAt, Touches, ConnectionTypeOK
  <2>2. CASE send_credential(c)
    BY <1>1, <1>2, <2>1, <2>2, CredentialKeepsClient DEF ClientsView
  <2>3. CASE receive_verdict(c)
    BY <1>1, <1>2, <2>1, <2>3, VerdictKeepsClient DEF ClientsView, RemoteInv
  <2>4. CASE /\ cpc'[c] \notin {"login", "verdict"} /\ UNCHANGED <<m_access, wpc>>
             /\ cpc'[c] = "call" => m_access[c]
             /\ m_sockfd'[c] = m_sockfd[c] \/ m_sockfd[c] = NoSock
    BY <1>1, <1>2, <2>1, <2>4 DEF ClientsView, StageAt, CredentialsOf
  <2>5. \/ send_credential(c) \/ receive_verdict(c) \/ Connects(c)
        \/ /\ cpc'[c] \notin {"login", "verdict"} /\ UNCHANGED <<m_access, wpc>>
           /\ cpc'[c] = "call" => m_access[c]
           /\ m_sockfd'[c] = m_sockfd[c] \/ m_sockfd[c] = NoSock
    BY <1>1 DEF ClientMoves, ClientStep, ClientProgress, connect_fails, begin_call,
                end_call, destroy_connection, crash, end_process, CallFails, CallReturns,
                HasAccess, ConnectionTypeOK, workerVars
  <2> QED BY <1>3, <2>2, <2>3, <2>4, <2>5
<1>5. Connects(c) \/ m_sockfd'[c] \in {m_sockfd[c], NoSock}
  BY <1>1 DEF ClientMoves, ClientStep, ClientProgress, send_credential, receive_verdict,
              connect_fails, begin_call, end_call, destroy_connection, crash,
              end_process, ConnectReturns, ConnectionTypeOK
<1> QED BY <1>3, <1>4, <1>5

-----------------------------------------------------------------------------
(* What the listener and the workers do to sessions.                       *)

\* No session changes for its client when another is accepted or refused
\* (listen_for_connections).
LEMMA ListenerKeepsRemote ==
    ASSUME IInv, ClientsInv, RemoteInv, ListenerStep, UNCHANGED connectionVars
    PROVE  RemoteInv'
<1>1. /\ UNCHANGED <<cpc, m_sockfd, m_access, args, owner, cend, s2c, info, euid>>
      /\ UNCHANGED <<request, response>> /\ TcpTypeOK /\ KernelTypeOK /\ WorkerTypeOK
  BY ServerKeepsEnds DEF IInv, ServerTypeOK, connectionVars, ListenerStep, accept_fails,
       accept_and_fork, fork_fails, WorkerCloses, kernelVars, workerVars, sessionVars,
       messageVars
<1>2. ASSUME NEW t \in Sessions
      PROVE  /\ c2s'[t] \in {c2s[t], << >>}
             /\ wpc'[t] = wpc[t] \/ (wpc[t] = "none" /\ wpc'[t] = "ask")
             /\ \A fd \in Fds : IsFile(t, fd)' => IsFile(t, fd)
  <2>1. CASE accept_fails
    BY <1>1, <2>1 DEF accept_fails, kernelVars, workerVars, IsFile
  <2>2. ASSUME NEW s \in Sessions, fork_fails(s)
        PROVE  /\ c2s'[t] \in {c2s[t], << >>} /\ UNCHANGED <<wpc, fdt>>
    BY <1>1, <2>2 DEF fork_fails, WorkerCloses, kernelVars, workerVars, TcpTypeOK
  <2>3. ASSUME NEW s \in Sessions, accept_and_fork(s)
        PROVE  /\ UNCHANGED c2s
               /\ wpc'[t] = wpc[t] \/ (wpc[t] = "none" /\ wpc'[t] = "ask")
               /\ \A fd \in Fds : IsFile(t, fd)' => IsFile(t, fd)
    <3>1. wpc[s] = "none" /\ wpc' = [wpc EXCEPT ![s] = "ask"] /\ UNCHANGED c2s
      BY <2>3 DEF accept_and_fork, Goto, IInv, SessionInv, SocketAt
    <3>2. fdt' = [fdt EXCEPT ![s] = BornTable]
      BY <2>3 DEF accept_and_fork
    <3>3. \A fd \in Fds : BornTable[fd].kind # "file"
      BY DEF BornTable, EmptySlot, FreeSlot
    <3> QED BY <1>1, <3>1, <3>2, <3>3 DEF IsFile, KernelTypeOK, WorkerTypeOK
  <2> QED BY <2>1, <2>2, <2>3 DEF ListenerStep, IsFile
<1>3. ASSUME NEW c \in Clients PROVE OwnAt(c)' /\ StageAt(c)' /\ CredentialsOf(c)'
  <2>1. OwnAt(c) /\ StageAt(c) /\ CredentialsOf(c)
    BY DEF RemoteInv, ClientsView
  <2>2. m_access[c] \/ cpc[c] \in Waiting => m_sockfd[c] \in Sessions
    BY <2>1 DEF StageAt, ClientsInv, ClientInv, SocketOf, ConnectionTypeOK
  <2> QED BY <1>1, <1>2, <2>1, <2>2 DEF OwnAt, StageAt, CredentialsOf, Serving, Ended, Waiting
<1>4. ASSUME NEW s \in Sessions PROVE WireAt(s)' /\ ServedAt(s)' /\ ServerModeAt(s)'
  <2>1. WireAt(s) /\ ServedAt(s) /\ ServerModeAt(s)
    BY DEF RemoteInv, SessionsView
  <2>2. WireAt(s)'
    BY <1>1, <1>2, <2>1 DEF WireAt
  <2>3. ServedAt(s)'
    BY <1>1, <1>2, <2>1 DEF ServedAt, Served
  <2>4. ServerModeAt(s)'
    BY <1>1, <1>2, <2>1 DEF ServerModeAt, Early
  <2> QED BY <2>2, <2>3, <2>4
<1> QED BY <1>3, <1>4 DEF RemoteInv, ClientsView, SessionsView

\* An answer with a value, or with -1 and nothing else (the ends of the handlers).
LEMMA AnswerIsProper ==
    ASSUME NEW s \in Sessions, WorkerTypeOK, NEW value, NEW errno, NEW data,
           Answer(s, value, errno, data),
           value >= 0 \/ (value = -1 /\ data = << >>),
           ResultCode(request[s].code) \in NoValue => value \in {0, -1}
    PROVE  Proper(response[s])'
<1>1. response'[s] = [code |-> ResultCode(request[s].code), value |-> value,
                      errno |-> errno, data |-> data]
  BY DEF Answer, WorkerTypeOK
<1> QED BY <1>1 DEF Proper

\* No handler returns a value that its function does not have (handle_requests).
LEMMA HandlersAreProper ==
    ASSUME NEW s \in Sessions, IInv, handle_request(s), MaxOffset <= IntMax,
           wpc'[s] = "reply"
    PROVE  Proper(response[s])'
<1>1. KernelTypeOK /\ WorkerTypeOK
  BY DEF IInv, ServerTypeOK
<1>2. ASSUME NEW errno, Answer(s, -1, errno, << >>) PROVE Proper(response[s])'
  BY <1>1, <1>2, AnswerIsProper
<1>3. ASSUME NEW errno, Answer(s, 0, errno, << >>) PROVE Proper(response[s])'
  BY <1>1, <1>3, AnswerIsProper
<1>4. CASE handle_request_open(s)
  <2>1. next_descriptor[s] \in Nat /\ Fds \subseteq Nat
    BY <1>1, KernelAssumption DEF WorkerTypeOK, Fds
  <2>2. ASSUME NEW value \in Nat, NEW errno, Answer(s, value, errno, << >>)
        PROVE  Proper(response[s])'
    <3>1. ResultCode(request[s].code) = "RESULT_OPEN"
      BY <1>4 DEF handle_request_open, Handles, ResultCode
    <3> QED BY <1>1, <2>2, <3>1, AnswerIsProper DEF NoValue
  <2> QED BY <1>1, <1>2, <1>4, <2>1, <2>2 DEF handle_request_open, Abandon, Returns, WorkerTypeOK
<1>5. CASE handle_request_close(s)
  BY <1>2, <1>3, <1>5 DEF handle_request_close, AnswerEBADF
<1>6. CASE handle_request_read(s)
  <2>1. /\ Readable(s)
        /\ Answer(s, Len(ReadData(s, Target(s), request[s].size)), "0",
                  ReadData(s, Target(s), request[s].size))
    BY <1>1, <1>6 DEF handle_request_read, Dies, WorkerTypeOK
  <2>2. request[s].size \in Nat /\ ResultCode(request[s].code) = "RESULT_READ"
    BY <1>6, HandlerFacts, MessageFields DEF handle_request_read, ResultCode, Handles
  <2>3. ReadData(s, Target(s), request[s].size) \in Seq(Nat)
    BY <1>1, <2>1, <2>2, TargetType, ReadDataType DEF Readable
  <2>4. Len(ReadData(s, Target(s), request[s].size)) >= 0
    BY <2>3, LenProperties
  <2> QED BY <1>1, <2>1, <2>2, <2>4, AnswerIsProper DEF NoValue
<1>7. CASE handle_request_write(s)
  <2> DEFINE n == WriteCount(s, Target(s), request[s].data)
  <2>1. ASSUME Usable(s, {"WR"}), Answer(s, n, "0", << >>),
               SysWrite(s, Target(s), request[s].data)
        PROVE  Proper(response[s])'
    <3>1. request[s].data \in Seq(Nat) /\ ResultCode(request[s].code) = "RESULT_WRITE"
      BY <1>7, HandlerFacts, MessageFields DEF handle_request_write, ResultCode, Handles
    <3>2. n \in 0..Len(request[s].data)
      BY <1>1, <2>1, <3>1, TargetType, SysWriteType
    <3>3. n >= 0
      BY <3>2
    <3> QED BY <1>1, <2>1, <3>1, <3>3, AnswerIsProper DEF NoValue
  <2> QED BY <1>2, <1>7, <2>1 DEF handle_request_write, AnswerEBADF
<1>8. CASE handle_request_lseek(s)
  <2>1. ASSUME NEW pos \in 0..MaxOffset, NEW errno, Answer(s, ToInt(pos), errno, << >>)
        PROVE  Proper(response[s])'
    <3>1. pos \in Nat /\ pos <= IntMax
      BY KernelAssumption, MessagesAssumption
    <3>2. ToInt(pos) >= 0
      BY <3>1, ToIntFits
    <3>3. ResultCode(request[s].code) = "RESULT_LSEEK"
      BY <1>8 DEF handle_request_lseek, ResultCode, Handles
    <3> QED BY <1>1, <2>1, <3>2, <3>3, AnswerIsProper DEF NoValue
  <2> QED BY <1>2, <1>8, <2>1 DEF handle_request_lseek, AnswerEBADF
<1>9. CASE handle_request_fstat(s)
  <2>1. ASSUME NEW data, Answer(s, 0, "0", data) PROVE Proper(response[s])'
    BY <1>1, <2>1, AnswerIsProper
  <2> QED BY <1>2, <1>9, <2>1 DEF handle_request_fstat, AnswerEBADF
<1>10. CASE handle_request_unlink(s)
  BY <1>1, <1>2, <1>3, <1>10 DEF handle_request_unlink, Abandon, Returns, WorkerTypeOK
<1>11. CASE handle_request_flock(s)
  BY <1>1, <1>2, <1>3, <1>11 DEF handle_request_flock, AnswerEBADF, Goto, WorkerTypeOK
<1>12. CASE flock_ends(s)
  BY <1>2, <1>3, <1>12 DEF flock_ends
<1>13. CASE handle_disconnect(s) \/ reject_message(s)
  BY <1>1, <1>13 DEF handle_disconnect, reject_message, Abandon, Returns, WorkerTypeOK
<1> QED BY <1>4, <1>5, <1>6, <1>7, <1>8, <1>9, <1>10, <1>11, <1>12, <1>13
        DEF handle_request

\* What a worker puts on the wire is an answer with a proper value, or the verdict
\* that it acts upon (send_verdict, send_result).
LEMMA WorkerKeepsWire ==
    ASSUME NEW s \in Sessions, IInv, ClientsInv, ConversationInv, WireAt(s),
           MaxOffset <= IntMax, WorkerMoves(s)
    PROVE  WireAt(s)'
<1>1. /\ WorkerStep(s) /\ UNCHANGED cend /\ TcpTypeOK /\ WorkerTypeOK /\ OneAt(s)
      /\ SessionInv(s)
  BY WorkerTouches, TalkFacts
<1>2. wpc'[s] = "reply" => Proper(response[s])'
  BY <1>1, WorkerReaches, HandlersAreProper
<1>3. cend[s] # "unused"
  BY <1>1, EndsForGood DEF SessionInv, SocketAt
<1>4. ASSUME NEW m, NEW outcome, WorkerSend(s, m, outcome), s2c[s] = << >>, Proper(m),
             m.code = "AUTHORIZATION_OK" /\ outcome = "sent" => wpc'[s] = "serve"
      PROVE  WireAt(s)'
  <2>1. s2c'[s] # << >> => Head(s2c'[s]) = m /\ cend[s] = "open" /\ outcome = "sent"
    <3>1. cend[s] = "closed" => s2c'[s] = << >>
      BY <1>1, <1>4 DEF WorkerSend, Sent, TcpTypeOK
    <3>2. cend[s] \in {"open", "closed"}
      BY <1>1, <1>3 DEF TcpTypeOK
    <3> QED BY <1>1, <1>4, <3>1, <3>2, SentAlone
  <2> QED BY <1>1, <1>2, <1>4, <2>1 DEF WireAt, Proper
<1>5. CASE ask_info(s)
  <2>1. PICK outcome : WorkerSend(s, Bare(ProvideCode[Len(info[s]) + 1]), outcome)
    BY <1>5 DEF ask_info, SendThen
  <2>2. Len(info[s]) \in 0..2
    BY <1>1, <1>5 DEF ask_info, SessionInv, LoginAt
  <2>3. \A n \in 0..2 : LET q == Bare(ProvideCode[n + 1])
                        IN  Proper(q) /\ q.code # "AUTHORIZATION_OK"
    BY DEF Bare, ProvideCode, Proper, ResultCode, RequestCodes
  <2>4. s2c[s] = << >>
    BY <1>1, <1>5 DEF ask_info, OneAt, Working, Quiet
  <2> QED BY <1>4, <2>1, <2>2, <2>3, <2>4
<1>6. CASE send_verdict(s)
  <2> DEFINE m == Bare(IF authenticated[s] THEN "AUTHORIZATION_OK" ELSE "AUTHORIZATION_FAILED")
  <2>1. PICK outcome :
          /\ WorkerSend(s, m, outcome)
          /\ m.code = "AUTHORIZATION_OK" /\ outcome = "sent" => wpc'[s] = "serve"
    BY <1>1, <1>6 DEF send_verdict, Bare, Goto, Returns, Dies, WorkerTypeOK
  <2>2. Proper(m)
    BY DEF Bare, Proper, ResultCode, RequestCodes
  <2>3. s2c[s] = << >>
    BY <1>1, <1>6 DEF send_verdict, OneAt, Working, Quiet
  <2> QED BY <1>4, <2>1, <2>2, <2>3
<1>7. CASE send_result(s)
  <2>1. PICK outcome : WorkerSend(s, response[s], outcome)
    BY <1>7 DEF send_result
  <2>2. wpc[s] = "reply" /\ response[s].code # "AUTHORIZATION_OK" /\ Proper(response[s])
    BY <1>1, <1>7 DEF send_result, SessionInv, MessagesAt, Result, WireAt
  <2>3. s2c[s] = << >>
    BY <1>1, <2>2 DEF OneAt, Working, Quiet
  <2> QED BY <1>4, <2>1, <2>2, <2>3
<1>8. CASE UNCHANGED s2c
  <2>1. CASE s2c[s] # << >>
    <3>1. wpc[s] # "serve"
      BY <1>1, <1>8, <2>1
         DEF WorkerStep, authenticate, ask_info, receive_info, select, send_verdict,
             receive_request, handle_request, handle_request_open, handle_request_close,
             handle_request_read, handle_request_write, handle_request_lseek,
             handle_request_fstat, handle_request_unlink, handle_request_flock,
             flock_ends, handle_disconnect, reject_message, Handles, send_result,
             receive_fails, destroy, exit_process, WorkerReceives, WorkerHangup, OneAt,
             WireAt
    <3> QED BY <1>1, <1>2, <1>8, <3>1 DEF WireAt, Proper
  <2>2. CASE s2c[s] = << >>
    BY <1>2, <1>8, <2>2 DEF WireAt
  <2> QED BY <2>1, <2>2
<1>9. UNCHANGED s2c \/ ask_info(s) \/ send_verdict(s) \/ send_result(s)
  <2>1. CASE handle_request(s)
    BY <1>1, <2>1, HandlersTalk DEF HandlerStep, tcpVars, TurnAt, ConversationInv
  <2>2. CASE \/ receive_info(s) \/ select(s) \/ receive_request(s)
             \/ receive_fails(s) \/ destroy(s) \/ exit_process(s)
    BY <2>2 DEF receive_info, select, receive_request, receive_fails, destroy,
                exit_process, WorkerReceives, WorkerHangup, WorkerCloses, tcpVars
  <2> QED BY <1>1, <2>1, <2>2 DEF WorkerStep, authenticate
<1> QED BY <1>5, <1>6, <1>7, <1>8, <1>9

\* It opens files and works on requests for a client with access only.
LEMMA WorkerKeepsServed ==
    ASSUME NEW s \in Sessions, IInv, ClientsInv, ConversationInv, ServedAt(s),
           ServerModeAt(s), WorkerMoves(s)
    PROVE  ServedAt(s)' /\ ServerModeAt(s)'
<1>1. /\ WorkerStep(s) /\ UNCHANGED connectionVars /\ Hears(s) /\ FileEffect(s)
  BY WorkerTouches, WorkerHears, WorkerFileEffect
<1>2. Served(s)' <=> Served(s)
  BY <1>1 DEF Served, connectionVars
<1>3. ASSUME NEW fd \in Fds, IsFile(s, fd)' PROVE Served(s)
  <2>1. CASE IsFile(s, fd)
    BY <2>1 DEF ServedAt
  <2>2. CASE ~IsFile(s, fd)
    <3>1. AddsFile(s)
      BY <1>1, <1>3, <2>2 DEF FileEffect, KeepsFiles, RemovesFile, DropsMap, IsFile
    <3>2. wpc[s] = "handle" /\ fdt'[s][fd] # fdt[s][fd]
      BY <1>3, <2>2, <3>1 DEF AddsFile, IsFile
    <3>3. handle_request(s)
      BY <1>1, <3>2 DEF WorkerStep, authenticate, ask_info, receive_info, select,
           send_verdict, receive_request, send_result, receive_fails, destroy, exit_process
    <3>4. request[s].code \in RequestCodes
      BY <3>2, <3>3
         DEF handle_request, handle_request_open, handle_request_close,
             handle_request_read, handle_request_write, handle_request_lseek,
             handle_request_fstat, handle_request_unlink, handle_request_flock,
             flock_ends, handle_disconnect, reject_message, Handles, Abandon, RequestCodes
    <3> QED BY <3>4 DEF ServedAt
  <2> QED BY <2>1, <2>2
<1>4. ServedAt(s)'
  BY <1>1, <1>2, <1>3 DEF ServedAt, Hears, NoMessage, RequestCodes
<1>5. ServerModeAt(s)'
  BY <1>1 DEF ServerModeAt, Hears
<1> QED BY <1>4, <1>5

\* A step of a worker keeps what clients rely on in their sessions.
LEMMA WorkerKeepsSessions ==
    ASSUME NEW s \in Sessions, IInv, ClientsInv, ConversationInv, SessionsView,
           MaxOffset <= IntMax, WorkerMoves(s)
    PROVE  SessionsView'
<1>1. /\ UNCHANGED connectionVars /\ UNCHANGED cend
      /\ \A t \in Sessions \ {s} :
            /\ c2s'[t] = c2s[t] /\ s2c'[t] = s2c[t] /\ wpc'[t] = wpc[t]
            /\ euid'[t] = euid[t] /\ fdt'[t] = fdt[t] /\ request'[t] = request[t]
            /\ response'[t] = response[t]
  BY WorkerTouches
<1>2. ASSUME NEW t \in Sessions \ {s} PROVE WireAt(t)' /\ ServedAt(t)' /\ ServerModeAt(t)'
  <2>1. WireAt(t) /\ ServedAt(t) /\ ServerModeAt(t)
    BY DEF SessionsView
  <2>2. Served(t)' <=> Served(t)
    BY <1>1 DEF Served, connectionVars
  <2> QED BY <1>1, <1>2, <2>1, <2>2 DEF WireAt, Proper, ServedAt, ServerModeAt, IsFile
<1>3. WireAt(s)' /\ ServedAt(s)' /\ ServerModeAt(s)'
  BY WorkerKeepsWire, WorkerKeepsServed DEF SessionsView
<1> QED BY <1>2, <1>3 DEF SessionsView

-----------------------------------------------------------------------------
(* What a client does to sessions.                                         *)

\* Access is not taken back, and stays with the session it was given in.
LEMMA AccessStays ==
    ASSUME NEW c \in Clients, ~Reconnects, ClientsInv, StageAt(c), ClientMoves(c),
           m_access[c]
    PROVE  m_access'[c] /\ m_sockfd'[c] = m_sockfd[c]
BY DEF ClientMoves, Connects, connect, ClientStep, ClientProgress, send_credential,
       receive_verdict, end_call, connect_fails, begin_call, destroy_connection, crash,
       end_process, ConnectReturns, ClientsInv, ConnectionTypeOK, StageAt

\* Only a client with access sends requests (begin_call).
LEMMA RequestsNeedAccess ==
    ASSUME NEW c \in Clients, NEW s \in Sessions, IInv, ClientsInv, ConversationInv,
           Touches(c), ClientMoves(c), c2s'[s] # c2s[s], c2s'[s] # << >>,
           Head(c2s'[s]).code \in RequestCodes
    PROVE  m_access[c] /\ m_sockfd[c] = s
<1>1. /\ m_sockfd[c] = s /\ cpc[c] \in Living /\ OneAt(s) /\ TcpTypeOK /\ s # NoSock
      /\ TalkOf(c) /\ ClientInv(c)
  BY TalkFacts DEF Touches, ClientsInv
<1>2. CASE send_credential(c)
  <2>1. /\ ClientReceives(s) /\ step[c] \in 1..3
        /\ ClientSends(s, [code |-> ConnectInfoCode[step[c]], text |-> args[c][step[c]]])
    BY <1>1, <1>2 DEF send_credential, ClientInv, ArgumentsOf
  <2>2. Head(c2s'[s]).code = ConnectInfoCode[step[c]]
    BY <1>1, <2>1, ReceivedByClient, SentToWorker
  <2>3. \A k \in 1..3 : ConnectInfoCode[k] \notin RequestCodes
    BY DEF ConnectInfoCode, RequestCodes
  <2> QED BY <2>1, <2>2, <2>3
<1>3. CASE destroy_connection(c)
  <2>1. c2s[s] = << >> /\ ClientSends(s, Bare("DISCONNECT"))
    BY <1>1, <1>3 DEF destroy_connection, TalkOf, IdleTalk, Quiet
  <2>2. Head(c2s'[s]).code = "DISCONNECT"
    BY <1>1, <2>1, SentToWorker DEF Bare
  <2> QED BY <2>2 DEF RequestCodes
<1>4. ASSUME NEW r \in Calls, begin_call(c, r) PROVE m_access[c]
  BY <1>4 DEF begin_call, HasAccess
<1>5. \/ send_credential(c) \/ destroy_connection(c) \/ \E r \in Calls : begin_call(c, r)
  BY DEF ClientMoves, Connects, connect, ClientStep, ClientProgress, receive_verdict,
         end_call, connect_fails, crash, end_process, tcpVars
<1> QED BY <1>1, <1>2, <1>3, <1>4, <1>5

\* A step of a client keeps what clients rely on in their sessions.
LEMMA ClientKeepsSessions ==
    ASSUME NEW c \in Clients, ~Reconnects, IInv, ClientsInv, ConversationInv, RemoteInv,
           ClientMoves(c)
    PROVE  SessionsView'
<1>1. /\ Touches(c) /\ UNCHANGED <<workerVars, kernelVars>> /\ StageAt(c)
  BY ClientTouchesOwn DEF ClientMoves, RemoteInv, ClientsView
<1>2. ASSUME NEW s \in Sessions, Served(s) PROVE Served(s)'
  <2>1. PICK d \in Clients : m_access[d] /\ m_sockfd[d] = s
    BY <1>2 DEF Served
  <2>2. m_access'[d] /\ m_sockfd'[d] = s
    BY <1>1, <2>1, AccessStays DEF Touches, SameClient
  <2> QED BY <2>2 DEF Served
<1>3. ASSUME NEW s \in Sessions PROVE WireAt(s)' /\ ServedAt(s)' /\ ServerModeAt(s)'
  <2>1. WireAt(s) /\ ServedAt(s) /\ ServerModeAt(s)
    BY DEF RemoteInv, SessionsView
  <2>2. WireAt(s)'
    BY <1>1, <2>1 DEF WireAt, Proper, Touches, workerVars, messageVars
  <2>3. c2s'[s] # << >> /\ Head(c2s'[s]).code \in RequestCodes => Served(s)'
    <3>1. CASE c2s'[s] = c2s[s]
      BY <1>2, <2>1, <3>1 DEF ServedAt
    <3>2. CASE c2s'[s] # c2s[s]
      BY <1>1, <1>2, <3>2, RequestsNeedAccess DEF Served
    <3> QED BY <3>1, <3>2
  <2>4. ServedAt(s)'
    BY <1>1, <1>2, <2>1, <2>3 DEF ServedAt, workerVars, messageVars, kernelVars, IsFile
  <2>5. ServerModeAt(s)'
    BY <1>1, <2>1 DEF ServerModeAt, workerVars, kernelVars
  <2> QED BY <2>2, <2>4, <2>5
<1> QED BY <1>3 DEF SessionsView

-----------------------------------------------------------------------------
(* The invariant that the mapping rests on, with those it needs itself.    *)

MappingInv == SystemInv /\ ConversationInv /\ RemoteInv

\* Every step of the workers, the listener and the clients keeps the part that is new.
LEMMA StepsKeepRemote ==
    ASSUME ~SignalsHandled, ~Reconnects, MaxOffset <= IntMax, MappingInv, [Next]_vars
    PROVE  RemoteInv'
<1>1. IInv /\ ClientsInv /\ ConversationInv /\ RemoteInv
  BY DEF MappingInv, SystemInv
<1>2. ASSUME NEW s \in Sessions, WorkerMoves(s) PROVE RemoteInv'
  BY <1>1, <1>2, WorkerKeepsClients, WorkerKeepsSessions DEF RemoteInv
<1>3. ASSUME NEW c \in Clients, ClientMoves(c) PROVE RemoteInv'
  BY <1>1, <1>3, ClientKeepsClients, ClientKeepsSessions DEF RemoteInv
<1>4. CASE UNCHANGED vars
  BY <1>1, <1>4
     DEF RemoteInv, ClientsView, SessionsView, OwnAt, StageAt, CredentialsOf, WireAt,
         Proper, ServedAt, Served, ServerModeAt, IsFile, vars, serverVars, tcpVars,
         kernelVars, workerVars, connectionVars
<1> QED BY <1>1, <1>2, <1>3, <1>4, ListenerKeepsRemote DEF Next

\* It holds in every reachable state, on objects that connect once and where no
\* signal handler interrupts recv.
LEMMA MappingInvHolds ==
    ASSUME ~SignalsHandled, ~Reconnects, MaxOffset <= IntMax
    PROVE  Spec => []MappingInv
<1>1. Init => RemoteInv
  BY DEF Init, ServerInit, TcpInit, KernelInit, WorkerInit, ConnectionInit, RemoteInv,
         ClientsView, SessionsView, OwnAt, StageAt, CredentialsOf, WireAt, ServedAt,
         ServerModeAt, IsFile, NoTable, FreeSlot, EmptySlot, NoMessage, RequestCodes
<1>2. SystemInv /\ ConversationInv /\ RemoteInv /\ [Next]_vars => RemoteInv'
  BY StepsKeepRemote DEF MappingInv
<1> QED BY <1>1, <1>2, SystemInvHolds, ConversationHolds, PTL DEF Spec, MappingInv

-----------------------------------------------------------------------------
(* What a step changes of what RemoteFiles.tla knows of a client.          *)

\* A client with access sees of its session what the worker has of it ...
SameSession(s) ==
    /\ fdt'[s] = fdt[s] /\ descriptor_map'[s] = descriptor_map[s]
    /\ userid'[s] = userid[s] /\ filesystem_prefix'[s] = filesystem_prefix[s]
    /\ wpc'[s] = wpc[s] /\ request'[s] = request[s] /\ response'[s] = response[s]
    /\ c2s'[s] = c2s[s] /\ s2c'[s] = s2c[s]

\* ... and RemoteFiles.tla, from the worker's side, that.
SameView(d) ==
    /\ RemoteTable(d)' = RemoteTable(d) /\ RemoteSession(d)' = RemoteSession(d)
    /\ RemoteJob(d)' = RemoteJob(d)
    /\ RemoteUsers'[d] = RemoteUsers[d] /\ RemoteRoots'[d] = RemoteRoots[d]

\* Nothing changes for a client whose session stays as it is.
LEMMA ViewKept ==
    ASSUME NEW d \in Clients, m_access'[d] = m_access[d], m_sockfd'[d] = m_sockfd[d],
           m_access[d] => SameSession(m_sockfd[d])
    PROVE  SameView(d)
<1>1. RemoteSession(d)' = RemoteSession(d)
  BY DEF RemoteSession, Sock, SameSession
<1>2. RemoteTable(d)' = RemoteTable(d)
  <2>1. CASE m_access[d]
    BY <2>1 DEF RemoteTable, Sock, SameSession, is_descriptor_in_map,
                get_descriptor_from_map
  <2>2. CASE ~m_access[d]
    BY <2>2 DEF RemoteTable
  <2> QED BY <2>1, <2>2
<1>3. RemoteJob(d)' = RemoteJob(d)
  <2>1. CASE RemoteSession(d) = "on"
    <3>1. m_access[d] /\ SameSession(m_sockfd[d])
      BY <2>1 DEF RemoteSession
    <3>2. JobAt(m_sockfd[d])' = JobAt(m_sockfd[d])
      BY <3>1 DEF JobAt, SameSession
    <3> QED BY <1>1, <2>1, <3>2 DEF RemoteJob, Sock
  <2>2. CASE RemoteSession(d) # "on"
    BY <1>1, <2>2 DEF RemoteJob
  <2> QED BY <2>1, <2>2
<1>4. RemoteUsers'[d] = RemoteUsers[d] /\ RemoteRoots'[d] = RemoteRoots[d]
  BY DEF RemoteUsers, RemoteRoots, Sock, SameSession
<1> QED BY <1>1, <1>2, <1>3, <1>4 DEF SameView

\* Nor, without access, as long as access is not given.
LEMMA NoView ==
    ASSUME NEW d \in Clients, ~m_access[d], ~m_access'[d]
    PROVE  SameView(d)
BY DEF SameView, RemoteTable, RemoteSession, RemoteJob, RemoteUsers, RemoteRoots

\* When all of that is so for all clients but one, the step is about that one.
LEMMA OneView ==
    ASSUME NEW c \in Clients, \A d \in Clients \ {c} : SameView(d)
    PROVE  /\ RemoteTables' = [RemoteTables EXCEPT ![c] = RemoteTable(c)']
           /\ RemoteSessions' = [RemoteSessions EXCEPT ![c] = RemoteSession(c)']
           /\ RemoteJobs' = [RemoteJobs EXCEPT ![c] = RemoteJob(c)']
           /\ RemoteUsers' = [RemoteUsers EXCEPT ![c] = RemoteUsers'[c]]
           /\ RemoteRoots' = [RemoteRoots EXCEPT ![c] = RemoteRoots'[c]]
BY DEF SameView, RemoteTables, RemoteSessions, RemoteJobs, RemoteUsers, RemoteRoots

\* When it is so for all of them, it is not about any.
LEMMA NoneViewed ==
    ASSUME \A d \in Clients : SameView(d)
    PROVE  UNCHANGED <<RemoteTables, RemoteUsers, RemoteRoots, RemoteSessions, RemoteJobs>>
BY DEF SameView, RemoteTables, RemoteSessions, RemoteJobs, RemoteUsers, RemoteRoots

\* Where the one keeps its session and its user, only its table and job may change.
LEMMA SessionStays ==
    ASSUME NEW c \in Clients, \A d \in Clients \ {c} : SameView(d),
           RemoteSession(c)' = RemoteSession(c), RemoteUsers'[c] = RemoteUsers[c],
           RemoteRoots'[c] = RemoteRoots[c]
    PROVE  /\ UNCHANGED <<RemoteSessions, RemoteUsers, RemoteRoots>>
           /\ RemoteTables' = [RemoteTables EXCEPT ![c] = RemoteTable(c)']
           /\ RemoteJobs' = [RemoteJobs EXCEPT ![c] = RemoteJob(c)']
           /\ RemoteTable(c)' = RemoteTable(c) => UNCHANGED RemoteTables
           /\ RemoteJob(c)' = RemoteJob(c) => UNCHANGED RemoteJobs
<1>1. /\ RemoteSessions = [d \in Clients |-> RemoteSessions[d]]
      /\ RemoteTables = [d \in Clients |-> RemoteTables[d]]
      /\ RemoteUsers = [d \in Clients |-> RemoteUsers[d]]
      /\ RemoteRoots = [d \in Clients |-> RemoteRoots[d]]
      /\ RemoteJobs = [d \in Clients |-> RemoteJobs[d]]
      /\ RemoteTables[c] = RemoteTable(c) /\ RemoteSessions[c] = RemoteSession(c)
      /\ RemoteJobs[c] = RemoteJob(c)
  BY DEF RemoteSessions, RemoteTables, RemoteUsers, RemoteRoots, RemoteJobs
<1>2. \A f : f = [d \in Clients |-> f[d]] => f = [f EXCEPT ![c] = f[c]]
  OBVIOUS
<1>3. /\ RemoteSessions' = [RemoteSessions EXCEPT ![c] = RemoteSessions[c]]
      /\ RemoteUsers' = [RemoteUsers EXCEPT ![c] = RemoteUsers[c]]
      /\ RemoteRoots' = [RemoteRoots EXCEPT ![c] = RemoteRoots[c]]
      /\ RemoteTables' = [RemoteTables EXCEPT ![c] = RemoteTable(c)']
      /\ RemoteJobs' = [RemoteJobs EXCEPT ![c] = RemoteJob(c)']
  BY <1>1, OneView
<1> QED BY <1>1, <1>2, <1>3

\* The application's side of a client that does not move.
LEMMA CallsKept ==
    ASSUME NEW c \in Clients, \A d \in Clients \ {c} : SameClient(d) /\ ret'[d] = ret[d]
    PROVE  /\ RemoteCalls' = [RemoteCalls EXCEPT ![c] = RemoteCalls'[c]]
           /\ RemoteReturns' = [RemoteReturns EXCEPT ![c] = RemoteReturns'[c]]
           /\ \A d \in Clients \ {c} : RemoteEnds'[d] <=> RemoteEnds[d]
<1>1. \A d \in Clients \ {c} : HasLeft(d)' <=> HasLeft(d)
  BY DEF HasLeft, SameClient
<1> QED BY <1>1 DEF RemoteCalls, RemoteReturns, RemoteEnds, SameClient

\* Whether a client has left, as a value of the function that says so.
LEMMA LeftAs ==
    ASSUME NEW c \in Clients, NEW b \in BOOLEAN, HasLeft(c)' <=> b,
           \A d \in Clients \ {c} : RemoteEnds'[d] <=> RemoteEnds[d]
    PROVE  RemoteEnds' = [RemoteEnds EXCEPT ![c] = b]
<1>1. \A d \in Clients : HasLeft(d) \in BOOLEAN /\ HasLeft(d)' \in BOOLEAN
  BY DEF HasLeft
<1>2. \A d \in Clients \ {c} : HasLeft(d)' = HasLeft(d)
  BY <1>1 DEF RemoteEnds
<1>3. HasLeft(c)' = b
  BY <1>1
<1> QED BY <1>2, <1>3, Zenon DEF RemoteEnds

-----------------------------------------------------------------------------
(* The steps of a client are its steps in RemoteFiles.tla.                 *)

\* What a step of client c is, there.
Simulated(c) == Remote!ClientActs(c) \/ Remote!SystemActs(c) \/ UNCHANGED Remote!remoteVars

\* It concerns no other client.
LEMMA ClientViews ==
    ASSUME NEW c \in Clients, MappingInv, ClientMoves(c)
    PROVE  /\ \A d \in Clients \ {c} : SameView(d)
           /\ \A d \in Clients \ {c} : RemoteEnds'[d] <=> RemoteEnds[d]
           /\ RemoteCalls' = [RemoteCalls EXCEPT ![c] = RemoteCalls'[c]]
           /\ RemoteReturns' = [RemoteReturns EXCEPT ![c] = RemoteReturns'[c]]
           /\ UNCHANGED <<workerVars, kernelVars>> /\ Touches(c)
           /\ TcpTypeOK /\ ConnectionTypeOK
<1>1. /\ Touches(c) /\ UNCHANGED <<workerVars, kernelVars>> /\ TcpTypeOK /\ ConnectionTypeOK
      /\ \A d \in Clients \ {c} : ret'[d] = ret[d] /\ SameClient(d)
  BY ClientTouchesOwn, ClientTouches
     DEF MappingInv, SystemInv, ClientMoves, IInv, ServerTypeOK, ClientsInv, ClientOK
<1>2. ASSUME NEW d \in Clients \ {c} PROVE SameView(d)
  <2>1. m_access'[d] = m_access[d] /\ m_sockfd'[d] = m_sockfd[d]
    BY <1>1 DEF Touches, SameClient
  <2>2. CASE m_access[d]
    <3>1. PICK s \in Sessions : s = m_sockfd[d] /\ owner[s] # c
      BY <1>1, <2>2 DEF MappingInv, RemoteInv, ClientsView, OwnAt, StageAt, ConnectionTypeOK
    <3>2. SameSession(s)
      BY <1>1, <3>1 DEF SameSession, Touches, workerVars, kernelVars, sessionVars, mapVars,
                        messageVars
    <3> QED BY <2>1, <3>1, <3>2, ViewKept
  <2>3. CASE ~m_access[d]
    BY <2>1, <2>3, NoView
  <2> QED BY <2>2, <2>3
<1>3. /\ RemoteCalls' = [RemoteCalls EXCEPT ![c] = RemoteCalls'[c]]
      /\ RemoteReturns' = [RemoteReturns EXCEPT ![c] = RemoteReturns'[c]]
      /\ \A d \in Clients \ {c} : RemoteEnds'[d] <=> RemoteEnds[d]
  BY <1>1, CallsKept
<1> QED BY <1>1, <1>2, <1>3

\* A client that does not leave.
LEMMA Stays ==
    ASSUME NEW c \in Clients, ~HasLeft(c), ~HasLeft(c)',
           \A d \in Clients \ {c} : RemoteEnds'[d] <=> RemoteEnds[d]
    PROVE  UNCHANGED RemoteEnds /\ ~RemoteEnds[c]
<1>1. \A d \in Clients : HasLeft(d) \in BOOLEAN /\ HasLeft(d)' \in BOOLEAN
  BY DEF HasLeft
<1>2. \A d \in Clients : HasLeft(d)' = HasLeft(d)
  BY <1>1 DEF RemoteEnds
<1>3. UNCHANGED RemoteEnds
  BY <1>2, Zenon DEF RemoteEnds
<1> QED BY <1>3 DEF RemoteEnds

\* Where its value at the one that moves is kept, a function of all clients is kept.
LEMMA AllKept ==
    ASSUME NEW c \in Clients
    PROVE  /\ RemoteCalls' = [RemoteCalls EXCEPT ![c] = RemoteCalls[c]] =>
                 UNCHANGED RemoteCalls
           /\ RemoteReturns' = [RemoteReturns EXCEPT ![c] = RemoteReturns[c]] =>
                 UNCHANGED RemoteReturns
<1>1. \A f : f = [d \in Clients |-> f[d]] => f = [f EXCEPT ![c] = f[c]]
  OBVIOUS
<1>2. /\ RemoteCalls = [d \in Clients |-> RemoteCalls[d]]
      /\ RemoteReturns = [d \in Clients |-> RemoteReturns[d]]
  BY DEF RemoteCalls, RemoteReturns
<1> QED BY <1>1, <1>2

\* connect returns without access: the client forgets its last call.
LEMMA ReturnsWithout ==
    ASSUME NEW c \in Clients, MappingInv, ClientMoves(c), SameView(c),
           cpc[c] \in {"idle", "login", "verdict"}, cpc'[c] \in {"idle", "login", "verdict"},
           ret'[c] = NoReturn \/ ret'[c].code = "CONNECT", UNCHANGED m_errno
    PROVE  Remote!Forgets(c)
<1>1. UNCHANGED <<RemoteTables, RemoteUsers, RemoteRoots, RemoteSessions, RemoteJobs>>
  BY ClientViews, NoneViewed
<1>2. UNCHANGED RemoteEnds
  BY ClientViews, Stays DEF HasLeft
<1>3. RemoteCalls[c] = NoMessage /\ RemoteCalls'[c] = NoMessage
  BY DEF RemoteCalls
<1>4. UNCHANGED RemoteCalls
  BY <1>3, ClientViews DEF RemoteCalls
<1>5. RemoteReturns'[c] = NoReturn
  BY DEF RemoteReturns, HasLeft, NoReturn
<1>6. UNCHANGED <<dir, content>>
  BY ClientViews DEF kernelVars
<1> QED BY <1>1, <1>2, <1>3, <1>4, <1>5, <1>6, ClientViews
        DEF Remote!Forgets, Remote!kernelVars, Remote!NoCall, NoMessage, NoReturn

\* The application ends, or is killed, while nothing of its session changes.
LEMMA Leaves ==
    ASSUME NEW c \in Clients, MappingInv, ClientMoves(c), SameView(c),
           HasLeft(c)', UNCHANGED m_errno
    PROVE  Remote!Ends(c)
<1>1. UNCHANGED <<RemoteTables, RemoteUsers, RemoteRoots, RemoteSessions, RemoteJobs>>
  BY ClientViews, NoneViewed
<1>2. RemoteEnds' = [RemoteEnds EXCEPT ![c] = TRUE]
  BY ClientViews, LeftAs
<1>3. RemoteCalls'[c] = NoMessage /\ RemoteReturns'[c] = NoReturn
  BY DEF RemoteCalls, RemoteReturns, HasLeft
<1>4. UNCHANGED <<dir, content>>
  BY ClientViews DEF kernelVars
<1> QED BY <1>1, <1>2, <1>3, <1>4, ClientViews
        DEF Remote!Ends, Remote!kernelVars, Remote!NoCall, NoMessage, NoReturn

\* While it has no access, nothing of its session is seen; the steps up to the
\* verdict are calls that return nothing (connect).
LEMMA LoginSimulated ==
    ASSUME NEW c \in Clients, ~Reconnects, MappingInv, ClientMoves(c),
           Connects(c) \/ connect_fails(c) \/ send_credential(c)
    PROVE  Simulated(c)
<1>1. /\ ConnectionTypeOK /\ StageAt(c) /\ CredentialsOf(c)
      /\ UNCHANGED m_errno
  BY ClientViews DEF MappingInv, RemoteInv, ClientsView, Connects, connect, connect_fails,
                     send_credential, ConnectReturns
<1>2. ~m_access[c] /\ ~m_access'[c]
  BY <1>1 DEF Connects, connect, connect_fails, send_credential, ConnectReturns,
              ConnectionTypeOK, StageAt, CredentialsOf
<1>3. SameView(c)
  BY <1>2, NoView
<1>4. CASE Connects(c) \/ connect_fails(c)
  <2>1. /\ cpc[c] \in {"idle", "login"} /\ cpc'[c] \in {"idle", "login"}
        /\ ret'[c] = NoReturn \/ ret'[c].code = "CONNECT"
    BY <1>1, <1>4 DEF Connects, connect, connect_fails, ConnectionTypeOK
  <2> QED BY <1>1, <1>3, <2>1, ReturnsWithout DEF Simulated, Remote!ClientActs
<1>5. CASE send_credential(c)
  <2>1. CASE \E result : ConnectReturns(c, result)
    <3>1. cpc[c] = "login" /\ cpc'[c] = "idle" /\ ret'[c].code = "CONNECT"
      BY <1>1, <1>5, <2>1 DEF send_credential, ConnectReturns, ConnectionTypeOK
    <3> QED BY <1>1, <1>3, <3>1, ReturnsWithout DEF Simulated, Remote!ClientActs
  <2>2. CASE cpc'[c] = "sigpipe"
    BY <1>1, <1>3, <2>2, Leaves DEF HasLeft, Simulated, Remote!ClientActs
  <2>3. CASE cpc[c] = "login" /\ cpc'[c] \in {"login", "verdict"} /\ ret'[c] = ret[c]
    <3>1. UNCHANGED <<RemoteTables, RemoteUsers, RemoteRoots, RemoteSessions, RemoteJobs>>
      BY <1>3, ClientViews, NoneViewed
    <3>2. UNCHANGED RemoteEnds
      BY <2>3, ClientViews, Stays DEF HasLeft
    <3>3. /\ RemoteCalls'[c] = RemoteCalls[c] /\ RemoteReturns'[c] = RemoteReturns[c]
          /\ UNCHANGED <<dir, content>>
      BY <2>3, ClientViews DEF RemoteCalls, RemoteReturns, HasLeft, kernelVars
    <3>4. UNCHANGED <<RemoteCalls, RemoteReturns>>
      BY <3>3, ClientViews, AllKept
    <3> QED BY <1>1, <3>1, <3>2, <3>3, <3>4
            DEF Simulated, Remote!remoteVars, Remote!kernelVars, Remote!apiVars
  <2>4. \/ \E result : ConnectReturns(c, result)
        \/ cpc'[c] = "sigpipe"
        \/ cpc[c] = "login" /\ cpc'[c] \in {"login", "verdict"} /\ ret'[c] = ret[c]
    BY <1>1, <1>5 DEF send_credential, ConnectionTypeOK
  <2> QED BY <2>1, <2>2, <2>3, <2>4
<1> QED BY <1>4, <1>5

\* A worker that serves nobody has nothing open.
LEMMA NothingMapped ==
    ASSUME NEW s \in Sessions, IInv, ServedAt(s), ~Served(s)
    PROVE  Mapped(s) = {}
<1>1. \A cd \in Mapped(s) : IsFile(s, descriptor_map[s][cd]) /\ descriptor_map[s][cd] \in Fds
  BY DEF IInv, SessionInv, MapAt, Mapped, ServerTypeOK, WorkerTypeOK
<1> QED BY <1>1 DEF ServedAt

\* The verdict of a worker that serves is the login of the user whose password was
\* given, in the directory that was named (access_filesystem).
LEMMA GrantSimulated ==
    ASSUME NEW c \in Clients, MappingInv, ClientMoves(c), receive_verdict(c),
           ClientReceives(m_sockfd[c]), Head(s2c[m_sockfd[c]]).code = "AUTHORIZATION_OK",
           ConnectReturns(c, "OK")
    PROVE  Simulated(c)
<1>1. PICK s \in Sessions :
        /\ s = m_sockfd[c] /\ s # NoSock /\ owner[s] = c /\ cend[s] = "open" /\ OneAt(s)
        /\ WorkerTypeOK /\ SessionInv(s) /\ WireAt(s) /\ ServedAt(s)
        /\ IInv /\ cpc[c] = "verdict" /\ StageAt(c) /\ CredentialsOf(c) /\ ConnectionTypeOK
        /\ TcpTypeOK /\ UNCHANGED <<m_sockfd, m_errno, c2s>>
  BY SocketFacts DEF receive_verdict, Living, Waiting, MappingInv, SystemInv, RemoteInv,
                     ClientsView, SessionsView, ConnectReturns
<1>2. /\ ~m_access[c] /\ m_access'[c] /\ cpc'[c] = "idle" /\ ret'[c].code = "CONNECT"
      /\ args[c] \in ConnectArgs
  BY <1>1 DEF CredentialsOf, ConnectReturns, ConnectionTypeOK
<1>3. /\ c2s[s] = << >> /\ s2c'[s] = << >> /\ c2s'[s] = << >> /\ wpc[s] = "serve"
      /\ UNCHANGED <<workerVars, kernelVars>> /\ wpc'[s] = "serve"
  BY <1>1, ReceivedByClient, ClientViews DEF WireAt, workerVars
<1>4. ~Served(s)
  BY <1>1, <1>2 DEF Served, MappingInv, RemoteInv, ClientsView, OwnAt
<1>5. Mapped(s) = {}
  BY <1>1, <1>4, NothingMapped
<1>6. RemoteTable(c) = [cd \in Fds |-> FreeSlot] /\ RemoteTable(c)' = [cd \in Fds |-> FreeSlot]
  <2>1. \A cd : ~is_descriptor_in_map(s, cd) /\ ~is_descriptor_in_map(s, cd)'
    BY <1>3, <1>5 DEF Mapped, is_descriptor_in_map, workerVars, mapVars
  <2> QED BY <1>1, <1>2, <2>1 DEF RemoteTable, Sock
<1>7. /\ RemoteSession(c) = "none" /\ RemoteSession(c)' = "on"
      /\ RemoteJob(c) = NoJob /\ RemoteJob(c)' = NoJob
  <2>1. RemoteSession(c) = "none" /\ RemoteSession(c)' = "on"
    BY <1>1, <1>2, <1>3 DEF RemoteSession, Sock
  <2>2. JobAt(s)' = NoJob
    BY <1>3 DEF JobAt
  <2> QED BY <1>1, <2>1, <2>2 DEF RemoteJob, Sock
<1>8. PICK a \in ConnectArgs :
        /\ GoodUser(a[1], a[2]) /\ GoodFilesystem(a[3])
        /\ userid[s] = UidOf[a[1]] /\ filesystem_prefix[s] = FSPrefix[a[3]]
  <2>1. /\ Authorized(s) /\ userid[s] = UidOf[info[s][1]]
        /\ filesystem_prefix[s] = FSPrefix[info[s][3]]
    BY <1>1, <1>3 DEF SessionInv, LoginAt, Serving
  <2>2. info[s][1] = args[c][1] /\ info[s][2] = args[c][2] /\ info[s][3] = args[c][3]
    BY <1>1, <2>1 DEF CredentialsOf, Authorized
  <2> QED BY <1>2, <2>1, <2>2 DEF Authorized, GoodUser, GoodFilesystem
<1>9. DEFINE user == <<UidOf[a[1]], FSPrefix[a[3]]>>
<1>10. RemoteUsers'[c] = user[1] /\ RemoteRoots'[c] = user[2]
  BY <1>1, <1>2, <1>3, <1>8 DEF RemoteUsers, RemoteRoots, Sock, workerVars, sessionVars
<1>11. /\ UNCHANGED <<RemoteTables, RemoteJobs>>
       /\ RemoteSessions' = [RemoteSessions EXCEPT ![c] = "on"]
       /\ RemoteUsers' = [RemoteUsers EXCEPT ![c] = user[1]]
       /\ RemoteRoots' = [RemoteRoots EXCEPT ![c] = user[2]]
  <2>1. /\ RemoteTables' = [RemoteTables EXCEPT ![c] = RemoteTables[c]]
        /\ RemoteJobs' = [RemoteJobs EXCEPT ![c] = RemoteJobs[c]]
    BY <1>6, <1>7, ClientViews, OneView DEF RemoteTables, RemoteJobs
  <2>2. UNCHANGED <<RemoteTables, RemoteJobs>>
    BY <2>1 DEF RemoteTables, RemoteJobs
  <2> QED BY <1>7, <1>10, <2>2, ClientViews, OneView
<1>12. /\ UNCHANGED RemoteEnds /\ ~RemoteEnds[c] /\ UNCHANGED RemoteCalls
       /\ RemoteCalls[c] = NoMessage /\ RemoteReturns'[c] = NoReturn
  <2>1. UNCHANGED RemoteEnds /\ ~RemoteEnds[c]
    BY <1>1, <1>2, ClientViews, Stays DEF HasLeft
  <2>2. RemoteCalls'[c] = NoMessage /\ RemoteCalls[c] = NoMessage /\ RemoteReturns'[c] = NoReturn
    BY <1>1, <1>2 DEF RemoteCalls, RemoteReturns
  <2>3. UNCHANGED RemoteCalls
    BY <2>2, ClientViews, AllKept
  <2> QED BY <2>1, <2>2, <2>3
<1>13. RemoteSessions[c] = "none" /\ UNCHANGED <<dir, content>>
  BY <1>3, <1>7 DEF RemoteSessions, kernelVars
<1>14. Remote!LogIn(c, user)
  BY <1>1, <1>11, <1>12, <1>13, ClientViews
     DEF Remote!LogIn, Remote!NoCall, NoMessage, NoReturn
<1> QED BY <1>8, <1>14 DEF Simulated, Remote!ClientActs

\* connect: AUTHORIZATION_OK is a login with the credentials that were given, any other
\* end of it leaves the client without a session.
LEMMA VerdictSimulated ==
    ASSUME NEW c \in Clients, ~SignalsHandled, MappingInv, ClientMoves(c),
           receive_verdict(c)
    PROVE  Simulated(c)
<1>1. /\ ~m_access[c] /\ ConnectionTypeOK /\ cpc[c] = "verdict"
  BY ClientViews DEF MappingInv, RemoteInv, ClientsView, CredentialsOf, receive_verdict
<1>2. CASE \E result \in {"SERVER_NOT_RESPONDING", "ACCESS_DENIED"} :
              ConnectReturns(c, result)
  <2>1. /\ ~m_access'[c] /\ cpc'[c] = "idle" /\ ret'[c].code = "CONNECT" /\ UNCHANGED m_errno
    BY <1>1, <1>2 DEF ConnectReturns, ConnectionTypeOK
  <2> QED BY <1>1, <2>1, NoView, ReturnsWithout DEF Simulated, Remote!ClientActs
<1> QED BY <1>2, GrantSimulated DEF receive_verdict

\* Without a session, a call returns -1 with the errno that the library has for it.
LEMMA FailureSimulated ==
    ASSUME NEW c \in Clients, NEW r \in Calls, NEW e, MappingInv, ClientMoves(c),
           SameView(c), CallFails(c, r, e),
           \/ cpc[c] = "idle"
           \/ cpc[c] = "call" /\ call[c] = r,
           \/ RemoteSession(c) = "none" /\ e = "EACCES"
           \/ RemoteSession(c) = "over" /\ e \in {"EHOSTUNREACH", "EBADMSG"}
    PROVE  Simulated(c)
<1>1. UNCHANGED <<RemoteTables, RemoteUsers, RemoteRoots, RemoteSessions, RemoteJobs>>
  BY ClientViews, NoneViewed
<1>2. /\ cpc'[c] = "idle" /\ m_errno' = [m_errno EXCEPT ![c] = e]
      /\ ret'[c] = Remote!Returned(r, -1, << >>)
  BY ClientViews DEF CallFails, CallReturns, ConnectionTypeOK, Remote!Returned
<1>3. UNCHANGED RemoteEnds /\ ~RemoteEnds[c]
  BY <1>2, ClientViews, Stays DEF HasLeft
<1>4. RemoteCalls[c] \in {NoMessage, r} /\ RemoteCalls'[c] = NoMessage
  BY <1>2 DEF RemoteCalls
<1>5. RemoteReturns'[c] = Remote!Returned(r, -1, << >>)
  <2>1. r.code # "CONNECT"
    BY ConnectionAssumption, RequestCode DEF RequestCodes
  <2> QED BY <1>2, <2>1 DEF RemoteReturns, HasLeft, Remote!Returned
<1>6. RemoteSessions[c] = RemoteSession(c) /\ UNCHANGED <<dir, content>>
  BY ClientViews DEF RemoteSessions, kernelVars
<1>7. Remote!ReturnsFailure(c, r)
  BY <1>1, <1>2, <1>3, <1>4, <1>5, <1>6, ClientViews
     DEF Remote!ReturnsFailure, Remote!Return, Remote!kernelVars, Remote!NoCall, NoMessage
<1> QED BY <1>7 DEF Simulated, Remote!ClientActs

\* What a client that may call knows of its session.
LEMMA CallerFacts ==
    ASSUME NEW c \in Clients, MappingInv, cpc[c] \in {"idle", "call"}, m_access[c]
    PROVE  /\ m_sockfd[c] \in Sessions /\ m_sockfd[c] # NoSock
           /\ wpc[m_sockfd[c]] \in Serving \cup Ended /\ OneAt(m_sockfd[c])
           /\ ExpectedAt(m_sockfd[c]) /\ WireAt(m_sockfd[c])
           /\ cpc[c] = "idle" => IdleTalk(m_sockfd[c])
           /\ cpc[c] = "call" => CallTalk(c, m_sockfd[c])
           /\ RemoteSessions[c] = RemoteSession(c) /\ RemoteJobs[c] = RemoteJob(c)
           /\ wpc[m_sockfd[c]] \in Ended => RemoteSession(c) = "over"
           /\ wpc[m_sockfd[c]] \in Serving =>
                 RemoteSession(c) = "on" /\ RemoteJob(c) = JobAt(m_sockfd[c])
<1>1. m_sockfd[c] # NoSock /\ wpc[m_sockfd[c]] \in Serving \cup Ended /\ IInv /\ ClientsInv
      /\ ConversationInv
  BY DEF MappingInv, RemoteInv, ClientsView, StageAt, SystemInv
<1>2. /\ m_sockfd[c] \in Sessions /\ OneAt(m_sockfd[c]) /\ TalkOf(c)
      /\ ExpectedAt(m_sockfd[c])
  BY <1>1, SocketFacts DEF Living, Waiting
<1>3. RemoteSession(c) = IF wpc[m_sockfd[c]] \in Ended THEN "over" ELSE "on"
  BY DEF RemoteSession, Sock, Ended
<1>4. WireAt(m_sockfd[c])
  BY <1>2 DEF MappingInv, RemoteInv, SessionsView
<1> QED BY <1>1, <1>2, <1>3, <1>4
        DEF TalkOf, RemoteSessions, RemoteJobs, RemoteJob, Sock, Serving, Ended

\* A request that is sent is a call from then on, pending where somebody serves it.
LEMMA SentSimulated ==
    ASSUME NEW c \in Clients, NEW r \in Calls, ~Reconnects, MappingInv, ClientMoves(c),
           begin_call(c, r), m_access[c], cpc'[c] = "call", call'[c] = r,
           UNCHANGED <<ret, m_errno>>
    PROVE  Simulated(c)
<1>1. PICK s \in Sessions :
        /\ s = m_sockfd[c] /\ s # NoSock /\ cpc[c] = "idle" /\ IdleTalk(s) /\ OneAt(s)
        /\ wpc[s] \in Serving \cup Ended /\ ClientSends(s, r)
        /\ UNCHANGED <<s2c, m_sockfd, m_access>> /\ r.code \in RequestCodes
  BY CallerFacts, ConnectionAssumption, RequestCode DEF begin_call, HasAccess
<1>2. /\ UNCHANGED <<workerVars, kernelVars>> /\ TcpTypeOK
  BY ClientViews
<1>3. RemoteSession(c)' = RemoteSession(c) /\ RemoteSessions[c] = RemoteSession(c)
  BY <1>1, <1>2 DEF RemoteSession, RemoteSessions, Sock, workerVars
<1>4. RemoteTable(c)' = RemoteTable(c)
  BY <1>1, <1>2 DEF RemoteTable, Sock, is_descriptor_in_map, get_descriptor_from_map,
                    workerVars, mapVars, kernelVars
<1>5. RemoteUsers'[c] = RemoteUsers[c] /\ RemoteRoots'[c] = RemoteRoots[c]
  BY <1>1, <1>2 DEF RemoteUsers, RemoteRoots, Sock, workerVars, sessionVars
<1>6. RemoteSession(c) # "on" => RemoteJob(c)' = RemoteJob(c)
  BY <1>3 DEF RemoteJob
<1>7. RemoteSession(c) = "on" => RemoteJob(c)' = Remote!At("pending", r)
  <2> SUFFICES ASSUME RemoteSession(c) = "on"
               PROVE  RemoteJob(c)' = Remote!At("pending", r)
    OBVIOUS
  <2>1. wpc[s] = "serve" /\ Quiet(s)
    BY <1>1, CallerFacts DEF IdleTalk, PastLogin, Serving
  <2>2. c2s'[s] # << >> /\ Head(c2s'[s]) = r /\ s2c'[s] = << >> /\ wpc'[s] = "serve"
    <3>1. wend[s] # "closed"
      BY <1>1, <2>1 DEF OneAt
    <3> QED BY <1>1, <1>2, <2>1, <3>1, SentToWorker DEF Quiet, workerVars
  <2>3. JobAt(s)' = Submitted("pending", r)
    BY <1>1, <2>2 DEF JobAt
  <2> QED BY <1>1, <1>3, <2>3 DEF RemoteJob, Sock, Submitted, Remote!At
<1>9. /\ UNCHANGED <<RemoteSessions, RemoteTables, RemoteUsers, RemoteRoots>>
      /\ RemoteJobs' = IF RemoteSessions[c] = "on"
                       THEN [RemoteJobs EXCEPT ![c] = Remote!At("pending", r)] ELSE RemoteJobs
  BY <1>3, <1>4, <1>5, <1>6, <1>7, ClientViews, SessionStays
<1>10. RemoteSession(c) # "none"
  BY DEF RemoteSession
<1>11. UNCHANGED RemoteEnds /\ ~RemoteEnds[c]
  BY <1>1, ClientViews, Stays DEF HasLeft
<1>12. /\ RemoteCalls[c] = NoMessage /\ RemoteCalls'[c] = r
       /\ RemoteReturns'[c] = RemoteReturns[c] /\ UNCHANGED <<dir, content>>
  BY <1>1, <1>2 DEF RemoteCalls, RemoteReturns, HasLeft, kernelVars
<1>13. UNCHANGED RemoteReturns
  BY <1>12, ClientViews, AllKept
<1>14. Remote!Call(c, r)
  BY <1>3, <1>9, <1>10, <1>11, <1>12, <1>13, ClientViews
     DEF Remote!Call, Remote!kernelVars, Remote!NoCall, NoMessage
<1> QED BY <1>14 DEF Simulated, Remote!ClientActs

\* Where the server's end is closed the send may fail, or raise SIGPIPE.
LEMMA CallSimulated ==
    ASSUME NEW c \in Clients, NEW r \in Calls, ~Reconnects, MappingInv, ClientMoves(c),
           begin_call(c, r)
    PROVE  Simulated(c)
<1>1. /\ cpc[c] = "idle" /\ UNCHANGED <<s2c, m_sockfd, m_access>> /\ ConnectionTypeOK
      /\ TcpTypeOK /\ UNCHANGED <<workerVars, kernelVars>>
  BY ClientViews DEF begin_call
<1>2. CASE ~m_access[c]
  <2>1. CallFails(c, r, "EACCES") /\ SameView(c) /\ RemoteSession(c) = "none"
    BY <1>1, <1>2, NoView DEF begin_call, HasAccess, RemoteSession
  <2> QED BY <1>1, <2>1, FailureSimulated
<1>3. CASE m_access[c]
  <2>1. PICK s \in Sessions : /\ s = m_sockfd[c] /\ s # NoSock /\ OneAt(s)
                              /\ wpc[s] \in Serving \cup Ended /\ ClientSends(s, r)
    BY <1>1, <1>3, CallerFacts DEF begin_call, HasAccess
  <2>2. CASE wend[s] = "closed"
    <3>1. c2s'[s] = c2s[s] /\ RemoteSession(c) = "over"
      BY <1>1, <1>3, <2>1, <2>2, CallerFacts
         DEF ClientSends, Sent, TcpTypeOK, OneAt, Serving, Ended
    <3>2. SameView(c)
      BY <1>1, <2>1, <3>1, ViewKept DEF SameSession, workerVars, kernelVars, sessionVars,
                                        mapVars, messageVars
    <3>3. CASE CallFails(c, r, "EBADMSG")
      BY <1>1, <3>1, <3>2, <3>3, FailureSimulated
    <3>4. CASE cpc'[c] = "sigpipe" /\ UNCHANGED m_errno
      BY <3>2, <3>4, Leaves DEF HasLeft, Simulated, Remote!ClientActs
    <3>5. CASE cpc'[c] = "call" /\ call'[c] = r /\ UNCHANGED <<ret, m_errno>>
      BY <1>3, <3>5, SentSimulated
    <3> QED BY <1>1, <1>3, <2>1, <3>3, <3>4, <3>5 DEF begin_call, HasAccess, ConnectionTypeOK
  <2>3. CASE wend[s] # "closed"
    <3>1. cpc'[c] = "call" /\ call'[c] = r /\ UNCHANGED <<ret, m_errno>>
      BY <1>1, <1>3, <2>1, <2>3 DEF begin_call, HasAccess, SendOutcomes, ConnectionTypeOK
    <3> QED BY <1>3, <3>1, SentSimulated
  <2> QED BY <2>2, <2>3
<1> QED BY <1>2, <1>3

\* What the eight functions make of an answer is what it says.
LEMMA ResultAsSaid ==
    ASSUME NEW m \in MSG, NEW code \in RequestCodes, m.code = ResultCode(code), Proper(m)
    PROVE  /\ Failed(code, m.value) => m.value = -1 /\ m.data = << >>
           /\ ~Failed(code, m.value) => ~(m.value < 0) /\ ReturnValue(code, m.value) = m.value
<1>1. m.value \in Int /\ (m.value >= 0 \/ (m.value = -1 /\ m.data = << >>))
  BY ResultFields DEF Proper
<1>2. CASE code \in {"REQUEST_FSTAT", "REQUEST_UNLINK", "REQUEST_FLOCK", "REQUEST_CLOSE"}
  <2>1. m.code \in NoValue
    BY <1>2 DEF NoValue, ResultCode
  <2>2. m.value \in {0, -1}
    BY <2>1 DEF Proper
  <2> QED BY <1>1, <1>2, <2>2 DEF Failed, ReturnValue
<1>3. CASE code \in {"REQUEST_OPEN", "REQUEST_READ", "REQUEST_WRITE", "REQUEST_LSEEK"}
  BY <1>1, <1>3 DEF Failed, ReturnValue
<1> QED BY <1>2, <1>3 DEF RequestCodes

\* The answer that arrives is what the system has for the call (send_and_wait).
LEMMA AnswerSimulated ==
    ASSUME NEW c \in Clients, MappingInv, ClientMoves(c), end_call(c),
           ClientReceives(m_sockfd[c])
    PROVE  Simulated(c)
<1>1. PICK s \in Sessions :
        /\ s = m_sockfd[c] /\ cpc[c] = "call" /\ CallTalk(c, s) /\ OneAt(s) /\ WireAt(s)
        /\ m_access[c] /\ UNCHANGED <<c2s, m_sockfd, m_access>> /\ call[c] \in Calls
        /\ wpc[s] \in Serving => RemoteSession(c) = "on" /\ RemoteJob(c) = JobAt(s)
        /\ RemoteSessions[c] = RemoteSession(c) /\ RemoteJobs[c] = RemoteJob(c)
  BY CallerFacts DEF MappingInv, RemoteInv, ClientsView, StageAt, SystemInv, ClientsInv,
                     ClientInv, ArgumentsOf, end_call
<1>2. /\ UNCHANGED <<workerVars, kernelVars>> /\ TcpTypeOK /\ ConnectionTypeOK
      /\ c2s[s] = << >> /\ s2c[s] # << >> /\ s2c'[s] = << >> /\ c2s'[s] = << >>
      /\ call[c].code \in RequestCodes /\ call[c] # NoMessage
  BY <1>1, ClientViews, ReceivedByClient, ConnectionAssumption, RequestCode
     DEF RequestCodes, NoMessage
<1>3. wpc[s] = "serve" /\ wpc'[s] = "serve"
  BY <1>1, <1>2, ReceivedByClient DEF CallTalk, PastLogin, Working, Ended, workerVars
<1>4. PICK m \in MSG : m = Head(s2c[s]) /\ m.code = ResultCode(call[c].code) /\ Proper(m)
  BY <1>1, <1>2, <1>3, HeadTailProperties DEF CallTalk, WireAt, TcpTypeOK
<1>5. /\ RemoteSession(c) = "on" /\ RemoteSession(c)' = "on"
      /\ RemoteJobs[c] = Answered(m) /\ RemoteJob(c)' = Remote!Idle
  <2>1. RemoteSession(c)' = "on"
    BY <1>1, <1>3 DEF RemoteSession, Sock
  <2>2. JobAt(s) = Answered(m) /\ JobAt(s)' = NoJob
    BY <1>2, <1>3, <1>4 DEF JobAt
  <2> QED BY <1>1, <1>3, <2>1, <2>2 DEF RemoteJob, Sock, Serving, NoJob, Remote!Idle
<1>6. /\ RemoteTable(c)' = RemoteTable(c) /\ RemoteUsers'[c] = RemoteUsers[c]
      /\ RemoteRoots'[c] = RemoteRoots[c]
  BY <1>1, <1>2 DEF RemoteTable, RemoteUsers, RemoteRoots, Sock, is_descriptor_in_map,
       get_descriptor_from_map, workerVars, sessionVars, mapVars, kernelVars
<1>7. /\ UNCHANGED <<RemoteSessions, RemoteTables, RemoteUsers, RemoteRoots>>
      /\ RemoteJobs' = [RemoteJobs EXCEPT ![c] = Remote!Idle]
  BY <1>5, <1>6, ClientViews, SessionStays
<1>8. /\ cpc'[c] = "idle"
      /\ ret'[c] = Remote!Returned(call[c], m.value, m.data)
      /\ m_errno' = IF m.value < 0 THEN [m_errno EXCEPT ![c] = m.errno] ELSE m_errno
  <2>1. CASE Failed(call[c].code, m.value)
    <3>1. m.value = -1 /\ m.data = << >>
      BY <1>2, <1>4, <2>1, ResultAsSaid
    <3>2. CallFails(c, call[c], m.errno)
      BY <1>1, <1>2, <1>4, <2>1 DEF end_call, ClientHangup, Interrupted
    <3> QED BY <1>2, <3>1, <3>2
            DEF CallFails, CallReturns, ConnectionTypeOK, Remote!Returned
  <2>2. CASE ~Failed(call[c].code, m.value)
    <3>1. ~(m.value < 0) /\ ReturnValue(call[c].code, m.value) = m.value
      BY <1>2, <1>4, <2>2, ResultAsSaid
    <3>2. /\ CallReturns(c, call[c], m.value, m.data) /\ UNCHANGED m_errno
      BY <1>1, <1>2, <1>4, <2>2, <3>1 DEF end_call, ClientHangup, Interrupted
    <3> QED BY <1>2, <3>1, <3>2 DEF CallReturns, ConnectionTypeOK, Remote!Returned
  <2> QED BY <2>1, <2>2
<1>9. UNCHANGED RemoteEnds /\ ~RemoteEnds[c]
  BY <1>1, <1>8, ClientViews, Stays DEF HasLeft
<1>10. /\ RemoteCalls[c] = call[c] /\ RemoteCalls'[c] = NoMessage
       /\ RemoteReturns'[c] = Remote!Returned(call[c], m.value, m.data)
       /\ UNCHANGED <<dir, content>>
  <2>1. ret'[c].code # "CONNECT"
    BY <1>2, <1>8 DEF Remote!Returned, RequestCodes
  <2> QED BY <1>1, <1>2, <1>8, <2>1 DEF RemoteCalls, RemoteReturns, HasLeft, kernelVars
<1>11. /\ RemoteJobs[c].phase = "done" /\ RemoteJobs[c].value = m.value
       /\ RemoteJobs[c].data = m.data
       /\ m.value < 0 => RemoteJobs[c].errno = m.errno
  BY <1>5 DEF Answered
<1>12. Remote!ReturnsAnswer(c)
  BY <1>2, <1>7, <1>8, <1>9, <1>10, <1>11, ClientViews
     DEF Remote!ReturnsAnswer, Remote!Return, Remote!kernelVars, Remote!NoCall, NoMessage
<1> QED BY <1>12 DEF Simulated, Remote!ClientActs

\* The second half of a call: the answer of the system comes back, or, when the worker
\* is gone, the failure of a lost session (NFSConnection::open and its sisters).
LEMMA EndCallSimulated ==
    ASSUME NEW c \in Clients, ~SignalsHandled, MappingInv, ClientMoves(c), end_call(c)
    PROVE  Simulated(c)
<1>1. CASE ClientReceives(m_sockfd[c])
  BY <1>1, AnswerSimulated
<1>2. CASE ClientHangup(m_sockfd[c]) /\ UNCHANGED s2c
  <2>1. PICK s \in Sessions :
          /\ s = m_sockfd[c] /\ cpc[c] = "call" /\ OneAt(s)
          /\ m_access[c] /\ UNCHANGED <<c2s, s2c, m_sockfd, m_access>> /\ call[c] \in Calls
          /\ wpc[s] \in Serving \cup Ended
          /\ wpc[s] \in Ended => RemoteSession(c) = "over"
    BY <1>2, CallerFacts DEF MappingInv, RemoteInv, ClientsView, StageAt, SystemInv,
         ClientsInv, ClientInv, ArgumentsOf, end_call
  <2>2. RemoteSession(c) = "over"
    BY <1>2, <2>1, HungUp DEF Serving, Ended
  <2>3. SameView(c)
    BY <2>1, ClientViews, ViewKept DEF SameSession, workerVars, kernelVars, sessionVars,
                                       mapVars, messageVars
  <2>4. PICK e \in {"EHOSTUNREACH", "EBADMSG"} : CallFails(c, call[c], e)
    BY <1>2 DEF end_call, ClientHangup, ClientReceives
  <2> QED BY <2>1, <2>2, <2>3, <2>4, FailureSimulated
<1> QED BY <1>1, <1>2 DEF end_call, Interrupted

\* The end of a client process or of its object changes nothing at the server, but
\* an answer that is on its way is lost.
LEMMA GoodbyeSimulated ==
    ASSUME NEW c \in Clients, MappingInv, ClientMoves(c), destroy_connection(c)
    PROVE  Simulated(c)
<1>1. /\ cpc[c] = "idle" /\ cpc'[c] \in {"destroyed", "sigpipe"}
      /\ UNCHANGED <<m_sockfd, m_access, m_errno>> /\ TcpTypeOK
      /\ UNCHANGED <<workerVars, kernelVars>>
  BY ClientViews DEF destroy_connection, ConnectionTypeOK
<1>2. CASE m_access[c]
  <2>1. PICK s \in Sessions :
          /\ s = m_sockfd[c] /\ s # NoSock /\ IdleTalk(s) /\ wpc[s] \in Serving \cup Ended
    BY <1>1, <1>2, CallerFacts
  <2>2. /\ ClientSends(s, Bare("DISCONNECT")) /\ c2s[s] = << >> /\ s2c[s] = << >>
        /\ s2c'[s] = << >>
    BY <1>1, <2>1 DEF destroy_connection, IdleTalk, Quiet, TcpTypeOK
  <2>3. c2s'[s] # << >> => Head(c2s'[s]).code = "DISCONNECT"
    BY <1>1, <2>2, SentToWorker DEF Bare
  <2>4. JobAt(s)' = JobAt(s)
    BY <1>1, <2>1, <2>2, <2>3 DEF JobAt, IdleTalk, PastLogin, Serving, Ended, RequestCodes,
                                  workerVars, messageVars
  <2>5. RemoteSession(c)' = RemoteSession(c) /\ RemoteJob(c)' = RemoteJob(c)
    BY <1>1, <2>1, <2>4 DEF RemoteSession, RemoteJob, Sock, workerVars
  <2>6. /\ RemoteTable(c)' = RemoteTable(c) /\ RemoteUsers'[c] = RemoteUsers[c]
        /\ RemoteRoots'[c] = RemoteRoots[c]
    BY <1>1 DEF RemoteTable, RemoteUsers, RemoteRoots, Sock, is_descriptor_in_map,
         get_descriptor_from_map, workerVars, sessionVars, mapVars, kernelVars
  <2>7. SameView(c)
    BY <2>5, <2>6 DEF SameView
  <2> QED BY <1>1, <2>7, Leaves DEF HasLeft, Simulated, Remote!ClientActs
<1>3. CASE ~m_access[c]
  BY <1>1, <1>3, NoView, Leaves DEF HasLeft, Simulated, Remote!ClientActs
<1> QED BY <1>2, <1>3

\* Whether clients have left does not change.
LEMMA EndsKept ==
    ASSUME NEW c \in Clients, HasLeft(c)' <=> HasLeft(c),
           \A d \in Clients \ {c} : RemoteEnds'[d] <=> RemoteEnds[d]
    PROVE  UNCHANGED RemoteEnds
<1>1. \A d \in Clients : HasLeft(d) \in BOOLEAN /\ HasLeft(d)' \in BOOLEAN
  BY DEF HasLeft
<1>2. \A d \in Clients : HasLeft(d)' = HasLeft(d)
  BY <1>1 DEF RemoteEnds
<1> QED BY <1>2, Zenon DEF RemoteEnds

\* A client that crashes is gone at once; the end of its process, which closes its
\* sockets, is seen no more.
LEMMA DeathSimulated ==
    ASSUME NEW c \in Clients, MappingInv, ClientMoves(c), crash(c) \/ end_process(c)
    PROVE  Simulated(c)
<1>1. /\ cpc'[c] \in {"dying", "gone"} /\ TcpTypeOK /\ UNCHANGED <<workerVars, kernelVars>>
      /\ UNCHANGED <<m_sockfd, m_access, m_errno, c2s>>
  BY ClientViews DEF crash, end_process, ConnectionTypeOK, tcpVars
<1>2. CASE SameView(c)
  BY <1>1, <1>2, Leaves DEF HasLeft, Simulated, Remote!ClientActs
<1>3. CASE ~m_access[c]
  BY <1>1, <1>2, <1>3, NoView
<1>4. CASE m_access[c]
  <2>1. PICK s \in Sessions :
          /\ s = m_sockfd[c] /\ owner[s] = c /\ wpc[s] \in Serving \cup Ended
          /\ OneAt(s) /\ WireAt(s)
    BY <1>4 DEF MappingInv, SystemInv, ClientsInv, ConnectionTypeOK, RemoteInv, ClientsView,
                SessionsView, StageAt, OwnAt, ConversationInv, TurnAt
  <2>2. /\ RemoteTable(c)' = RemoteTable(c) /\ RemoteUsers'[c] = RemoteUsers[c]
        /\ RemoteRoots'[c] = RemoteRoots[c] /\ RemoteSession(c)' = RemoteSession(c)
    BY <1>1 DEF RemoteTable, RemoteUsers, RemoteRoots, RemoteSession, Sock,
         is_descriptor_in_map, get_descriptor_from_map, workerVars, sessionVars, mapVars,
         kernelVars
  <2>3. CASE s2c'[s] = s2c[s] \/ RemoteSession(c) # "on"
    <3>1. s2c'[s] = s2c[s] => JobAt(s)' = JobAt(s)
      BY <1>1 DEF JobAt, workerVars, messageVars
    <3>2. RemoteJob(c)' = RemoteJob(c)
      BY <1>1, <2>1, <2>2, <2>3, <3>1 DEF RemoteJob, Sock
    <3> QED BY <1>2, <2>2, <3>2 DEF SameView
  <2>4. CASE s2c'[s] # s2c[s] /\ RemoteSession(c) = "on"
    <3>1. end_process(c) /\ s2c'[s] = << >> /\ s2c[s] # << >>
      BY <2>1, <2>4, <1>1 DEF crash, end_process, tcpVars, TcpTypeOK, WireAt
    <3>2. /\ wpc[s] = "serve" /\ c2s[s] = << >> /\ wpc'[s] = "serve" /\ c2s'[s] = << >>
      BY <1>1, <2>1, <2>4, <3>1
         DEF OneAt, RemoteSession, Sock, Working, Serving, Ended, Quiet, workerVars
    <3>3. JobAt(s) = Answered(Head(s2c[s])) /\ JobAt(s)' = NoJob
      BY <3>1, <3>2 DEF JobAt
    <3>4. RemoteJobs[c].phase = "done" /\ RemoteJob(c)' = Remote!Idle
      BY <1>1, <2>1, <2>2, <2>4, <3>3
         DEF RemoteJobs, RemoteJob, Sock, Answered, NoJob, Remote!Idle
    <3>5. /\ UNCHANGED <<RemoteSessions, RemoteTables, RemoteUsers, RemoteRoots>>
          /\ RemoteJobs' = [RemoteJobs EXCEPT ![c] = Remote!Idle]
      BY <2>2, <3>4, ClientViews, SessionStays
    <3>6. HasLeft(c) /\ HasLeft(c)'
      BY <1>1, <3>1 DEF end_process, HasLeft
    <3>7. UNCHANGED RemoteEnds /\ RemoteEnds[c]
      BY <3>6, ClientViews, EndsKept DEF RemoteEnds
    <3>8. /\ RemoteCalls'[c] = RemoteCalls[c] /\ RemoteReturns'[c] = RemoteReturns[c]
          /\ UNCHANGED <<dir, content>>
      BY <1>1, <3>6 DEF RemoteCalls, RemoteReturns, HasLeft, kernelVars
    <3>9. UNCHANGED <<RemoteCalls, RemoteReturns>>
      BY <3>8, ClientViews, AllKept
    <3>10. Remote!Drops(c)
      BY <1>1, <3>4, <3>5, <3>7, <3>8, <3>9 DEF Remote!Drops, Remote!kernelVars
    <3> QED BY <3>10 DEF Simulated, Remote!SystemActs
  <2> QED BY <2>3, <2>4
<1> QED BY <1>3, <1>4

\* Every step of a client is one of its steps there, or none.
LEMMA ClientSimulated ==
    ASSUME NEW c \in Clients, ~SignalsHandled, ~Reconnects, MappingInv, ClientMoves(c)
    PROVE  Simulated(c)
BY LoginSimulated, VerdictSimulated, CallSimulated, EndCallSimulated, GoodbyeSimulated,
   DeathSimulated DEF ClientMoves, ClientStep, ClientProgress
=============================================================================
