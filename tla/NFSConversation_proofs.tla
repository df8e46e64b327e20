------------------------ MODULE NFSConversation_proofs ------------------------
(***************************************************************************)
(* Proofs about the conversation of a client with its worker, where no     *)
(* signal handler interrupts recv(2): who speaks when, and what is on its  *)
(* way then.  TurnAt says it of a session, whatever has become of its      *)
(* client; TalkOf says it of a client that lives, stage by stage.          *)
(***************************************************************************)
EXTENDS NFSSystem_proofs

\* The stages in which it is the worker's turn, and those after run().
Working == {"ask", "select", "verdict", "handle", "flock", "reply"}
Ended   == {"unwind", "exit", "zombie"}

Quiet(s) == c2s[s] = << >> /\ s2c[s] = << >>

\* One message at a time, none while the worker works.
OneAt(s) ==
    /\ Len(c2s[s]) <= 1 /\ Len(s2c[s]) <= 1
    /\ c2s[s] = << >> \/ s2c[s] = << >>
    /\ wpc[s] \in Working \cup {"none"} => Quiet(s)
    /\ wend[s] = "closed" => c2s[s] = << >> /\ wpc[s] \in {"none", "zombie"}

\* The worker gets what it waits for.
ExpectedAt(s) ==
    /\ wpc[s] = "await" /\ c2s[s] # << >> =>
          /\ Head(c2s[s]).code = ConnectInfoCode[Len(info[s]) + 1]
          /\ Head(c2s[s]).text \in Strings
    /\ wpc[s] = "await" /\ s2c[s] # << >> =>
          Head(s2c[s]).code = ProvideCode[Len(info[s]) + 1]
    /\ wpc[s] = "serve" /\ c2s[s] # << >> =>
          Head(c2s[s]) \in Calls \cup {Bare("DISCONNECT")}
    /\ wpc[s] \in {"handle", "flock", "reply"} =>
          request[s] \in Calls \cup {Bare("DISCONNECT")}
    /\ wpc[s] = "reply" => response[s].code = ResultCode(request[s].code)
    /\ status[s] \notin {"EBADMSG", "123"}

TurnAt(s) == OneAt(s) /\ ExpectedAt(s)

\* The client has sent as many credentials as the worker has asked for.
LoginTalk(c, s) ==
    /\ wpc[s] \in {"none", "ask", "await"}
    /\ wpc[s] = "none" => step[c] = 1
    /\ wpc[s] = "ask" => step[c] = Len(info[s]) + 1
    /\ wpc[s] = "await" =>
          step[c] = Len(info[s]) + (IF c2s[s] = << >> THEN 1 ELSE 2)

\* It has sent all of them.
VerdictTalk(s) ==
    /\ wpc[s] \in {"await", "select", "verdict", "serve"} \cup Ended
    /\ wpc[s] = "await" => Len(info[s]) = 2 /\ c2s[s] # << >>
    /\ wpc[s] \in {"serve"} \cup Ended => c2s[s] = << >>

\* The worker is past the login, or there will never be one.
PastLogin(s) == /\ wpc[s] \in {"none", "serve", "handle", "flock", "reply"} \cup Ended
                /\ wpc[s] = "none" => wend[s] = "closed"

\* The request on its way, at work or answered is the one of the call.
CallTalk(c, s) ==
    /\ PastLogin(s)
    /\ wpc[s] = "serve" /\ c2s[s] # << >> => Head(c2s[s]) = call[c]
    /\ wpc[s] \in {"handle", "flock", "reply"} => request[s] = call[c]
    /\ wpc[s] = "serve" /\ s2c[s] # << >> =>
          Head(s2c[s]).code = ResultCode(call[c].code)
    /\ wpc[s] \in {"none"} \cup Ended => s2c[s] = << >>

\* Between calls nothing is on its way, and the worker waits or has ended.
IdleTalk(s) == PastLogin(s) /\ Quiet(s) /\ wpc[s] \notin {"handle", "flock", "reply"}

TalkOf(c) ==
    m_sockfd[c] # NoSock =>
        /\ cpc[c] = "login"   => LoginTalk(c, m_sockfd[c])
        /\ cpc[c] = "verdict" => VerdictTalk(m_sockfd[c])
        /\ cpc[c] = "call"    => CallTalk(c, m_sockfd[c])
        /\ cpc[c] = "idle"    => IdleTalk(m_sockfd[c])

ConversationInv == (\A s \in Sessions : TurnAt(s)) /\ (\A c \in Clients : TalkOf(c))

-----------------------------------------------------------------------------
(* Queues of at most one message.                                          *)

\* A message that a worker sends into an empty queue is alone there.
LEMMA SentAlone ==
    ASSUME NEW s \in Sessions, TcpTypeOK, s2c[s] = << >>, NEW m, NEW outcome,
           WorkerSend(s, m, outcome)
    PROVE  /\ UNCHANGED <<c2s, cend, wend>>
           /\ \A t \in Sessions \ {s} : s2c'[t] = s2c[t]
           /\ Len(s2c'[s]) <= 1
           /\ s2c'[s] # << >> => Head(s2c'[s]) = m
           /\ cend[s] = "open" => outcome = "sent" /\ s2c'[s] # << >>
<1>1. s2c'[s] = Sent(s2c[s], m, cend[s]) /\ outcome \in SendOutcomes(cend[s])
  BY DEF WorkerSend, TcpTypeOK
<1>2. Append(<< >>, m) = <<m>> /\ Len(<<m>>) = 1 /\ Head(<<m>>) = m /\ Len(<< >>) = 0
  OBVIOUS
<1>3. s2c'[s] \in {<< >>, <<m>>} /\ (cend[s] = "open" => s2c'[s] = <<m>>)
  BY <1>1, <1>2 DEF Sent
<1>4. <<m>> # << >>
  BY <1>2
<1>5. /\ Len(s2c'[s]) <= 1 /\ (s2c'[s] # << >> => Head(s2c'[s]) = m)
      /\ (cend[s] = "open" => s2c'[s] # << >>)
  <2>1. CASE s2c'[s] = << >>
    BY <1>2, <1>3, <1>4, <2>1
  <2>2. CASE s2c'[s] = <<m>>
    BY <1>2, <1>3, <1>4, <2>2
  <2> QED BY <1>3, <2>1, <2>2
<1>6. cend[s] = "open" => outcome = "sent"
  BY <1>1 DEF SendOutcomes
<1>7. UNCHANGED <<c2s, cend, wend>> /\ \A t \in Sessions \ {s} : s2c'[t] = s2c[t]
  BY DEF WorkerSend, TcpTypeOK
<1> QED BY <1>5, <1>6, <1>7

\* The tail of a queue of one message is empty.
LEMMA OneTail ==
    ASSUME NEW q \in Seq(MSG), q # << >>, Len(q) <= 1
    PROVE  Tail(q) = << >>
<1>1. Len(q) = 1
  BY EmptySeq
<1>2. Tail(q) \in Seq(MSG) /\ Len(Tail(q)) = 0
  BY <1>1, HeadTailProperties
<1> QED BY <1>2, EmptySeq

\* Nothing is on its way once a worker has received a message.
LEMMA ReceivedAlone ==
    ASSUME NEW s \in Sessions, TcpTypeOK, OneAt(s), WorkerReceives(s)
    PROVE  /\ UNCHANGED <<s2c, cend, wend>> /\ Quiet(s)' /\ wend[s] # "closed"
           /\ \A t \in Sessions \ {s} : c2s'[t] = c2s[t]
<1>1. c2s[s] \in Seq(MSG) /\ c2s[s] # << >> /\ Len(c2s[s]) <= 1 /\ s2c[s] = << >>
  BY DEF TcpTypeOK, OneAt, WorkerReceives
<1>2. Tail(c2s[s]) = << >>
  BY <1>1, OneTail
<1> QED BY <1>1, <1>2 DEF WorkerReceives, TcpTypeOK, Quiet, OneAt

-----------------------------------------------------------------------------
(* What a step that is not about a conversation leaves of it.              *)

SameTurn(t) ==
    /\ c2s'[t] = c2s[t] /\ s2c'[t] = s2c[t] /\ wend'[t] = wend[t]
    /\ wpc'[t] = wpc[t] /\ info'[t] = info[t] /\ status'[t] = status[t]
    /\ request'[t] = request[t] /\ response'[t] = response[t]

\* A connection that keeps its queues and the stage of its worker keeps the turn.
LEMMA TurnKept ==
    ASSUME NEW t \in Sessions, TurnAt(t), SameTurn(t)
    PROVE  TurnAt(t)'
BY DEF TurnAt, OneAt, Quiet, ExpectedAt, SameTurn

\* A client that keeps its stage, next to such a connection, keeps its part.
LEMMA TalkKept ==
    ASSUME NEW c \in Clients, TalkOf(c), SameClient(c),
           cpc[c] \in Living /\ m_sockfd[c] # NoSock => SameTurn(m_sockfd[c])
    PROVE  TalkOf(c)'
<1>1. CASE cpc[c] \in Living /\ m_sockfd[c] # NoSock
  BY <1>1 DEF TalkOf, LoginTalk, VerdictTalk, CallTalk, IdleTalk, PastLogin, Quiet,
              SameClient, SameTurn
<1>2. CASE ~(cpc[c] \in Living /\ m_sockfd[c] # NoSock)
  BY <1>2 DEF TalkOf, SameClient, Living, Waiting
<1> QED BY <1>1, <1>2

\* The step of one worker concerns its own session and the client there.
LEMMA WorkerTalks ==
    ASSUME NEW s \in Sessions, ClientsInv, ConversationInv, UNCHANGED connectionVars,
           \A t \in Sessions \ {s} : SameTurn(t),
           TurnAt(s)',
           \A c \in Clients : cpc[c] \in Living /\ m_sockfd[c] = s => TalkOf(c)'
    PROVE  ConversationInv'
<1>1. \A t \in Sessions : TurnAt(t)'
  BY TurnKept DEF ConversationInv
<1>2. ASSUME NEW c \in Clients PROVE TalkOf(c)'
  <2>1. SameClient(c)
    BY DEF connectionVars, SameClient
  <2>2. CASE cpc[c] \in Living /\ m_sockfd[c] # NoSock /\ m_sockfd[c] # s
    <3>1. m_sockfd[c] \in Sessions \ {s}
      BY <2>2 DEF ClientsInv, ConnectionTypeOK
    <3> QED BY <2>1, <3>1, TalkKept DEF ConversationInv
  <2>3. CASE cpc[c] \notin Living \/ m_sockfd[c] = NoSock
    BY <2>1, <2>3, TalkKept DEF ConversationInv
  <2> QED BY <2>2, <2>3
<1> QED BY <1>1, <1>2 DEF ConversationInv

\* What is known of a session and of a client that lives there.
LEMMA TalkFacts ==
    ASSUME NEW s \in Sessions, IInv, ClientsInv, ConversationInv
    PROVE  /\ TcpTypeOK /\ WorkerTypeOK /\ SessionInv(s) /\ OneAt(s) /\ ExpectedAt(s)
           /\ \A c \in Clients : cpc[c] \in Living /\ m_sockfd[c] = s =>
                 /\ s # NoSock /\ cend[s] = "open" /\ TalkOf(c)
                 /\ cpc[c] = "login" => step[c] \in 1..3
BY ConnectionAssumption DEF IInv, ServerTypeOK, ConversationInv, TurnAt, ClientsInv,
   ClientInv, SocketOf, ArgumentsOf

-----------------------------------------------------------------------------
(* The steps of a worker, one by one.                                      *)

\* The worker asks for a credential (request_username and its two sisters).
LEMMA AskTalks ==
    ASSUME NEW s \in Sessions, IInv, ClientsInv, ConversationInv, ask_info(s),
           UNCHANGED connectionVars
    PROVE  ConversationInv'
<1> DEFINE m == Bare(ProvideCode[Len(info[s]) + 1])
<1>1. PICK outcome \in SendOutcomes(cend[s]) :
        /\ WorkerSend(s, m, outcome)
        /\ \/ outcome = "sent"    /\ Goto(s, "await")
           \/ outcome = "error"   /\ Returns(s, "-1")
           \/ outcome = "sigpipe" /\ Dies(s, "killed")
  BY DEF ask_info, SendThen
<1>2. /\ TcpTypeOK /\ WorkerTypeOK /\ OneAt(s) /\ ExpectedAt(s)
      /\ wpc[s] = "ask" /\ Quiet(s) /\ UNCHANGED <<info, request, response>>
  BY TalkFacts DEF OneAt, Working, ask_info, sessionVars, messageVars
<1>3. /\ UNCHANGED <<c2s, cend, wend>> /\ \A t \in Sessions \ {s} : s2c'[t] = s2c[t]
      /\ Len(s2c'[s]) <= 1 /\ (s2c'[s] # << >> => Head(s2c'[s]) = m)
      /\ cend[s] = "open" => outcome = "sent"
  BY <1>1, <1>2, SentAlone DEF Quiet
<1>4. m.code = ProvideCode[Len(info[s]) + 1]
  BY DEF Bare
<1>5. /\ wpc'[s] \in {"await", "unwind", "exit"} /\ status'[s] \notin {"EBADMSG", "123"}
      /\ cend[s] = "open" => wpc'[s] = "await"
      /\ \A t \in Sessions \ {s} : wpc'[t] = wpc[t] /\ status'[t] = status[t]
  BY <1>1, <1>2, <1>3 DEF Goto, Returns, Dies, WorkerTypeOK, ExpectedAt
<1>6. TurnAt(s)'
  <2>1. OneAt(s)'
    BY <1>2, <1>3, <1>5 DEF OneAt, Quiet, Working
  <2> HIDE DEF m
  <2>2. ExpectedAt(s)'
    BY <1>2, <1>3, <1>4, <1>5 DEF ExpectedAt, Quiet
  <2> QED BY <2>1, <2>2 DEF TurnAt
<1>7. \A t \in Sessions \ {s} : SameTurn(t)
  BY <1>2, <1>3, <1>5 DEF SameTurn
<1>8. ASSUME NEW c \in Clients, cpc[c] \in Living /\ m_sockfd[c] = s PROVE TalkOf(c)'
  <2>1. TalkOf(c) /\ cend[s] = "open" /\ s # NoSock
    BY <1>8, TalkFacts
  <2>2. cpc[c] = "login" /\ step[c] = Len(info[s]) + 1
    BY <1>2, <1>8, <2>1 DEF TalkOf, LoginTalk, VerdictTalk, CallTalk, IdleTalk,
                            PastLogin, Living, Waiting, Ended
  <2> QED BY <1>2, <1>3, <1>5, <1>8, <2>1, <2>2
          DEF TalkOf, LoginTalk, Quiet, connectionVars
<1> QED BY <1>6, <1>7, <1>8, WorkerTalks

\* It receives the credential that it has asked for (wait_for_message).
LEMMA InfoTalks ==
    ASSUME NEW s \in Sessions, IInv, ClientsInv, ConversationInv, receive_info(s),
           UNCHANGED connectionVars
    PROVE  ConversationInv'
<1> DEFINE m == Head(c2s[s])
           n == Len(info[s])
<1>1. /\ TcpTypeOK /\ WorkerTypeOK /\ OneAt(s) /\ ExpectedAt(s) /\ wpc[s] = "await"
      /\ n \in 0..2 /\ c2s[s] # << >> /\ UNCHANGED <<request, response>>
      /\ WorkerReceives(s)
  BY TalkFacts DEF receive_info, messageVars, WorkerReceives, SessionInv, LoginAt
<1>2. /\ UNCHANGED <<s2c, cend, wend>> /\ Quiet(s)' /\ wend[s] # "closed"
      /\ \A t \in Sessions \ {s} : c2s'[t] = c2s[t]
  BY <1>1, ReceivedAlone
<1>3. m.code = ConnectInfoCode[n + 1] /\ m.text \in Strings
  BY <1>1 DEF ExpectedAt
<1>4. Parseable(m) /\ Terminated(m.text)
  <2>1. \A k \in 0..2 : ConnectInfoCode[k + 1] # "CONNECT_START"
    BY DEF ConnectInfoCode
  <2> QED BY <1>1, <1>3, <2>1, MessagesAssumption DEF Parseable, Terminated
<1>5. /\ info' = [info EXCEPT ![s] = Append(@, m.text)]
      /\ Goto(s, IF n = 2 THEN "select" ELSE "ask")
  BY <1>3, <1>4 DEF receive_info
<1>6. Len(info'[s]) = n + 1 /\ \A t \in Sessions \ {s} : info'[t] = info[t]
  <2>1. info[s] \in Seq(Strings) /\ info'[s] = Append(info[s], m.text)
    BY <1>1, <1>5 DEF WorkerTypeOK
  <2>2. Len(Append(info[s], m.text)) = Len(info[s]) + 1
    BY <1>3, <2>1
  <2> QED BY <1>1, <1>5, <2>1, <2>2 DEF WorkerTypeOK
<1>7. /\ wpc'[s] = (IF n = 2 THEN "select" ELSE "ask") /\ UNCHANGED status
      /\ \A t \in Sessions \ {s} : wpc'[t] = wpc[t]
  BY <1>1, <1>5 DEF Goto, WorkerTypeOK
<1>8. TurnAt(s)'
  <2>1. wpc'[s] \in {"select", "ask"} /\ \A q : q = << >> => Len(q) <= 1
    BY <1>7
  <2>2. OneAt(s)'
    BY <1>2, <2>1 DEF OneAt, Quiet
  <2>3. ExpectedAt(s)'
    BY <1>1, <1>7, <2>1 DEF ExpectedAt
  <2> QED BY <2>2, <2>3 DEF TurnAt
<1>9. \A t \in Sessions \ {s} : SameTurn(t)
  BY <1>1, <1>2, <1>6, <1>7 DEF SameTurn
<1>10. ASSUME NEW c \in Clients, cpc[c] \in Living /\ m_sockfd[c] = s PROVE TalkOf(c)'
  <2>1. TalkOf(c) /\ s # NoSock /\ (cpc[c] = "login" => step[c] \in 1..3)
    BY <1>10, TalkFacts
  <2>2. CASE cpc[c] = "login"
    <3>1. step[c] = n + 2
      BY <1>1, <1>10, <2>1, <2>2 DEF TalkOf, LoginTalk
    <3>2. \A k \in 0..2 : \A j \in 1..3 : j = k + 2 => k # 2 /\ j = k + 1 + 1
      OBVIOUS
    <3>3. n # 2 /\ step[c] = n + 1 + 1
      BY <1>1, <2>1, <2>2, <3>1, <3>2
    <3> QED BY <1>6, <1>7, <1>10, <2>1, <2>2, <3>3
            DEF TalkOf, LoginTalk, connectionVars
  <2>3. CASE cpc[c] = "verdict"
    <3>1. n = 2
      BY <1>1, <1>10, <2>1, <2>3 DEF TalkOf, VerdictTalk
    <3> QED BY <1>7, <1>10, <2>1, <2>3, <3>1 DEF TalkOf, VerdictTalk, connectionVars, Ended
  <2>4. cpc[c] \in {"login", "verdict"}
    BY <1>1, <1>10, <2>1 DEF TalkOf, CallTalk, IdleTalk, PastLogin, Living, Waiting, Ended
  <2> QED BY <2>2, <2>3, <2>4
<1> QED BY <1>8, <1>9, <1>10, WorkerTalks

\* A worker gives up when its client is gone, and then nobody talks to it.
LEMMA HangupTalks ==
    ASSUME NEW s \in Sessions, IInv, ClientsInv, ConversationInv, receive_fails(s),
           UNCHANGED connectionVars
    PROVE  ConversationInv'
<1>1. /\ TcpTypeOK /\ WorkerTypeOK /\ OneAt(s) /\ ExpectedAt(s)
      /\ wpc[s] \in {"await", "serve"} /\ cend[s] = "closed"
      /\ UNCHANGED <<c2s, s2c, cend, wend, info, request, response>>
      /\ Returns(s, "-1")
  BY TalkFacts DEF receive_fails, WorkerHangup, tcpVars, sessionVars, messageVars
<1>2. /\ wpc'[s] = "unwind" /\ status'[s] = "-1"
      /\ \A t \in Sessions \ {s} : wpc'[t] = wpc[t] /\ status'[t] = status[t]
  BY <1>1 DEF Returns, WorkerTypeOK
<1>3. TurnAt(s)'
  BY <1>1, <1>2 DEF TurnAt, OneAt, ExpectedAt, Working, Quiet
<1>4. \A t \in Sessions \ {s} : SameTurn(t)
  BY <1>1, <1>2 DEF SameTurn
<1>5. \A c \in Clients : ~(cpc[c] \in Living /\ m_sockfd[c] = s)
  BY <1>1, TalkFacts
<1> QED BY <1>3, <1>4, <1>5, WorkerTalks

\* It looks the credentials up (select_user, select_filesystem).
LEMMA SelectTalks ==
    ASSUME NEW s \in Sessions, IInv, ClientsInv, ConversationInv, select(s),
           UNCHANGED connectionVars
    PROVE  ConversationInv'
<1>1. /\ TcpTypeOK /\ WorkerTypeOK /\ OneAt(s) /\ ExpectedAt(s) /\ wpc[s] = "select"
      /\ Quiet(s) /\ UNCHANGED <<c2s, s2c, cend, wend, info, request, response>>
      /\ Goto(s, "verdict") \/ Dies(s, "killed")
  BY TalkFacts DEF select, tcpVars, messageVars, OneAt, Working
<1>2. /\ wpc'[s] \in {"verdict", "exit"} /\ status'[s] \notin {"EBADMSG", "123"}
      /\ \A t \in Sessions \ {s} : wpc'[t] = wpc[t] /\ status'[t] = status[t]
  BY <1>1 DEF Goto, Dies, WorkerTypeOK, ExpectedAt
<1>3. TurnAt(s)'
  BY <1>1, <1>2 DEF TurnAt, OneAt, ExpectedAt, Working, Quiet
<1>4. \A t \in Sessions \ {s} : SameTurn(t)
  BY <1>1, <1>2 DEF SameTurn
<1>5. ASSUME NEW c \in Clients, cpc[c] \in Living /\ m_sockfd[c] = s PROVE TalkOf(c)'
  <2>1. TalkOf(c) /\ s # NoSock
    BY <1>5, TalkFacts
  <2>2. cpc[c] = "verdict"
    BY <1>1, <1>5, <2>1 DEF TalkOf, LoginTalk, VerdictTalk, CallTalk, IdleTalk,
                            PastLogin, Living, Waiting, Ended
  <2> QED BY <1>1, <1>2, <1>5, <2>1, <2>2
          DEF TalkOf, VerdictTalk, Quiet, Ended, connectionVars
<1> QED BY <1>3, <1>4, <1>5, WorkerTalks

\* It says whether it accepts its client (access_filesystem).
LEMMA AcceptTalks ==
    ASSUME NEW s \in Sessions, IInv, ClientsInv, ConversationInv, send_verdict(s),
           UNCHANGED connectionVars
    PROVE  ConversationInv'
<1>1. PICK outcome \in SendOutcomes(cend[s]) :
        /\ WorkerSend(s, Bare(IF authenticated[s] THEN "AUTHORIZATION_OK"
                              ELSE "AUTHORIZATION_FAILED"), outcome)
        /\ \/ outcome = "sent" /\ Goto(s, "serve")
           \/ Returns(s, "0") \/ Returns(s, "-1") \/ Dies(s, "killed")
  BY DEF send_verdict
<1>2. /\ TcpTypeOK /\ WorkerTypeOK /\ OneAt(s) /\ ExpectedAt(s)
      /\ wpc[s] = "verdict" /\ Quiet(s) /\ UNCHANGED <<info, request, response>>
  BY TalkFacts DEF OneAt, Working, send_verdict, sessionVars, messageVars
<1>3. /\ UNCHANGED <<c2s, cend, wend>> /\ \A t \in Sessions \ {s} : s2c'[t] = s2c[t]
      /\ Len(s2c'[s]) <= 1
  BY <1>1, <1>2, SentAlone DEF Quiet
<1>4. /\ wpc'[s] \in {"serve", "unwind", "exit"} /\ status'[s] \notin {"EBADMSG", "123"}
      /\ \A t \in Sessions \ {s} : wpc'[t] = wpc[t] /\ status'[t] = status[t]
  BY <1>1, <1>2 DEF Goto, Returns, Dies, WorkerTypeOK, ExpectedAt
<1>5. TurnAt(s)'
  <2>1. OneAt(s)'
    BY <1>2, <1>3, <1>4 DEF OneAt, Quiet, Working
  <2>2. ExpectedAt(s)'
    BY <1>2, <1>3, <1>4 DEF ExpectedAt, Quiet
  <2> QED BY <2>1, <2>2 DEF TurnAt
<1>6. \A t \in Sessions \ {s} : SameTurn(t)
  BY <1>2, <1>3, <1>4 DEF SameTurn
<1>7. ASSUME NEW c \in Clients, cpc[c] \in Living /\ m_sockfd[c] = s PROVE TalkOf(c)'
  <2>1. TalkOf(c) /\ s # NoSock
    BY <1>7, TalkFacts
  <2>2. cpc[c] = "verdict"
    BY <1>2, <1>7, <2>1 DEF TalkOf, LoginTalk, VerdictTalk, CallTalk, IdleTalk,
                            PastLogin, Living, Waiting, Ended
  <2> QED BY <1>2, <1>3, <1>4, <1>7, <2>1, <2>2
          DEF TalkOf, VerdictTalk, Quiet, Ended, connectionVars
<1> QED BY <1>5, <1>6, <1>7, WorkerTalks

\* It receives a request and takes on the identity of its user (enter_user_mode).
LEMMA RequestTalks ==
    ASSUME NEW s \in Sessions, IInv, ClientsInv, ConversationInv, receive_request(s),
           UNCHANGED connectionVars
    PROVE  ConversationInv'
<1> DEFINE m == Head(c2s[s])
<1>1. /\ TcpTypeOK /\ WorkerTypeOK /\ OneAt(s) /\ ExpectedAt(s) /\ wpc[s] = "serve"
      /\ c2s[s] # << >> /\ UNCHANGED <<info, response>> /\ WorkerReceives(s)
  BY TalkFacts DEF receive_request, sessionVars, WorkerReceives
<1>2. /\ UNCHANGED <<s2c, cend, wend>> /\ Quiet(s)' /\ wend[s] # "closed"
      /\ \A t \in Sessions \ {s} : c2s'[t] = c2s[t]
  BY <1>1, ReceivedAlone
<1>3. m \in Calls \cup {Bare("DISCONNECT")}
  BY <1>1 DEF ExpectedAt
<1>4. Parseable(m)
  <2>1. m \in Calls => m.code \in RequestCodes
    BY RequestCode, ConnectionAssumption
  <2>2. Bare("DISCONNECT").code = "DISCONNECT"
    BY DEF Bare
  <2> QED BY <1>3, <2>1, <2>2 DEF Parseable, RequestCodes
<1>5. \/ Returns(s, "-1") /\ UNCHANGED request
      \/ Goto(s, "handle") /\ request' = [request EXCEPT ![s] = m]
  BY <1>4 DEF receive_request
<1>6. /\ wpc'[s] \in {"unwind", "handle"} /\ status'[s] \notin {"EBADMSG", "123"}
      /\ wpc'[s] = "handle" => request'[s] = m
      /\ \A t \in Sessions \ {s} : /\ wpc'[t] = wpc[t] /\ status'[t] = status[t]
                                   /\ request'[t] = request[t]
  BY <1>1, <1>5 DEF Goto, Returns, WorkerTypeOK, ExpectedAt
<1>7. TurnAt(s)'
  <2>1. \A q : q = << >> => Len(q) <= 1
    OBVIOUS
  <2>2. OneAt(s)'
    BY <1>2, <1>6, <2>1 DEF OneAt, Quiet
  <2>3. ExpectedAt(s)'
    BY <1>1, <1>3, <1>6 DEF ExpectedAt
  <2> QED BY <2>2, <2>3 DEF TurnAt
<1>8. \A t \in Sessions \ {s} : SameTurn(t)
  BY <1>1, <1>2, <1>6 DEF SameTurn
<1>9. ASSUME NEW c \in Clients, cpc[c] \in Living /\ m_sockfd[c] = s PROVE TalkOf(c)'
  <2>1. TalkOf(c) /\ s # NoSock
    BY <1>9, TalkFacts
  <2>2. cpc[c] = "call" /\ m = call[c]
    BY <1>1, <1>9, <2>1 DEF TalkOf, LoginTalk, VerdictTalk, CallTalk, IdleTalk,
                            PastLogin, Living, Waiting, Ended, Quiet
  <2> QED BY <1>2, <1>6, <1>9, <2>1, <2>2
          DEF TalkOf, CallTalk, PastLogin, Quiet, Ended, connectionVars
<1> QED BY <1>7, <1>8, <1>9, WorkerTalks

\* What a handler leaves of the conversation, and what answer it makes.
HandlerStep(s) ==
    /\ UNCHANGED tcpVars /\ UNCHANGED info
    /\ \A t \in Sessions \ {s} : /\ wpc'[t] = wpc[t] /\ status'[t] = status[t]
                                 /\ request'[t] = request[t] /\ response'[t] = response[t]
    /\ wpc[s] \in {"handle", "flock"} /\ wpc'[s] \in {"reply", "flock", "unwind", "exit"}
    /\ wpc'[s] \in {"reply", "flock"} => request'[s] = request[s]
    /\ wpc'[s] = "reply" => response'[s].code = ResultCode(request[s].code)
    /\ status'[s] \notin {"EBADMSG", "123"}

\* A handler that makes an answer makes one of the type of the request (Answer, the
\* end of each handle_request_* function in NFSServerWorker.cpp).
LEMMA AnswerTalks ==
    ASSUME NEW s \in Sessions, WorkerTypeOK, ExpectedAt(s), wpc[s] \in {"handle", "flock"},
           NEW value, NEW errno, NEW data, Answer(s, value, errno, data)
    PROVE  HandlerStep(s)
<1>1. /\ UNCHANGED <<tcpVars, info, request, status>>
      /\ wpc'[s] = "reply" /\ \A t \in Sessions \ {s} : wpc'[t] = wpc[t]
  BY DEF Answer, Goto, WorkerTypeOK, sessionVars
<1>2. /\ response'[s].code = ResultCode(request[s].code)
      /\ \A t \in Sessions \ {s} : response'[t] = response[t]
  BY DEF Answer, WorkerTypeOK
<1> QED BY <1>1, <1>2 DEF HandlerStep, ExpectedAt, tcpVars

\* A handler that leaves the loop returns 0 or -1: EBADMSG is for other messages only
\* (handle_requests).
LEMMA AbandonTalks ==
    ASSUME NEW s \in Sessions, WorkerTypeOK, wpc[s] \in {"handle", "flock"},
           NEW code \in {"0", "-1"}, Abandon(s, code)
    PROVE  HandlerStep(s)
<1>1. UNCHANGED tcpVars /\ UNCHANGED info
  BY DEF Abandon, sessionVars
<1>2. wpc'[s] = "unwind" /\ status'[s] = code
  BY DEF Abandon, Returns, WorkerTypeOK
<1>3. \A t \in Sessions \ {s} : /\ wpc'[t] = wpc[t] /\ status'[t] = status[t]
                                /\ request'[t] = request[t] /\ response'[t] = response[t]
  BY DEF Abandon, Returns, Forget, WorkerTypeOK
<1> QED BY <1>1, <1>2, <1>3 DEF HandlerStep

\* Every handler does one of the two, waits for a lock, or dies.
LEMMA HandlersTalk ==
    ASSUME NEW s \in Sessions, IInv, TurnAt(s), handle_request(s)
    PROVE  HandlerStep(s)
<1>1. WorkerTypeOK /\ ExpectedAt(s)
  BY DEF IInv, ServerTypeOK, TurnAt
<1>2. ASSUME wpc[s] \in {"handle", "flock"},
             \E value, errno, data : Answer(s, value, errno, data)
      PROVE  HandlerStep(s)
  BY <1>1, <1>2, AnswerTalks
<1>3. ASSUME wpc[s] \in {"handle", "flock"}, Abandon(s, "0") \/ Abandon(s, "-1")
      PROVE  HandlerStep(s)
  BY <1>1, <1>3, AbandonTalks
<1>4. CASE handle_request_open(s)
  <2>1. wpc[s] = "handle"
    BY <1>4 DEF handle_request_open, Handles
  <2>2. Abandon(s, "-1") \/ \E value, errno, data : Answer(s, value, errno, data)
    BY <1>4 DEF handle_request_open
  <2> QED BY <1>2, <1>3, <2>1, <2>2
<1>5. CASE handle_request_close(s) \/ handle_request_write(s) \/ handle_request_lseek(s)
           \/ handle_request_fstat(s)
  <2>1. wpc[s] = "handle"
    BY <1>5 DEF handle_request_close, handle_request_write, handle_request_lseek,
                handle_request_fstat, Handles
  <2>2. \E value, errno, data : Answer(s, value, errno, data)
    BY <1>5 DEF handle_request_close, handle_request_write, handle_request_lseek,
                handle_request_fstat, AnswerEBADF
  <2> QED BY <1>2, <2>1, <2>2
<1>6. CASE handle_request_unlink(s)
  <2>1. wpc[s] = "handle"
    BY <1>6 DEF handle_request_unlink, Handles
  <2>2. Abandon(s, "-1") \/ \E value, errno, data : Answer(s, value, errno, data)
    BY <1>6 DEF handle_request_unlink
  <2> QED BY <1>2, <1>3, <2>1, <2>2
<1>7. CASE handle_request_read(s)
  <2>1. wpc[s] = "handle"
    BY <1>7 DEF handle_request_read, Handles
  <2>2. CASE \E value, errno, data : Answer(s, value, errno, data)
    BY <1>2, <2>1, <2>2
  <2>3. CASE /\ Dies(s, "killed")
             /\ UNCHANGED <<tcpVars, kernelVars, sessionVars, mapVars, messageVars>>
    BY <1>1, <2>1, <2>3 DEF Dies, WorkerTypeOK, HandlerStep, sessionVars, messageVars, tcpVars
  <2> QED BY <1>7, <2>2, <2>3 DEF handle_request_read
<1>8. CASE handle_request_flock(s)
  <2>1. wpc[s] = "handle"
    BY <1>8 DEF handle_request_flock, Handles
  <2>2. CASE \E value, errno, data : Answer(s, value, errno, data)
    BY <1>2, <2>1, <2>2
  <2>3. CASE Goto(s, "flock") /\ UNCHANGED <<tcpVars, sessionVars, messageVars>>
    BY <1>1, <2>1, <2>3 DEF Goto, WorkerTypeOK, HandlerStep, ExpectedAt, sessionVars,
                            messageVars, tcpVars
  <2> QED BY <1>8, <2>2, <2>3 DEF handle_request_flock, AnswerEBADF
<1>9. CASE flock_ends(s)
  BY <1>2, <1>9 DEF flock_ends
<1>10. CASE handle_disconnect(s)
  BY <1>3, <1>10 DEF handle_disconnect, Handles
<1>11. CASE reject_message(s)
  <2>1. request[s] \in Calls \cup {Bare("DISCONNECT")}
    BY <1>1, <1>11 DEF reject_message, ExpectedAt
  <2>2. request[s].code \in RequestCodes \cup {"DISCONNECT"}
    BY <2>1, RequestCode, ConnectionAssumption DEF Bare
  <2> QED BY <1>11, <2>2 DEF reject_message
<1> QED BY <1>4, <1>5, <1>6, <1>7, <1>8, <1>9, <1>10, <1>11 DEF handle_request

\* The request being handled is that of the client's call (handle_requests).
LEMMA HandleTalks ==
    ASSUME NEW s \in Sessions, IInv, ClientsInv, ConversationInv, handle_request(s),
           UNCHANGED connectionVars
    PROVE  ConversationInv'
<1>1. OneAt(s) /\ ExpectedAt(s) /\ TurnAt(s)
  BY TalkFacts DEF ConversationInv
<1>2. HandlerStep(s)
  BY <1>1, HandlersTalk
<1>3. Quiet(s) /\ UNCHANGED <<c2s, s2c, cend, wend>>
  BY <1>1, <1>2 DEF HandlerStep, OneAt, Working, tcpVars
<1>4. TurnAt(s)'
  BY <1>1, <1>2, <1>3 DEF HandlerStep, TurnAt, OneAt, ExpectedAt, Working, Quiet
<1>5. \A t \in Sessions \ {s} : SameTurn(t)
  BY <1>2, <1>3 DEF HandlerStep, SameTurn
<1>6. ASSUME NEW c \in Clients, cpc[c] \in Living /\ m_sockfd[c] = s PROVE TalkOf(c)'
  <2>1. TalkOf(c) /\ s # NoSock
    BY <1>6, TalkFacts
  <2>2. cpc[c] = "call"
    BY <1>2, <1>6, <2>1 DEF HandlerStep, TalkOf, LoginTalk, VerdictTalk, CallTalk,
                            IdleTalk, PastLogin, Living, Waiting, Ended
  <2> QED BY <1>2, <1>3, <1>6, <2>1, <2>2
          DEF HandlerStep, TalkOf, CallTalk, PastLogin, Quiet, Ended, connectionVars
<1> QED BY <1>4, <1>5, <1>6, WorkerTalks

\* It sends the answer to the call (handle_requests).
LEMMA ResultTalks ==
    ASSUME NEW s \in Sessions, IInv, ClientsInv, ConversationInv, send_result(s),
           UNCHANGED connectionVars
    PROVE  ConversationInv'
<1> DEFINE m == response[s]
<1>1. PICK outcome \in SendOutcomes(cend[s]) :
        /\ WorkerSend(s, m, outcome)
        /\ \/ outcome = "sent"    /\ Goto(s, "serve")
           \/ outcome = "error"   /\ Returns(s, "-1")
           \/ outcome = "sigpipe" /\ Dies(s, "killed")
  BY DEF send_result
<1>2. /\ TcpTypeOK /\ WorkerTypeOK /\ OneAt(s) /\ ExpectedAt(s)
      /\ wpc[s] = "reply" /\ Quiet(s) /\ UNCHANGED info /\ Forget(s)
  BY TalkFacts DEF OneAt, Working, send_result, sessionVars
<1>3. /\ UNCHANGED <<c2s, cend, wend>> /\ \A t \in Sessions \ {s} : s2c'[t] = s2c[t]
      /\ Len(s2c'[s]) <= 1 /\ (s2c'[s] # << >> => Head(s2c'[s]) = m)
      /\ cend[s] = "open" => outcome = "sent"
  BY <1>1, <1>2, SentAlone DEF Quiet
<1>4. /\ wpc'[s] \in {"serve", "unwind", "exit"} /\ status'[s] \notin {"EBADMSG", "123"}
      /\ cend[s] = "open" => wpc'[s] = "serve"
      /\ \A t \in Sessions \ {s} : wpc'[t] = wpc[t] /\ status'[t] = status[t]
  BY <1>1, <1>2, <1>3 DEF Goto, Returns, Dies, WorkerTypeOK, ExpectedAt
<1>5. TurnAt(s)'
  <2>1. OneAt(s)'
    BY <1>2, <1>3, <1>4 DEF OneAt, Quiet, Working
  <2>2. ExpectedAt(s)'
    BY <1>2, <1>3, <1>4 DEF ExpectedAt, Quiet
  <2> QED BY <2>1, <2>2 DEF TurnAt
<1>6. \A t \in Sessions \ {s} : SameTurn(t)
  BY <1>2, <1>3, <1>4 DEF SameTurn, Forget, WorkerTypeOK
<1>7. ASSUME NEW c \in Clients, cpc[c] \in Living /\ m_sockfd[c] = s PROVE TalkOf(c)'
  <2>1. TalkOf(c) /\ s # NoSock /\ cend[s] = "open"
    BY <1>7, TalkFacts
  <2>2. cpc[c] = "call" /\ request[s] = call[c]
    BY <1>2, <1>7, <2>1 DEF TalkOf, LoginTalk, VerdictTalk, CallTalk, IdleTalk,
                            PastLogin, Living, Waiting, Ended
  <2>3. m.code = ResultCode(call[c].code)
    BY <1>2, <2>2 DEF ExpectedAt
  <2> HIDE DEF m
  <2> QED BY <1>2, <1>3, <1>4, <1>7, <2>1, <2>2, <2>3
          DEF TalkOf, CallTalk, PastLogin, Quiet, Ended, connectionVars
<1> QED BY <1>5, <1>6, <1>7, WorkerTalks

\* Its object and its process end (~NFSServerWorker, exit).
LEMMA EndTalks ==
    ASSUME NEW s \in Sessions, IInv, ClientsInv, ConversationInv,
           destroy(s) \/ exit_process(s), UNCHANGED connectionVars
    PROVE  ConversationInv'
<1>1. /\ TcpTypeOK /\ WorkerTypeOK /\ OneAt(s) /\ ExpectedAt(s) /\ wpc[s] \in Ended
      /\ UNCHANGED <<s2c, cend, info, status>>
      /\ \A t \in Sessions \ {s} : request'[t] = request[t] /\ response'[t] = response[t]
  BY TalkFacts DEF destroy, exit_process, tcpVars, sessionVars, messageVars, Goto, Forget,
                   WorkerCloses, Ended, WorkerTypeOK
<1>2. /\ wpc'[s] \in {"exit", "zombie"} /\ (wend'[s] = "closed" => wpc'[s] = "zombie")
      /\ c2s'[s] \in {c2s[s], << >>} /\ (wend'[s] = "closed" => c2s'[s] = << >>)
      /\ \A t \in Sessions \ {s} : /\ wpc'[t] = wpc[t] /\ c2s'[t] = c2s[t]
                                   /\ wend'[t] = wend[t]
  <2>1. CASE destroy(s)
    BY <1>1, <2>1 DEF destroy, Goto, WorkerTypeOK, tcpVars, OneAt
  <2>2. CASE exit_process(s)
    BY <1>1, <2>2 DEF exit_process, Goto, WorkerTypeOK, TcpTypeOK, WorkerCloses
  <2> QED BY <2>1, <2>2
<1>3. TurnAt(s)'
  <2>1. \A q : q = << >> => Len(q) <= 1
    OBVIOUS
  <2>2. OneAt(s)'
    BY <1>1, <1>2, <2>1 DEF OneAt, Working
  <2>3. ExpectedAt(s)'
    BY <1>1, <1>2 DEF ExpectedAt
  <2> QED BY <2>2, <2>3 DEF TurnAt
<1>4. \A t \in Sessions \ {s} : SameTurn(t)
  BY <1>1, <1>2 DEF SameTurn
<1>5. ASSUME NEW c \in Clients, cpc[c] \in Living /\ m_sockfd[c] = s PROVE TalkOf(c)'
  BY <1>1, <1>2, <1>5, TalkFacts
     DEF TalkOf, LoginTalk, VerdictTalk, CallTalk, IdleTalk, PastLogin, Quiet, Ended,
         Living, Waiting, connectionVars
<1> QED BY <1>3, <1>4, <1>5, WorkerTalks

\* Every step of a worker.
LEMMA WorkerKeepsConversation ==
    ASSUME NEW s \in Sessions, IInv, ClientsInv, ConversationInv, WorkerMoves(s)
    PROVE  ConversationInv'
BY AskTalks, InfoTalks, SelectTalks, AcceptTalks, RequestTalks, HandleTalks, ResultTalks,
   HangupTalks, EndTalks
   DEF WorkerMoves, WorkerStep, authenticate

-----------------------------------------------------------------------------
\* A connection is accepted and gets its worker, or is refused (accept, fork).
LEMMA AcceptOrRefuseTalks ==
    ASSUME NEW s \in Sessions, IInv, ClientsInv, ConversationInv,
           accept_and_fork(s) \/ fork_fails(s), UNCHANGED connectionVars
    PROVE  ConversationInv'
<1>1. /\ TcpTypeOK /\ WorkerTypeOK /\ OneAt(s) /\ ExpectedAt(s)
      /\ wpc[s] = "none" /\ info[s] = << >> /\ Quiet(s) /\ wend[s] = "backlog"
  BY TalkFacts DEF SessionInv, SocketAt, LoginAt, accept_and_fork, fork_fails, OneAt
<1>2. UNCHANGED <<s2c, cend, info, status, request, response>>
  BY DEF accept_and_fork, fork_fails, WorkerCloses, Goto, sessionVars, messageVars,
         workerVars
<1>3. /\ c2s'[s] = << >>
      /\ \/ wpc'[s] = "ask" /\ wend'[s] = "open"
         \/ wpc'[s] = "none" /\ wend'[s] = "closed"
      /\ \A t \in Sessions \ {s} : /\ wpc'[t] = wpc[t] /\ c2s'[t] = c2s[t]
                                   /\ wend'[t] = wend[t]
  <2>1. CASE accept_and_fork(s)
    BY <1>1, <2>1 DEF accept_and_fork, Goto, WorkerTypeOK, TcpTypeOK, Quiet
  <2>2. CASE fork_fails(s)
    BY <1>1, <2>2 DEF fork_fails, WorkerCloses, workerVars, TcpTypeOK
  <2> QED BY <2>1, <2>2
<1>4. Len(<< >>) = 0
  OBVIOUS
<1>5. TurnAt(s)'
  BY <1>1, <1>2, <1>3, <1>4 DEF TurnAt, OneAt, ExpectedAt, Quiet, Working
<1>6. \A t \in Sessions \ {s} : SameTurn(t)
  BY <1>2, <1>3 DEF SameTurn
<1>7. ASSUME NEW c \in Clients, cpc[c] \in Living /\ m_sockfd[c] = s PROVE TalkOf(c)'
  <2>1. TalkOf(c) /\ s # NoSock
    BY <1>7, TalkFacts
  <2>2. cpc[c] = "login" /\ step[c] = 1
    BY <1>1, <1>7, <2>1 DEF TalkOf, LoginTalk, VerdictTalk, CallTalk, IdleTalk,
                            PastLogin, Living, Waiting, Ended
  <2>3. Len(info[s]) = 0
    BY <1>1, <1>4
  <2> QED BY <1>2, <1>3, <1>7, <2>1, <2>2, <2>3 DEF TalkOf, LoginTalk, connectionVars
<1> QED BY <1>5, <1>6, <1>7, WorkerTalks

\* The listener stops, and what waited for it is refused (listen_for_connections).
LEMMA StopTalks ==
    ASSUME IInv, ClientsInv, ConversationInv, accept_fails, UNCHANGED connectionVars
    PROVE  ConversationInv'
<1>1. UNCHANGED <<s2c, cend, wpc, info, status, request, response>>
  BY DEF accept_fails, workerVars
<1>2. ASSUME NEW s \in Sessions PROVE SameTurn(s) \/ (wpc[s] = "none" /\ Quiet(s)
                 /\ wend[s] = "backlog" /\ wend'[s] = "closed" /\ c2s'[s] = << >>)
  <2>1. CASE wend[s] = "backlog"
    BY <1>2, <2>1, TalkFacts DEF SessionInv, SocketAt, accept_fails, OneAt
  <2>2. CASE wend[s] # "backlog"
    BY <1>1, <1>2, <2>2 DEF accept_fails, SameTurn
  <2> QED BY <2>1, <2>2
<1>3. ASSUME NEW s \in Sessions PROVE TurnAt(s)'
  <2>1. CASE SameTurn(s)
    BY <1>3, <2>1, TurnKept DEF ConversationInv
  <2>2. CASE wpc[s] = "none" /\ c2s'[s] = << >> /\ Quiet(s)
    BY <1>1, <1>3, <2>2, TalkFacts DEF TurnAt, OneAt, ExpectedAt, Quiet
  <2> QED BY <1>2, <1>3, <2>1, <2>2
<1>4. ASSUME NEW c \in Clients PROVE TalkOf(c)'
  <2> DEFINE s == m_sockfd[c]
  <2>1. SameClient(c)
    BY DEF connectionVars, SameClient
  <2>2. CASE cpc[c] \in Living /\ s # NoSock
    <3>1. s \in Sessions
      BY <2>2 DEF ClientsInv, ConnectionTypeOK
    <3>2. CASE SameTurn(s)
      BY <2>1, <3>2, TalkKept DEF ConversationInv
    <3>3. CASE wpc[s] = "none" /\ wend[s] = "backlog"
      <4>1. TalkOf(c)
        BY DEF ConversationInv
      <4>2. cpc[c] = "login"
        BY <2>2, <3>3, <4>1 DEF TalkOf, LoginTalk, VerdictTalk, CallTalk, IdleTalk,
                                PastLogin, Living, Waiting, Ended
      <4> QED BY <1>1, <2>1, <2>2, <3>3, <4>1, <4>2 DEF TalkOf, LoginTalk, SameClient
    <3> QED BY <1>2, <3>1, <3>2, <3>3
  <2>3. CASE ~(cpc[c] \in Living /\ s # NoSock)
    BY <2>1, <2>3, TalkKept DEF ConversationInv
  <2> QED BY <2>2, <2>3
<1> QED BY <1>3, <1>4 DEF ConversationInv

-----------------------------------------------------------------------------
(* The steps of a client, one by one.                                      *)

\* A step of a client concerns sessions that no other client has.
LEMMA ClientTalks ==
    ASSUME NEW c \in Clients, ClientsInv, ConversationInv, ClientOK(c),
           UNCHANGED workerVars, TalkOf(c)',
           \A t \in Sessions : \/ SameTurn(t)
                               \/ TurnAt(t)' /\ (cend[t] = "open" => owner[t] = c)
    PROVE  ConversationInv'
<1>1. \A t \in Sessions : TurnAt(t)'
  BY TurnKept DEF ConversationInv
<1>2. ASSUME NEW d \in Clients \ {c} PROVE TalkOf(d)'
  <2>1. SameClient(d) /\ TalkOf(d)
    BY DEF ClientOK, ConversationInv
  <2>2. cpc[d] \in Living /\ m_sockfd[d] # NoSock => SameTurn(m_sockfd[d])
    BY DEF ClientsInv, ConnectionTypeOK, ClientInv, SocketOf
  <2> QED BY <2>1, <2>2, TalkKept
<1> QED BY <1>1, <1>2 DEF ConversationInv

\* What is known of a client that lives and has a socket.
LEMMA SocketFacts ==
    ASSUME NEW c \in Clients, IInv, ClientsInv, ConversationInv, cpc[c] \in Living,
           cpc[c] # "idle" \/ m_sockfd[c] # NoSock
    PROVE  /\ m_sockfd[c] \in Sessions /\ m_sockfd[c] # NoSock
           /\ owner[m_sockfd[c]] = c /\ cend[m_sockfd[c]] = "open" /\ TalkOf(c)
           /\ OneAt(m_sockfd[c]) /\ ExpectedAt(m_sockfd[c]) /\ TcpTypeOK
           /\ WorkerTypeOK /\ ConnectionTypeOK /\ SessionInv(m_sockfd[c])
BY ConnectionAssumption DEF ClientsInv, ConnectionTypeOK, ClientInv, SocketOf, Living,
   ConversationInv, TurnAt, IInv, ServerTypeOK

\* A message that a client sends into an empty queue is alone there.
LEMMA SentToWorker ==
    ASSUME NEW s \in Sessions, TcpTypeOK, c2s[s] = << >>, NEW m, ClientSends(s, m)
    PROVE  /\ \A t \in Sessions \ {s} : c2s'[t] = c2s[t]
           /\ Len(c2s'[s]) <= 1
           /\ c2s'[s] # << >> => Head(c2s'[s]) = m /\ wend[s] # "closed"
           /\ wend[s] # "closed" => c2s'[s] # << >>
<1>1. c2s'[s] = Sent(c2s[s], m, wend[s])
  BY DEF ClientSends, TcpTypeOK
<1>2. Append(<< >>, m) = <<m>> /\ Len(<<m>>) = 1 /\ Head(<<m>>) = m /\ Len(<< >>) = 0
  OBVIOUS
<1>3. <<m>> # << >>
  BY <1>2
<1>4. CASE wend[s] = "closed"
  <2>1. c2s'[s] = << >>
    BY <1>1, <1>4 DEF Sent
  <2> QED BY <1>2, <1>4, <2>1 DEF ClientSends, TcpTypeOK
<1>5. CASE wend[s] # "closed"
  <2>1. c2s'[s] = <<m>>
    BY <1>1, <1>2, <1>5 DEF Sent
  <2>2. Len(c2s'[s]) <= 1 /\ Head(c2s'[s]) = m /\ c2s'[s] # << >>
    BY <1>2, <1>3, <2>1
  <2>3. \A t \in Sessions \ {s} : c2s'[t] = c2s[t]
    BY DEF ClientSends, TcpTypeOK
  <2> QED BY <1>5, <2>2, <2>3
<1> QED BY <1>4, <1>5

\* A message that a client receives was alone in its session.
LEMMA ReceivedByClient ==
    ASSUME NEW s \in Sessions, TcpTypeOK, OneAt(s), ClientReceives(s)
    PROVE  /\ c2s[s] = << >> /\ s2c[s] # << >> /\ s2c'[s] = << >>
           /\ wpc[s] \notin Working \cup {"none"}
           /\ \A t \in Sessions \ {s} : s2c'[t] = s2c[t]
<1>1. s2c[s] \in Seq(MSG) /\ s2c[s] # << >> /\ Len(s2c[s]) <= 1
  BY DEF ClientReceives, TcpTypeOK, OneAt
<1>2. Tail(s2c[s]) = << >>
  BY <1>1, OneTail
<1> QED BY <1>1, <1>2 DEF ClientReceives, TcpTypeOK, OneAt, Quiet

\* A client that finds its connection closed has nothing on its way.
LEMMA HungUp ==
    ASSUME NEW s \in Sessions, OneAt(s), ClientHangup(s)
    PROVE  Quiet(s) /\ wend[s] = "closed" /\ wpc[s] \in {"none", "zombie"}
BY DEF OneAt, ClientHangup, Quiet

\* Worker variables and queues that keep their values.
LEMMA TurnUntouched ==
    ASSUME NEW t \in Sessions, UNCHANGED workerVars, c2s'[t] = c2s[t], s2c'[t] = s2c[t],
           wend'[t] = wend[t]
    PROVE  SameTurn(t)
BY DEF SameTurn, workerVars

\* A socket is connected (connect_to_server).
LEMMA ConnectTalks ==
    ASSUME NEW c \in Clients, IInv, ClientsInv, ConversationInv, Connects(c),
           UNCHANGED workerVars
    PROVE  ConversationInv'
<1>1. PICK s \in Sessions, a \in ConnectArgs : connect(c, s, a)
  BY DEF Connects
<1>2. /\ TcpTypeOK /\ WorkerTypeOK /\ ConnectionTypeOK /\ ExpectedAt(s) /\ TurnAt(s)
      /\ wpc[s] = "none" /\ Quiet(s) /\ cend[s] = "unused"
  BY <1>1, TalkFacts DEF connect, SessionInv, SocketAt, OneAt, ClientsInv, TurnAt
<1>3. /\ UNCHANGED <<c2s, s2c>> /\ wend'[s] = "backlog"
      /\ \A t \in Sessions \ {s} : wend'[t] = wend[t]
      /\ cpc'[c] = "login" /\ m_sockfd'[c] = s /\ step'[c] = 1
  BY <1>1, <1>2 DEF connect, TcpTypeOK, ConnectionTypeOK
<1>4. ClientOK(c)
  BY <1>1, <1>2, ConnectOK
<1>5. UNCHANGED <<wpc, info, status, request, response>>
  BY DEF workerVars
<1>6. TurnAt(s)'
  BY <1>2, <1>3, <1>5 DEF TurnAt, OneAt, ExpectedAt, Quiet
<1>7. TalkOf(c)'
  BY <1>2, <1>3, <1>5 DEF TalkOf, LoginTalk
<1>8. \A t \in Sessions \ {s} : SameTurn(t)
  BY <1>3, TurnUntouched
<1> QED BY <1>2, <1>4, <1>6, <1>7, <1>8, ClientTalks

\* Connecting fails, or the process is killed: nothing is said.
LEMMA SilentTalks ==
    ASSUME NEW c \in Clients, IInv, ClientsInv, ConversationInv,
           connect_fails(c) \/ crash(c), UNCHANGED workerVars
    PROVE  ConversationInv'
<1>1. TcpTypeOK /\ ConnectionTypeOK /\ UNCHANGED tcpVars
  BY DEF IInv, ServerTypeOK, ClientsInv, connect_fails, crash
<1>2. ClientOK(c)
  BY <1>1, ConnectFailsOK, LeavesOK
<1>3. TalkOf(c)'
  BY <1>1 DEF connect_fails, crash, ConnectionTypeOK, TalkOf
<1>4. \A t \in Sessions : SameTurn(t)
  BY <1>1, TurnUntouched DEF tcpVars
<1> QED BY <1>2, <1>3, <1>4, ClientTalks

\* A process ends: what was on its way to it is lost (exit).
LEMMA ProcessEndTalks ==
    ASSUME NEW c \in Clients, IInv, ClientsInv, ConversationInv, end_process(c),
           UNCHANGED workerVars
    PROVE  ConversationInv'
<1>1. TcpTypeOK /\ ConnectionTypeOK /\ UNCHANGED <<c2s, wend>>
  BY DEF IInv, ServerTypeOK, ClientsInv, end_process
<1>2. ClientOK(c)
  BY <1>1, LeavesOK
<1>3. TalkOf(c)'
  BY <1>1 DEF end_process, ConnectionTypeOK, TalkOf
<1>4. ASSUME NEW t \in Sessions
      PROVE  SameTurn(t) \/ (TurnAt(t)' /\ (cend[t] = "open" => owner[t] = c))
  <2>1. CASE owner[t] = c /\ cend[t] = "open"
    <3>1. s2c'[t] = << >> /\ Len(<< >>) = 0 /\ TurnAt(t)
      BY <1>4, <2>1 DEF end_process, ConversationInv
    <3>2. UNCHANGED <<wpc, info, status, request, response>>
      BY DEF workerVars
    <3> QED BY <1>1, <2>1, <3>1, <3>2 DEF TurnAt, OneAt, ExpectedAt, Quiet
  <2>2. CASE ~(owner[t] = c /\ cend[t] = "open")
    <3>1. s2c'[t] = s2c[t]
      BY <1>4, <2>2 DEF end_process
    <3> QED BY <1>1, <1>4, <3>1, TurnUntouched
  <2> QED BY <2>1, <2>2
<1> QED BY <1>2, <1>3, <1>4, ClientTalks

\* A credential is sent, as the worker has asked for it (send_username and its
\* two sisters), or the connection is found closed.
LEMMA CredentialTalks ==
    ASSUME NEW c \in Clients, ~SignalsHandled, IInv, ClientsInv, ConversationInv,
           send_credential(c), UNCHANGED workerVars
    PROVE  ConversationInv'
<1> DEFINE cmsg == [code |-> ConnectInfoCode[step[c]], text |-> args[c][step[c]]]
<1>1. cpc[c] = "login" /\ cpc[c] \in Living /\ UNCHANGED <<cend, wend>>
  BY DEF send_credential, Living, Waiting
<1>2. PICK s \in Sessions :
      /\ s = m_sockfd[c] /\ s # NoSock /\ owner[s] = c /\ LoginTalk(c, s) /\ OneAt(s)
      /\ ExpectedAt(s) /\ TcpTypeOK /\ WorkerTypeOK /\ ConnectionTypeOK
      /\ SessionInv(s) /\ TurnAt(s)
  BY <1>1, SocketFacts DEF TalkOf, TurnAt
<1>3. ClientOK(c)
  BY CredentialOK
<1>4. UNCHANGED <<wpc, info, status, request, response>>
  BY DEF workerVars
<1>5. CASE ClientHangup(s) /\ ConnectReturns(c, "SERVER_NOT_RESPONDING")
           /\ UNCHANGED <<c2s, s2c>>
  <2>1. Quiet(s) /\ wend[s] = "closed" /\ wpc[s] \in {"none", "zombie"}
    BY <1>2, <1>5, HungUp
  <2>2. cpc'[c] = "idle" /\ m_sockfd'[c] = s
    BY <1>2, <1>5 DEF ConnectReturns, ConnectionTypeOK
  <2>3. TalkOf(c)'
    BY <1>1, <1>4, <1>5, <2>1, <2>2 DEF TalkOf, IdleTalk, PastLogin, Quiet, Ended
  <2>4. \A t \in Sessions : SameTurn(t)
    BY <1>1, <1>5, TurnUntouched
  <2> QED BY <1>3, <2>3, <2>4, ClientTalks
<1>6. ASSUME ClientReceives(s)
      PROVE  /\ c2s[s] = << >> /\ s2c'[s] = << >> /\ wpc[s] = "await"
             /\ wend[s] # "closed" /\ step[c] = Len(info[s]) + 1
             /\ Head(s2c[s]).code = ProvideCode[step[c]]
             /\ \A t \in Sessions \ {s} : s2c'[t] = s2c[t]
  <2>1. /\ c2s[s] = << >> /\ s2c[s] # << >> /\ s2c'[s] = << >>
        /\ wpc[s] \notin Working \cup {"none"}
        /\ \A t \in Sessions \ {s} : s2c'[t] = s2c[t]
    BY <1>2, <1>6, ReceivedByClient
  <2>2. wpc[s] = "await" /\ step[c] = Len(info[s]) + 1
    BY <1>2, <2>1 DEF LoginTalk, Working
  <2> QED BY <1>2, <2>1, <2>2 DEF ExpectedAt, OneAt
<1>7. CASE /\ ClientReceives(s) /\ ClientSends(s, cmsg)
           /\ \/ /\ step' = [step EXCEPT ![c] = NextStep(@)]
                 /\ cpc' = [cpc EXCEPT ![c] = IF step[c] = 3 THEN "verdict" ELSE "login"]
              \/ /\ "sigpipe" \in SendOutcomes(wend[s])
                 /\ cpc' = [cpc EXCEPT ![c] = "sigpipe"]
           /\ UNCHANGED m_sockfd
  <2> DEFINE n == Len(info[s])
  <2>1. /\ step[c] \in 1..3 /\ args[c] \in ConnectArgs /\ n \in 0..2
        /\ step[c] = n + 1 /\ wpc[s] = "await" /\ wend[s] # "closed"
    BY <1>1, <1>2, <1>6, <1>7 DEF ClientsInv, ClientInv, ArgumentsOf, SessionInv, LoginAt
  <2>2. cmsg.code = ConnectInfoCode[n + 1] /\ cmsg.text \in Strings
    BY <2>1, ArgumentsType
  <2>3. /\ Len(c2s'[s]) <= 1 /\ c2s'[s] # << >> /\ Head(c2s'[s]) = cmsg
        /\ \A t \in Sessions \ {s} : c2s'[t] = c2s[t]
    <3> HIDE DEF cmsg
    <3> QED BY <1>2, <1>6, <1>7, <2>1, SentToWorker
  <2>4. TurnAt(s)'
    <3> HIDE DEF cmsg
    <3>1. Len(<< >>) <= 1
      OBVIOUS
    <3>2. OneAt(s)'
      BY <1>1, <1>4, <1>6, <1>7, <2>1, <2>3, <3>1 DEF OneAt, Working
    <3>3. ExpectedAt(s)'
      BY <1>2, <1>4, <1>6, <1>7, <2>1, <2>2, <2>3 DEF ExpectedAt
    <3> QED BY <3>2, <3>3 DEF TurnAt
  <2>5. TalkOf(c)'
    <3>1. m_sockfd'[c] = s /\ c2s'[s] # << >> /\ s2c'[s] = << >>
      BY <1>2, <1>6, <1>7, <2>3
    <3>2. CASE /\ step' = [step EXCEPT ![c] = NextStep(@)]
               /\ cpc' = [cpc EXCEPT ![c] = IF step[c] = 3 THEN "verdict" ELSE "login"]
      <4>1. \A k \in 0..2 : \A j \in 1..3 : j = k + 1 =>
               (j = 3 => k = 2) /\ (j # 3 => NextStep(j) = k + 2)
        BY DEF NextStep
      <4>2. (step[c] = 3 => n = 2) /\ (step[c] # 3 => NextStep(step[c]) = n + 2)
        BY <2>1, <4>1
      <4>3. /\ step[c] = 3 => cpc'[c] = "verdict"
            /\ step[c] # 3 => cpc'[c] = "login" /\ step'[c] = n + 2
        BY <1>2, <3>2, <4>2 DEF ConnectionTypeOK
      <4> HIDE DEF cmsg
      <4> QED BY <1>4, <2>1, <3>1, <4>2, <4>3 DEF TalkOf, LoginTalk, VerdictTalk, Ended
    <3>3. CASE cpc' = [cpc EXCEPT ![c] = "sigpipe"]
      BY <1>2, <3>3 DEF TalkOf, ConnectionTypeOK
    <3> QED BY <1>7, <3>2, <3>3
  <2>6. \A t \in Sessions \ {s} : SameTurn(t)
    BY <1>1, <1>6, <1>7, <2>3, TurnUntouched
  <2> HIDE DEF cmsg
  <2> QED BY <1>2, <1>3, <2>4, <2>5, <2>6, ClientTalks
<1>8. ~Interrupted(s)
  BY DEF Interrupted
<1> QED BY <1>2, <1>5, <1>6, <1>7, <1>8 DEF send_credential

\* The verdict is received, or the connection is found closed (access_filesystem).
LEMMA VerdictTalks ==
    ASSUME NEW c \in Clients, ~SignalsHandled, IInv, ClientsInv, ConversationInv,
           receive_verdict(c), UNCHANGED workerVars
    PROVE  ConversationInv'
<1>1. /\ cpc[c] = "verdict" /\ cpc[c] \in Living /\ UNCHANGED <<c2s, cend, wend>>
      /\ \E result : ConnectReturns(c, result)
      /\ \/ ClientHangup(m_sockfd[c]) /\ UNCHANGED s2c
         \/ ClientReceives(m_sockfd[c])
  BY DEF receive_verdict, Living, Waiting, Interrupted
<1>2. PICK s \in Sessions :
      /\ s = m_sockfd[c] /\ s # NoSock /\ owner[s] = c /\ VerdictTalk(s) /\ OneAt(s)
      /\ ExpectedAt(s) /\ TcpTypeOK /\ ConnectionTypeOK /\ TurnAt(s)
  BY <1>1, SocketFacts DEF TalkOf, TurnAt
<1>3. ClientOK(c)
  BY VerdictOK
<1>4. UNCHANGED <<wpc, info, status, request, response>>
  BY DEF workerVars
<1>5. cpc'[c] = "idle" /\ m_sockfd'[c] = s
  BY <1>1, <1>2 DEF ConnectReturns, ConnectionTypeOK
<1>6. CASE ClientHangup(s) /\ UNCHANGED s2c
  <2>1. Quiet(s) /\ wend[s] = "closed" /\ wpc[s] \in {"none", "zombie"}
    BY <1>2, <1>6, HungUp
  <2>2. TalkOf(c)'
    BY <1>1, <1>4, <1>5, <1>6, <2>1 DEF TalkOf, IdleTalk, PastLogin, Quiet, Ended
  <2>3. \A t \in Sessions : SameTurn(t)
    BY <1>1, <1>6, TurnUntouched
  <2> QED BY <1>3, <2>2, <2>3, ClientTalks
<1>7. CASE ClientReceives(s)
  <2>1. /\ c2s[s] = << >> /\ s2c'[s] = << >> /\ wpc[s] \notin Working \cup {"none"}
        /\ \A t \in Sessions \ {s} : s2c'[t] = s2c[t]
    BY <1>2, <1>7, ReceivedByClient
  <2>2. wpc[s] \in {"serve"} \cup Ended
    BY <1>2, <2>1 DEF VerdictTalk, Working
  <2>3. Len(<< >>) <= 1
    OBVIOUS
  <2>4. TurnAt(s)'
    BY <1>1, <1>2, <1>4, <2>1, <2>2, <2>3 DEF TurnAt, OneAt, ExpectedAt, Working, Ended
  <2>5. TalkOf(c)'
    BY <1>1, <1>4, <1>5, <2>1, <2>2 DEF TalkOf, IdleTalk, PastLogin, Quiet, Ended
  <2>6. \A t \in Sessions \ {s} : SameTurn(t)
    BY <1>1, <2>1, TurnUntouched
  <2> QED BY <1>2, <1>3, <2>4, <2>5, <2>6, ClientTalks
<1> QED BY <1>1, <1>2, <1>6, <1>7

\* A call is sent, or fails before that (send_and_wait up to its recv).
LEMMA CallTalks ==
    ASSUME NEW c \in Clients, NEW r \in Calls, IInv, ClientsInv, ConversationInv,
           begin_call(c, r), UNCHANGED workerVars
    PROVE  ConversationInv'
<1>1. /\ cpc[c] = "idle" /\ cpc[c] \in Living /\ UNCHANGED <<s2c, cend, wend, m_sockfd>>
      /\ ConnectionTypeOK
  BY DEF begin_call, Living, ClientsInv
<1>2. ClientOK(c)
  BY BeginCallOK
<1>3. UNCHANGED <<wpc, info, status, request, response>>
  BY DEF workerVars
<1>4. CASE UNCHANGED c2s /\ \E errno : CallFails(c, r, errno)
  <2>1. cpc'[c] = "idle"
    BY <1>1, <1>4 DEF CallFails, CallReturns, ConnectionTypeOK
  <2>2. TalkOf(c)'
    BY <1>1, <1>3, <1>4, <2>1 DEF TalkOf, IdleTalk, PastLogin, Quiet, ConversationInv
  <2>3. \A t \in Sessions : SameTurn(t)
    BY <1>1, <1>4, TurnUntouched
  <2> QED BY <1>2, <2>2, <2>3, ClientTalks
<1>5. CASE /\ m_sockfd[c] # NoSock /\ ClientSends(m_sockfd[c], r)
           /\ \E outcome \in SendOutcomes(wend[m_sockfd[c]]) :
                 \/ cpc' = [cpc EXCEPT ![c] = "call"] /\ call' = [call EXCEPT ![c] = r]
                 \/ outcome = "error" /\ CallFails(c, r, "EBADMSG")
                 \/ cpc' = [cpc EXCEPT ![c] = "sigpipe"]
  <2>1. PICK s \in Sessions :
        /\ s = m_sockfd[c] /\ s # NoSock /\ owner[s] = c /\ IdleTalk(s) /\ OneAt(s)
        /\ ExpectedAt(s) /\ TcpTypeOK /\ TurnAt(s)
    BY <1>1, <1>5, SocketFacts DEF TalkOf, TurnAt
  <2>2. /\ \A t \in Sessions \ {s} : c2s'[t] = c2s[t]
        /\ Len(c2s'[s]) <= 1
        /\ c2s'[s] # << >> => Head(c2s'[s]) = r /\ wend[s] # "closed"
    BY <1>5, <2>1, SentToWorker DEF IdleTalk, Quiet
  <2>3. wpc[s] \in {"none", "serve"} \cup Ended /\ Quiet(s)
        /\ (wpc[s] = "none" => wend[s] = "closed")
    BY <2>1 DEF IdleTalk, PastLogin
  <2>4. TurnAt(s)'
    <3>1. OneAt(s)'
      BY <1>1, <1>3, <2>1, <2>2, <2>3 DEF OneAt, Working, Ended, Quiet
    <3>2. ExpectedAt(s)'
      BY <1>1, <1>3, <2>1, <2>2, <2>3 DEF ExpectedAt, Ended, Quiet
    <3> QED BY <3>1, <3>2 DEF TurnAt
  <2>5. TalkOf(c)'
    <3>1. \/ cpc'[c] = "call" /\ call'[c] = r
          \/ cpc'[c] = "idle" /\ wend[s] = "closed"
          \/ cpc'[c] = "sigpipe"
      BY <1>1, <1>5, <2>1 DEF SendOutcomes, CallFails, CallReturns, ConnectionTypeOK
    <3>2. CASE cpc'[c] = "call" /\ call'[c] = r
      BY <1>1, <1>3, <2>1, <2>2, <2>3, <3>2 DEF TalkOf, CallTalk, PastLogin, Quiet, Ended
    <3>3. CASE cpc'[c] = "idle" /\ wend[s] = "closed"
      BY <1>1, <1>3, <2>1, <2>2, <2>3, <3>3 DEF TalkOf, IdleTalk, PastLogin, Quiet, Ended
    <3>4. CASE cpc'[c] = "sigpipe"
      BY <3>4 DEF TalkOf
    <3> QED BY <3>1, <3>2, <3>3, <3>4
  <2>6. \A t \in Sessions \ {s} : SameTurn(t)
    BY <1>1, <2>2, TurnUntouched
  <2> QED BY <1>2, <2>1, <2>4, <2>5, <2>6, ClientTalks
<1> QED BY <1>4, <1>5 DEF begin_call

\* A call is answered, or the connection is found closed (send_and_wait).
LEMMA AnswerArrives ==
    ASSUME NEW c \in Clients, ~SignalsHandled, IInv, ClientsInv, ConversationInv,
           end_call(c), UNCHANGED workerVars
    PROVE  ConversationInv'
<1>1. /\ cpc[c] = "call" /\ cpc[c] \in Living /\ UNCHANGED <<c2s, cend, wend, m_sockfd>>
      /\ \E r, value, data : CallReturns(c, r, value, data)
      /\ \/ ClientHangup(m_sockfd[c]) /\ UNCHANGED s2c
         \/ ClientReceives(m_sockfd[c])
  BY DEF end_call, CallFails, Living, Waiting, Interrupted
<1>2. PICK s \in Sessions :
      /\ s = m_sockfd[c] /\ s # NoSock /\ owner[s] = c /\ CallTalk(c, s) /\ OneAt(s)
      /\ ExpectedAt(s) /\ TcpTypeOK /\ ConnectionTypeOK /\ TurnAt(s)
  BY <1>1, SocketFacts DEF TalkOf, TurnAt
<1>3. ClientOK(c)
  BY <1>2, EndCallOK
<1>4. UNCHANGED <<wpc, info, status, request, response>>
  BY DEF workerVars
<1>5. cpc'[c] = "idle" /\ m_sockfd'[c] = s
  BY <1>1, <1>2 DEF CallReturns, ConnectionTypeOK
<1>6. CASE ClientHangup(s) /\ UNCHANGED s2c
  <2>1. Quiet(s) /\ wend[s] = "closed" /\ wpc[s] \in {"none", "zombie"}
    BY <1>2, <1>6, HungUp
  <2>2. TalkOf(c)'
    BY <1>1, <1>4, <1>5, <1>6, <2>1 DEF TalkOf, IdleTalk, PastLogin, Quiet, Ended
  <2>3. \A t \in Sessions : SameTurn(t)
    BY <1>1, <1>6, TurnUntouched
  <2> QED BY <1>3, <2>2, <2>3, ClientTalks
<1>7. CASE ClientReceives(s)
  <2>1. /\ c2s[s] = << >> /\ s2c'[s] = << >> /\ wpc[s] \notin Working \cup {"none"}
        /\ \A t \in Sessions \ {s} : s2c'[t] = s2c[t]
    BY <1>2, <1>7, ReceivedByClient
  <2>2. wpc[s] \in {"serve"} \cup Ended
    BY <1>2, <2>1 DEF CallTalk, PastLogin, Working
  <2>3. Len(<< >>) <= 1
    OBVIOUS
  <2>4. TurnAt(s)'
    BY <1>1, <1>2, <1>4, <2>1, <2>2, <2>3 DEF TurnAt, OneAt, ExpectedAt, Working, Ended
  <2>5. TalkOf(c)'
    BY <1>1, <1>4, <1>5, <2>1, <2>2 DEF TalkOf, IdleTalk, PastLogin, Quiet, Ended
  <2>6. \A t \in Sessions \ {s} : SameTurn(t)
    BY <1>1, <2>1, TurnUntouched
  <2> QED BY <1>2, <1>3, <2>4, <2>5, <2>6, ClientTalks
<1> QED BY <1>1, <1>2, <1>6, <1>7

\* The destructor says goodbye and closes (~NFSConnection).
LEMMA GoodbyeTalks ==
    ASSUME NEW c \in Clients, IInv, ClientsInv, ConversationInv,
           destroy_connection(c), UNCHANGED workerVars
    PROVE  ConversationInv'
<1>1. /\ cpc[c] = "idle" /\ cpc[c] \in Living /\ UNCHANGED m_sockfd
      /\ ConnectionTypeOK /\ TcpTypeOK
  BY DEF destroy_connection, Living, ClientsInv, IInv, ServerTypeOK
<1>2. ClientOK(c)
  BY <1>1, LeavesOK
<1>3. UNCHANGED <<wpc, info, status, request, response>>
  BY DEF workerVars
<1>4. TalkOf(c)'
  BY <1>1 DEF destroy_connection, TalkOf, ConnectionTypeOK
<1>5. CASE UNCHANGED tcpVars
  <2>1. \A t \in Sessions : SameTurn(t)
    BY <1>5, TurnUntouched DEF tcpVars
  <2> QED BY <1>2, <1>4, <2>1, ClientTalks
<1>6. CASE /\ m_sockfd[c] # NoSock /\ ClientSends(m_sockfd[c], Bare("DISCONNECT"))
           /\ UNCHANGED wend
           /\ \/ s2c' = [s2c EXCEPT ![m_sockfd[c]] = << >>]
              \/ UNCHANGED s2c
  <2> DEFINE m == Bare("DISCONNECT")
  <2>1. PICK s \in Sessions :
        /\ s = m_sockfd[c] /\ s # NoSock /\ owner[s] = c /\ IdleTalk(s) /\ OneAt(s)
        /\ ExpectedAt(s) /\ TurnAt(s)
    BY <1>1, <1>6, SocketFacts DEF TalkOf, TurnAt
  <2>2. /\ \A t \in Sessions \ {s} : c2s'[t] = c2s[t]
        /\ Len(c2s'[s]) <= 1
        /\ c2s'[s] # << >> => Head(c2s'[s]) = m /\ wend[s] # "closed"
    BY <1>1, <1>6, <2>1, SentToWorker DEF IdleTalk, Quiet
  <2>3. /\ s2c'[s] = << >> /\ Len(<< >>) <= 1
        /\ \A t \in Sessions \ {s} : s2c'[t] = s2c[t]
    BY <1>1, <1>6, <2>1 DEF IdleTalk, Quiet, TcpTypeOK
  <2>4. wpc[s] \in {"none", "serve"} \cup Ended /\ (wpc[s] = "none" => wend[s] = "closed")
    BY <2>1 DEF IdleTalk, PastLogin
  <2>5. TurnAt(s)'
    <3>1. OneAt(s)'
      BY <1>3, <1>6, <2>1, <2>2, <2>3, <2>4 DEF OneAt, Working, Ended, Quiet
    <3>2. ExpectedAt(s)'
      BY <1>3, <1>6, <2>1, <2>2, <2>3, <2>4 DEF ExpectedAt, Ended
    <3> QED BY <3>1, <3>2 DEF TurnAt
  <2>6. \A t \in Sessions \ {s} : SameTurn(t)
    BY <1>6, <2>2, <2>3, TurnUntouched
  <2> QED BY <1>2, <1>4, <2>1, <2>5, <2>6, ClientTalks
<1> QED BY <1>5, <1>6 DEF destroy_connection

\* Every step of a client.
LEMMA ClientKeepsConversation ==
    ASSUME NEW c \in Clients, ~SignalsHandled, IInv, ClientsInv, ConversationInv,
           ClientMoves(c)
    PROVE  ConversationInv'
BY ConnectTalks, SilentTalks, ProcessEndTalks, CredentialTalks, VerdictTalks, CallTalks,
   AnswerArrives, GoodbyeTalks
   DEF ClientMoves, ClientStep, ClientProgress

\* The conversations are orderly in every reachable state.
LEMMA ConversationHolds ==
    ASSUME ~SignalsHandled
    PROVE  Spec => []ConversationInv
<1>1. Init => ConversationInv
  <2> SUFFICES ASSUME Init PROVE ConversationInv
    OBVIOUS
  <2>1. \A s \in Sessions : TurnAt(s)
    <3>1. Len(<< >>) <= 1
      OBVIOUS
    <3> QED BY <3>1 DEF Init, ServerInit, TcpInit, WorkerInit, TurnAt, OneAt, ExpectedAt, Quiet
  <2>2. \A c \in Clients : TalkOf(c)
    BY DEF Init, ConnectionInit, TalkOf
  <2> QED BY <2>1, <2>2 DEF ConversationInv
<1>2. SystemInv /\ ConversationInv /\ [Next]_vars => ConversationInv'
  <2> SUFFICES ASSUME SystemInv, ConversationInv, [Next]_vars PROVE ConversationInv'
    OBVIOUS
  <2>1. ASSUME NEW s \in Sessions, WorkerMoves(s) PROVE ConversationInv'
    BY <2>1, WorkerKeepsConversation DEF SystemInv
  <2>2. ASSUME NEW c \in Clients, ClientMoves(c) PROVE ConversationInv'
    BY <2>2, ClientKeepsConversation DEF SystemInv
  <2>3. CASE ListenerStep /\ UNCHANGED connectionVars
    BY <2>3, AcceptOrRefuseTalks, StopTalks DEF SystemInv, ListenerStep
  <2>4. CASE UNCHANGED vars
    <3>1. \A s \in Sessions : SameTurn(s)
      BY <2>4, TurnUntouched DEF vars, serverVars, tcpVars
    <3>2. \A c \in Clients : SameClient(c)
      BY <2>4 DEF vars, connectionVars, SameClient
    <3>3. \A c \in Clients : m_sockfd[c] # NoSock => m_sockfd[c] \in Sessions
      BY DEF SystemInv, ClientsInv, ConnectionTypeOK
    <3> QED BY <3>1, <3>2, <3>3, TurnKept, TalkKept DEF ConversationInv
  <2> QED BY <2>1, <2>2, <2>3, <2>4 DEF Next
<1> QED BY <1>1, <1>2, SystemInvHolds, PTL DEF Spec

\* Where no signal handler interrupts recv, clients and workers take turns: at most
\* one message is on its way in the connection of a client, and none while its
\* application is at work, whatever crashes, fails or connects again (README.md:86).
THEOREM TurnsAreTaken ==
    ASSUME ~SignalsHandled
    PROVE  Spec => []OneMessageAtATime
<1>1. SystemInv /\ ConversationInv => OneMessageAtATime
  <2> SUFFICES ASSUME SystemInv, ConversationInv, NEW c \in Clients,
                      m_sockfd[c] # NoSock
               PROVE  /\ Len(c2s[m_sockfd[c]]) + Len(s2c[m_sockfd[c]]) <= 1
                      /\ cpc[c] = "idle" => Quiet(m_sockfd[c])
    BY DEF OneMessageAtATime, Sock, Quiet
  <2>1. m_sockfd[c] \in Sessions
    BY DEF SystemInv, ClientsInv, ConnectionTypeOK
  <2>2. OneAt(m_sockfd[c]) /\ TcpTypeOK
    BY <2>1 DEF SystemInv, IInv, ServerTypeOK, ConversationInv, TurnAt
  <2>3. \A p, q \in Seq(MSG) : Len(p) <= 1 /\ Len(q) <= 1 /\ (p = << >> \/ q = << >>)
           => Len(p) + Len(q) <= 1
    BY LenProperties, EmptySeq
  <2>4. Len(c2s[m_sockfd[c]]) + Len(s2c[m_sockfd[c]]) <= 1
    BY <2>1, <2>2, <2>3 DEF OneAt, TcpTypeOK
  <2> QED BY <2>4 DEF ConversationInv, TalkOf, IdleTalk
<1> QED BY <1>1, ConversationHolds, SystemInvHolds, PTL

\* Where no signal handler interrupts recv, the answer that a call finds is always
\* of the type it expects, because it is the answer to that call (README.md:269-276).
THEOREM AnswersAreMatched ==
    ASSUME ~SignalsHandled
    PROVE  Spec => []AnswersMatchCalls
<1>1. SystemInv /\ ConversationInv => AnswersMatchCalls
  <2> SUFFICES ASSUME SystemInv, ConversationInv, NEW c \in Clients, cpc[c] = "call",
                      s2c[m_sockfd[c]] # << >>
               PROVE  Head(s2c[m_sockfd[c]]).code = ResultCode(call[c].code)
    BY DEF AnswersMatchCalls, Sock
  <2>1. m_sockfd[c] \in Sessions /\ OneAt(m_sockfd[c]) /\ CallTalk(c, m_sockfd[c])
    BY SocketFacts DEF SystemInv, TalkOf, Living, Waiting
  <2> QED BY <2>1 DEF OneAt, CallTalk, PastLogin, Quiet, Working, Ended
<1> QED BY <1>1, ConversationHolds, SystemInvHolds, PTL

\* Where no signal handler interrupts recv, the interface of the library allows
\* only correct communication: no worker ends over a wrong message (README.md:282).
THEOREM CommunicationIsCorrect ==
    ASSUME ~SignalsHandled
    PROVE  Spec => []OnlyCorrectCommunication
<1>1. ConversationInv => OnlyCorrectCommunication
  BY DEF ConversationInv, TurnAt, ExpectedAt, OnlyCorrectCommunication
<1> QED BY <1>1, ConversationHolds, PTL

-----------------------------------------------------------------------------
(* What the answers to a client are good for: a descriptor that open has   *)
(* returned is known to the worker, and a lock that flock has given        *)
(* excludes every other client.  An answer is true when the worker makes   *)
(* it (AnswerAt), on its way, and until the next call (AnswerOf), because  *)
(* the worker waits until then.                                            *)

\* What an answer says of the worker: the descriptor that open has returned is
\* in its map, and the file that flock was asked to lock is locked so.
Holds(s, r, m) ==
    /\ r.code = "REQUEST_OPEN" /\ m.value >= 0 /\ (m.value # 0 \/ 0 \in Inherited) =>
          m.value \in Mapped(s)
    /\ r.code = "REQUEST_FLOCK" /\ m.value = 0 /\ is_descriptor_in_map(s, ToInt(r.fd)) =>
          fdt[s][descriptor_map[s][ToInt(r.fd)]].lock = r.operation

AnswerAt(s) == wpc[s] = "reply" => Holds(s, request[s], response[s])
AnswerOf(c) ==
    m_sockfd[c] # NoSock /\ wpc[m_sockfd[c]] = "serve" =>
        /\ cpc[c] = "call" /\ s2c[m_sockfd[c]] # << >> =>
              Holds(m_sockfd[c], call[c], Head(s2c[m_sockfd[c]]))
        /\ cpc[c] = "idle" /\ ret[c].code \in RequestCodes =>
              Holds(m_sockfd[c], ret[c].request, ret[c])

\* A call was one of the library, and one that has succeeded had a socket, and has it
\* still.
SuccessOf(c) ==
    cpc[c] = "idle" /\ ret[c].code \in RequestCodes =>
        /\ ret[c].request.code = ret[c].code /\ ret[c].request \in Calls
        /\ ret[c].value >= 0 => m_sockfd[c] # NoSock

AnswersInv == /\ \A s \in Sessions : AnswerAt(s)
              /\ \A c \in Clients : AnswerOf(c) /\ SuccessOf(c)

-----------------------------------------------------------------------------
(* The answers of a worker.                                                *)

\* What an answer says stays true while files and map stay as they are.
LEMMA HoldsKept ==
    ASSUME NEW s \in Sessions, NEW r, NEW m, Holds(s, r, m), fdt'[s] = fdt[s],
           descriptor_map'[s] = descriptor_map[s]
    PROVE  Holds(s, r, m)'
BY DEF Holds, Mapped, is_descriptor_in_map

\* A failure says nothing, and neither does the answer to any other request.
LEMMA SaysNothing ==
    ASSUME NEW s \in Sessions, NEW r, NEW m,
           \/ m.value = -1
           \/ r.code \notin {"REQUEST_OPEN", "REQUEST_FLOCK"}
    PROVE  Holds(s, r, m)'
BY DEF Holds

\* The answer that a handler makes, and the request it is for.
LEMMA AnswerMade ==
    ASSUME NEW s \in Sessions, WorkerTypeOK, NEW value, NEW errno, NEW data,
           Answer(s, value, errno, data)
    PROVE  response'[s].value = value /\ request'[s] = request[s]
BY DEF Answer, WorkerTypeOK

\* An open that succeeds returns an entry of the map (handle_request_open).
LEMMA OpenAnswers ==
    ASSUME NEW s \in Sessions, IInv, 0 \in Inherited => InputAt(s),
           handle_request_open(s), wpc'[s] = "reply"
    PROVE  Holds(s, request[s], response[s])'
<1>1. /\ WorkerTypeOK /\ wpc[s] = "handle" /\ request[s].code = "REQUEST_OPEN"
  BY DEF IInv, ServerTypeOK, handle_request_open, Handles
<1>2. CASE \E errno, data : Answer(s, -1, errno, data)
  BY <1>1, <1>2, AnswerMade, SaysNothing
<1>3. ASSUME NEW fd \in Fds, fd > 0, next_descriptor[s] \in Descriptors,
             add_descriptor_to_map(s, fd), Answer(s, next_descriptor[s], "0", << >>)
      PROVE  Holds(s, request[s], response[s])'
  <2>1. response'[s].value = next_descriptor[s] /\ request'[s].code = "REQUEST_OPEN"
    BY <1>1, <1>3, AnswerMade
  <2>2. fd # NoFd
    BY <1>3 DEF NoFd, Fds
  <2>3. next_descriptor[s] \in Mapped(s)'
    BY <1>1, <1>3, <2>2 DEF add_descriptor_to_map, WorkerTypeOK, Mapped
  <2> QED BY <2>1, <2>3 DEF Holds
<1>4. ASSUME NEW fd \in Fds, IsFree(s, fd), ~(fd > 0), Answer(s, fd, "stale", << >>)
      PROVE  Holds(s, request[s], response[s])'
  <2>1. fd = 0
    BY <1>4, KernelAssumption DEF Fds
  <2>2. 0 \notin Inherited
    BY <1>1, <1>4, <2>1 DEF InputAt, IsFree
  <2>3. response'[s].value = 0 /\ request'[s].code = "REQUEST_OPEN"
    BY <1>1, <1>4, <2>1, AnswerMade
  <2> QED BY <2>2, <2>3 DEF Holds
<1>5. ~Abandon(s, "-1")
  BY <1>1 DEF Abandon, Returns, WorkerTypeOK
<1> QED BY <1>2, <1>3, <1>4, <1>5 DEF handle_request_open, SysOpen, LowestFree

\* A lock that is given is held (handle_request_flock).
LEMMA LockHeld ==
    ASSUME NEW s \in Sessions, IInv, Usable(s, {}), request[s].code = "REQUEST_FLOCK",
           NEW mode, mode = request[s].operation, SetLock(s, Target(s), mode),
           UNCHANGED mapVars, NEW value, NEW errno, NEW data, Answer(s, value, errno, data)
    PROVE  Holds(s, request[s], response[s])'
<1>1. Target(s) \in Fds /\ fdt \in [Sessions -> [Fds -> Slot]]
  BY TargetType DEF IInv, ServerTypeOK, KernelTypeOK
<1>2. fdt'[s][Target(s)].lock = mode
  <2>1. fdt'[s][Target(s)] = [fdt[s][Target(s)] EXCEPT !.lock = mode]
    BY <1>1 DEF SetLock
  <2>2. fdt[s][Target(s)] \in Slot
    BY <1>1
  <2> QED BY <2>1, <2>2 DEF Slot
<1>3. request'[s] = request[s] /\ UNCHANGED descriptor_map
  BY AnswerMade DEF IInv, ServerTypeOK, mapVars
<1> QED BY <1>2, <1>3 DEF Holds, Target, ClientFd, get_descriptor_from_map

\* Every answer is true when it is made (handle_requests).
LEMMA HandlersAnswer ==
    ASSUME NEW s \in Sessions, IInv, 0 \in Inherited => InputAt(s), handle_request(s),
           wpc'[s] = "reply"
    PROVE  Holds(s, request[s], response[s])'
<1>1. WorkerTypeOK
  BY DEF IInv, ServerTypeOK
<1>2. ASSUME \E value, errno, data : Answer(s, value, errno, data),
             request[s].code \notin {"REQUEST_OPEN", "REQUEST_FLOCK"}
      PROVE  Holds(s, request[s], response[s])'
  BY <1>1, <1>2, AnswerMade, SaysNothing
<1>3. CASE \/ handle_request_close(s) \/ handle_request_write(s) \/ handle_request_lseek(s)
           \/ handle_request_fstat(s)
  <2>1. request[s].code \notin {"REQUEST_OPEN", "REQUEST_FLOCK"}
    BY <1>3 DEF handle_request_close, handle_request_write, handle_request_lseek,
                handle_request_fstat, Handles
  <2>2. \E value, errno, data : Answer(s, value, errno, data)
    BY <1>3 DEF handle_request_close, handle_request_write, handle_request_lseek,
                handle_request_fstat, AnswerEBADF
  <2> QED BY <1>2, <2>1, <2>2
<1>4. ~Abandon(s, "-1") /\ ~Abandon(s, "0") /\ ~Abandon(s, "EBADMSG") /\ ~Dies(s, "killed")
  BY <1>1 DEF Abandon, Returns, Dies, WorkerTypeOK
<1>5. CASE handle_request_unlink(s) \/ handle_request_read(s)
  <2>1. request[s].code \notin {"REQUEST_OPEN", "REQUEST_FLOCK"}
    BY <1>5 DEF handle_request_unlink, handle_request_read, Handles
  <2>2. \E value, errno, data : Answer(s, value, errno, data)
    BY <1>4, <1>5 DEF handle_request_unlink, handle_request_read
  <2> QED BY <1>2, <2>1, <2>2
<1>6. CASE handle_request_flock(s)
  <2>1. request[s].code = "REQUEST_FLOCK"
    BY <1>6 DEF handle_request_flock, Handles
  <2>2. CASE AnswerEBADF(s)
    BY <1>1, <2>2, AnswerMade, SaysNothing DEF AnswerEBADF
  <2>3. CASE /\ Usable(s, {}) /\ SetLock(s, Target(s), request[s].operation)
             /\ Answer(s, 0, "0", << >>) /\ UNCHANGED mapVars
    BY <2>1, <2>3, LockHeld
  <2>4. ~Goto(s, "flock")
    BY <1>1 DEF Goto, WorkerTypeOK
  <2> QED BY <1>6, <2>2, <2>3, <2>4 DEF handle_request_flock
<1>7. CASE flock_ends(s)
  <2>1. request[s].code = "REQUEST_FLOCK" /\ Usable(s, {})
    BY <1>7 DEF flock_ends, IInv, SessionInv, MessagesAt
  <2>2. CASE Answer(s, -1, "EWOULDBLOCK", << >>)
    BY <1>1, <2>2, AnswerMade, SaysNothing
  <2>3. CASE /\ SetLock(s, Target(s), request[s].operation)
             /\ Answer(s, 0, "0", << >>) /\ UNCHANGED mapVars
    BY <2>1, <2>3, LockHeld
  <2> QED BY <1>7, <2>2, <2>3 DEF flock_ends
<1> QED BY <1>3, <1>4, <1>5, <1>6, <1>7, OpenAnswers
        DEF handle_request, handle_disconnect, reject_message

\* The stages in which a worker has an answer, and waits for a request.
LEMMA WorkerReaches ==
    ASSUME NEW s \in Sessions, IInv, WorkerStep(s)
    PROVE  /\ wpc'[s] = "reply" => handle_request(s)
           /\ wpc'[s] = "serve" => send_verdict(s) \/ send_result(s)
<1>1. WorkerTypeOK
  BY DEF IInv, ServerTypeOK
<1>2. CASE ask_info(s) \/ receive_info(s) \/ select(s) \/ receive_request(s)
           \/ receive_fails(s) \/ destroy(s) \/ exit_process(s)
  BY <1>1, <1>2 DEF ask_info, receive_info, select, receive_request, receive_fails,
                    destroy, exit_process, SendThen, Goto, Returns, Dies, WorkerTypeOK
<1>3. CASE send_verdict(s) \/ send_result(s)
  <2>1. wpc'[s] # "reply"
    BY <1>1, <1>3 DEF send_verdict, send_result, Goto, Returns, Dies, WorkerTypeOK
  <2> QED BY <1>3, <2>1
<1>4. CASE handle_request(s)
  <2>1. wpc'[s] # "serve"
    BY <1>1, <1>4
       DEF handle_request, handle_request_open, handle_request_close,
           handle_request_read, handle_request_write, handle_request_lseek,
           handle_request_fstat, handle_request_unlink, handle_request_flock,
           flock_ends, handle_disconnect, reject_message, Answer, AnswerEBADF,
           Abandon, Goto, Returns, Dies, WorkerTypeOK
  <2> QED BY <1>4, <2>1
<1> QED BY <1>2, <1>3, <1>4 DEF WorkerStep, authenticate

\* What a worker does to its own session is not about another.
LEMMA OthersKeepAnswers ==
    ASSUME NEW t \in Sessions, NEW c \in Clients, m_sockfd[c] = t, SameAt(t),
           s2c'[t] = s2c[t], UNCHANGED connectionVars, AnswerOf(c)
    PROVE  AnswerOf(c)'
<1>1. UNCHANGED <<cpc, m_sockfd, call, ret>>
  BY DEF connectionVars
<1>2. fdt'[t] = fdt[t] /\ descriptor_map'[t] = descriptor_map[t] /\ wpc'[t] = wpc[t]
  BY DEF SameAt, KeepsFiles
<1>3. \A r, m : Holds(t, r, m) => Holds(t, r, m)'
  BY <1>2, HoldsKept
<1> QED BY <1>1, <1>2, <1>3 DEF AnswerOf

\* A step of a worker keeps the answers true.
LEMMA WorkerKeepsAnswers ==
    ASSUME NEW s \in Sessions, IInv, ClientsInv, ConversationInv, AnswersInv,
           0 \in Inherited => LeakInv, WorkerMoves(s)
    PROVE  AnswersInv'
<1>1. /\ WorkerStep(s) /\ UNCHANGED connectionVars /\ StepOK(s)
      /\ UNCHANGED <<cpc, m_sockfd, call, ret>>
      /\ TcpTypeOK /\ WorkerTypeOK /\ ConnectionTypeOK /\ ExpectedAt(s) /\ OneAt(s)
  BY WorkerStepOK, TalkFacts DEF WorkerMoves, connectionVars, ClientsInv
<1>2. \A t \in Sessions \ {s} : SameAt(t) /\ s2c'[t] = s2c[t]
  BY <1>1, WorkerSends DEF StepOK, WorkerSend, TcpTypeOK
<1>3. ASSUME NEW t \in Sessions PROVE AnswerAt(t)'
  <2>1. CASE t = s
    <3>1. wpc'[s] = "reply" => Holds(s, request[s], response[s])'
      BY <1>1, WorkerReaches, HandlersAnswer DEF LeakInv
    <3> QED BY <2>1, <3>1 DEF AnswerAt
  <2>2. CASE t # s
    <3>1. /\ fdt'[t] = fdt[t] /\ descriptor_map'[t] = descriptor_map[t]
          /\ wpc'[t] = wpc[t] /\ request'[t] = request[t] /\ response'[t] = response[t]
      BY <1>2, <2>2 DEF SameAt, KeepsFiles
    <3>2. \A r, m : Holds(t, r, m) => Holds(t, r, m)'
      BY <3>1, HoldsKept
    <3> QED BY <3>1, <3>2 DEF AnswersInv, AnswerAt
  <2> QED BY <2>1, <2>2
<1>4. ASSUME NEW c \in Clients, m_sockfd[c] = s, cpc[c] \in {"call", "idle"},
             wpc'[s] = "serve", s # NoSock
      PROVE  send_result(s) /\ cpc[c] = "call" /\ request[s] = call[c]
  <2>1. TalkOf(c)
    BY DEF ConversationInv
  <2>2. ~send_verdict(s)
    BY <1>4, <2>1 DEF send_verdict, TalkOf, CallTalk, IdleTalk, PastLogin, Ended
  <2>3. send_result(s) /\ wpc[s] = "reply"
    BY <1>1, <1>4, <2>2, WorkerReaches DEF send_result
  <2> QED BY <1>4, <2>1, <2>3 DEF TalkOf, CallTalk, IdleTalk
<1>5. ASSUME send_result(s), NEW r, NEW m, r = request[s], m = Head(s2c'[s]),
             s2c'[s] # << >>
      PROVE  Holds(s, r, m)'
  <2>1. UNCHANGED <<fdt, descriptor_map>> /\ wpc[s] = "reply"
    BY <1>5 DEF send_result, mapVars
  <2>2. PICK outcome : WorkerSend(s, response[s], outcome)
    BY <1>5 DEF send_result
  <2>3. s2c[s] = << >>
    BY <1>1, <2>1 DEF OneAt, Working, Quiet
  <2>4. Head(s2c'[s]) = response[s]
    BY <1>1, <1>5, <2>2, <2>3, SentAlone
  <2>5. Holds(s, request[s], response[s])
    BY <2>1 DEF AnswersInv, AnswerAt
  <2> QED BY <1>5, <2>1, <2>4, <2>5, HoldsKept
<1>6. ASSUME NEW c \in Clients PROVE AnswerOf(c)'
  <2>1. CASE m_sockfd[c] = s
    <3>1. m_sockfd'[c] = s /\ cpc'[c] = cpc[c] /\ call'[c] = call[c]
      BY <1>1, <2>1
    <3>2. ASSUME wpc'[s] = "serve", s # NoSock, cpc[c] = "call", s2c'[s] # << >>,
                 NEW r, NEW m, r = call[c], m = Head(s2c'[s])
          PROVE  Holds(s, r, m)'
      <4>1. send_result(s) /\ request[s] = call[c]
        BY <1>4, <2>1, <3>2
      <4> QED BY <1>5, <3>2, <4>1
    <3>3. ~(wpc'[s] = "serve" /\ s # NoSock /\ cpc[c] = "idle")
      BY <1>4, <2>1
    <3> QED BY <3>1, <3>2, <3>3 DEF AnswerOf
  <2>2. CASE m_sockfd[c] \in Sessions \ {s}
    BY <1>1, <1>2, <2>2, OthersKeepAnswers DEF AnswersInv
  <2>3. CASE m_sockfd[c] = NoSock
    BY <1>1, <2>3 DEF AnswerOf
  <2> QED BY <1>1, <2>1, <2>2, <2>3 DEF ConnectionTypeOK
<1>7. \A c \in Clients : SuccessOf(c)'
  BY <1>1 DEF AnswersInv, SuccessOf
<1> QED BY <1>3, <1>6, <1>7 DEF AnswersInv

-----------------------------------------------------------------------------
(* What a client makes of them.                                            *)

\* A client leaves the results and the sockets of the others alone.
LEMMA ClientTouches ==
    ASSUME NEW c \in Clients, ClientsInv, TcpTypeOK, ClientMoves(c)
    PROVE  /\ ClientOK(c) /\ UNCHANGED <<fdt, descriptor_map, wpc, request, response>>
           /\ \A d \in Clients \ {c} : ret'[d] = ret[d]
           /\ \A t \in Sessions : cend[t] = "open" /\ owner[t] # c => s2c'[t] = s2c[t]
<1>1. ClientOK(c)
  BY ConnectOK, ConnectFailsOK, CredentialOK, VerdictOK, BeginCallOK, EndCallOK, LeavesOK
     DEF ClientMoves, Connects, ClientStep, ClientProgress
<1>2. UNCHANGED <<fdt, descriptor_map, wpc, request, response>>
  BY DEF ClientMoves, kernelVars, workerVars
<1>3. ConnectionTypeOK /\ ClientInv(c)
  BY DEF ClientsInv
<1>4. CASE Connects(c) \/ connect_fails(c) \/ crash(c)
  BY <1>1, <1>2, <1>3, <1>4 DEF Connects, connect, connect_fails, crash, ConnectionTypeOK,
                                tcpVars
<1>5. CASE send_credential(c) \/ receive_verdict(c)
  <2>1. \A d \in Clients \ {c} : ret'[d] = ret[d]
    BY <1>3, <1>5 DEF send_credential, receive_verdict, ConnectReturns, ConnectionTypeOK
  <2>2. m_sockfd[c] \in Sessions /\ owner[m_sockfd[c]] = c
    BY <1>3, <1>5 DEF send_credential, receive_verdict, ClientInv, SocketOf, Living,
                      Waiting, ConnectionTypeOK
  <2>3. ClientReceives(m_sockfd[c]) \/ UNCHANGED s2c
    BY <1>5 DEF send_credential, receive_verdict
  <2> QED BY <1>1, <1>2, <2>1, <2>2, <2>3 DEF ClientReceives, TcpTypeOK
<1>6. CASE end_call(c) \/ \E r \in Calls : begin_call(c, r)
  <2>1. \A d \in Clients \ {c} : ret'[d] = ret[d]
    BY <1>3, <1>6 DEF end_call, begin_call, CallFails, CallReturns, ConnectionTypeOK
  <2>2. CASE end_call(c)
    <3>1. m_sockfd[c] \in Sessions /\ owner[m_sockfd[c]] = c
      BY <1>3, <2>2 DEF end_call, ClientInv, SocketOf, Living, Waiting, ConnectionTypeOK
    <3>2. ClientReceives(m_sockfd[c]) \/ UNCHANGED s2c
      BY <2>2 DEF end_call
    <3> QED BY <1>1, <1>2, <2>1, <3>1, <3>2 DEF ClientReceives, TcpTypeOK
  <2>3. CASE \E r \in Calls : begin_call(c, r)
    BY <1>1, <1>2, <2>1, <2>3 DEF begin_call
  <2> QED BY <1>6, <2>2, <2>3
<1>7. CASE destroy_connection(c)
  <2>1. \A d \in Clients \ {c} : ret'[d] = ret[d]
    BY <1>3, <1>7 DEF destroy_connection, ConnectionTypeOK
  <2>2. m_sockfd[c] # NoSock => m_sockfd[c] \in Sessions /\ owner[m_sockfd[c]] = c
    BY <1>3, <1>7 DEF destroy_connection, ClientInv, SocketOf, Living, ConnectionTypeOK
  <2>3. \A t \in Sessions : owner[t] # c => s2c'[t] = s2c[t]
    BY <1>7, <2>2 DEF destroy_connection, TcpTypeOK, tcpVars
  <2> QED BY <1>1, <1>2, <2>1, <2>3
<1>8. CASE end_process(c)
  BY <1>1, <1>2, <1>3, <1>8 DEF end_process, ConnectionTypeOK
<1> QED BY <1>4, <1>5, <1>6, <1>7, <1>8 DEF ClientMoves, ClientStep, ClientProgress

\* Where a call of client c leaves c, its result is true.
LEMMA CallResults ==
    ASSUME NEW c \in Clients, IInv, ClientsInv, ConversationInv, AnswersInv, end_call(c),
           UNCHANGED <<fdt, descriptor_map, wpc>>
    PROVE  AnswerOf(c)' /\ SuccessOf(c)'
<1> DEFINE m == Head(s2c[m_sockfd[c]])
<1>1. cpc[c] = "call" /\ cpc[c] \in Living /\ UNCHANGED m_sockfd /\ ConnectionTypeOK
  BY DEF end_call, Living, Waiting, ClientsInv
<1>2. PICK s \in Sessions : s = m_sockfd[c] /\ s # NoSock /\ TalkOf(c) /\ OneAt(s)
  BY <1>1, SocketFacts
<1>3. PICK r \in Calls : r = call[c] /\ r.code \in RequestCodes
  BY <1>1, RequestCode, ConnectionAssumption DEF ClientsInv, ClientInv, ArgumentsOf
<1>4. ASSUME NEW value, NEW data, CallReturns(c, r, value, data),
             \A k : k.value = value => (wpc[s] = "serve" => Holds(s, r, k)')
      PROVE  AnswerOf(c)' /\ SuccessOf(c)'
  <2>1. /\ cpc'[c] = "idle" /\ ret'[c].code = r.code /\ ret'[c].request = r
        /\ ret'[c].value = value
    BY <1>1, <1>4 DEF CallReturns, ConnectionTypeOK
  <2>2. SuccessOf(c)'
    BY <1>1, <1>2, <1>3, <2>1 DEF SuccessOf
  <2>3. \A k : k = ret'[c] => (wpc[s] = "serve" => Holds(s, r, k)')
    BY <1>4, <2>1
  <2>4. AnswerOf(c)'
    BY <1>1, <1>2, <2>1, <2>3 DEF AnswerOf
  <2> QED BY <2>2, <2>4
<1>5. ASSUME NEW errno, CallFails(c, r, errno) PROVE AnswerOf(c)' /\ SuccessOf(c)'
  BY <1>4, <1>5, SaysNothing DEF CallFails
<1>6. ASSUME ClientReceives(s), ~Failed(r.code, m.value),
             CallReturns(c, r, ReturnValue(r.code, m.value), m.data)
      PROVE  AnswerOf(c)' /\ SuccessOf(c)'
  <2>1. wpc[s] = "serve" => Holds(s, r, m)
    BY <1>1, <1>2, <1>3, <1>6 DEF AnswersInv, AnswerOf, ClientReceives
  <2> HIDE DEF m
  <2>2. ASSUME NEW k, k.value = ReturnValue(r.code, m.value), wpc[s] = "serve"
        PROVE  Holds(s, r, k)'
    <3>1. r.code = "REQUEST_OPEN" => k.value = m.value
      BY <2>2 DEF ReturnValue
    <3>2. r.code = "REQUEST_FLOCK" => m.value = 0
      BY <1>6 DEF Failed
    <3>3. Holds(s, r, k)
      BY <2>1, <2>2, <3>1, <3>2 DEF Holds
    <3> QED BY <3>3, HoldsKept
  <2> QED BY <1>4, <1>6, <2>2
<1> QED BY <1>2, <1>3, <1>5, <1>6 DEF end_call

\* A step of a client keeps the answers true.
LEMMA ClientKeepsAnswers ==
    ASSUME NEW c \in Clients, IInv, ClientsInv, ConversationInv, AnswersInv,
           ClientMoves(c)
    PROVE  AnswersInv'
<1>1. /\ TcpTypeOK /\ ConnectionTypeOK
      /\ ClientOK(c) /\ UNCHANGED <<fdt, descriptor_map, wpc, request, response>>
      /\ \A d \in Clients \ {c} : ret'[d] = ret[d]
      /\ \A t \in Sessions : cend[t] = "open" /\ owner[t] # c => s2c'[t] = s2c[t]
  BY ClientTouches DEF IInv, ServerTypeOK, ClientsInv
<1>2. \A s \in Sessions : \A r, m : Holds(s, r, m) => Holds(s, r, m)'
  BY <1>1, HoldsKept
<1>3. \A s \in Sessions : AnswerAt(s)'
  BY <1>1, <1>2 DEF AnswersInv, AnswerAt
<1>4. ASSUME NEW d \in Clients \ {c} PROVE AnswerOf(d)' /\ SuccessOf(d)'
  <2>1. SameClient(d) /\ AnswerOf(d) /\ SuccessOf(d) /\ ret'[d] = ret[d]
    BY <1>1 DEF ClientOK, AnswersInv
  <2>2. SuccessOf(d)'
    BY <2>1 DEF SuccessOf, SameClient
  <2>3. CASE m_sockfd[d] # NoSock /\ cpc[d] \in {"call", "idle"}
    <3>1. m_sockfd[d] \in Sessions /\ s2c'[m_sockfd[d]] = s2c[m_sockfd[d]]
      BY <1>1, <2>3 DEF ConnectionTypeOK, ClientsInv, ClientInv, SocketOf, Living, Waiting
    <3> QED BY <1>1, <1>2, <2>1, <2>2, <3>1 DEF AnswerOf, SameClient
  <2>4. CASE ~(m_sockfd[d] # NoSock /\ cpc[d] \in {"call", "idle"})
    BY <2>1, <2>2, <2>4 DEF AnswerOf, SameClient
  <2> QED BY <2>3, <2>4
<1>5. CASE end_call(c)
  BY <1>1, <1>3, <1>4, <1>5, CallResults DEF AnswersInv
<1>6. ASSUME \/ cpc'[c] \notin {"call", "idle"}
             \/ cpc'[c] = "idle" /\ ret'[c].code = "CONNECT"
      PROVE  AnswersInv'
  BY <1>3, <1>4, <1>6 DEF AnswersInv, AnswerOf, SuccessOf, RequestCodes
<1>7. CASE Connects(c) \/ crash(c) \/ destroy_connection(c) \/ end_process(c)
  BY <1>1, <1>6, <1>7 DEF Connects, connect, crash, destroy_connection, end_process,
                          ConnectionTypeOK
<1>8. CASE connect_fails(c) \/ send_credential(c) \/ receive_verdict(c)
  <2>1. cpc'[c] \in {"idle", "login", "verdict", "sigpipe"}
        /\ (cpc'[c] = "idle" => ret'[c].code = "CONNECT")
    BY <1>1, <1>8 DEF connect_fails, send_credential, receive_verdict, ConnectReturns,
                      ConnectionTypeOK
  <2> QED BY <1>6, <2>1
<1>9. ASSUME NEW r \in Calls, begin_call(c, r) PROVE AnswersInv'
  <2>1. UNCHANGED m_sockfd /\ UNCHANGED s2c /\ cpc[c] = "idle" /\ cpc[c] \in Living
    BY <1>9 DEF begin_call, Living
  <2>2. CASE cpc'[c] = "call" /\ m_sockfd[c] # NoSock
    <3>1. s2c[m_sockfd[c]] = << >>
      BY <2>1, <2>2 DEF ConversationInv, TalkOf, IdleTalk, Quiet
    <3> QED BY <1>3, <1>4, <2>1, <2>2, <3>1 DEF AnswersInv, AnswerOf, SuccessOf
  <2>3. ASSUME NEW errno, CallFails(c, r, errno) PROVE AnswersInv'
    <3>1. /\ cpc'[c] = "idle" /\ ret'[c].value = -1 /\ ret'[c].request = r
          /\ ret'[c].code = r.code
      BY <1>1, <2>3 DEF CallFails, CallReturns, ConnectionTypeOK
    <3>2. \A k : k = ret'[c] => \A s \in Sessions : Holds(s, r, k)'
      BY <3>1, SaysNothing
    <3>3. AnswerOf(c)' /\ SuccessOf(c)'
      BY <1>1, <2>1, <3>1, <3>2 DEF AnswerOf, SuccessOf, ConnectionTypeOK
    <3> QED BY <1>3, <1>4, <3>3 DEF AnswersInv
  <2>4. CASE cpc' = [cpc EXCEPT ![c] = "sigpipe"]
    BY <1>1, <1>6, <2>4 DEF ConnectionTypeOK
  <2> QED BY <1>1, <1>9, <2>2, <2>3, <2>4 DEF begin_call, ConnectionTypeOK
<1> QED BY <1>5, <1>7, <1>8, <1>9 DEF ClientMoves, ClientStep, ClientProgress

\* A step of the listener concerns no worker that has begun (listen_for_connections).
LEMMA ListenerKeepsAnswers ==
    ASSUME IInv, ClientsInv, AnswersInv, ListenerStep \/ UNCHANGED serverVars,
           UNCHANGED connectionVars
    PROVE  AnswersInv'
<1>1. /\ UNCHANGED <<s2c, request, response, descriptor_map>>
      /\ UNCHANGED <<cpc, m_sockfd, call, ret>>
      /\ ConnectionTypeOK /\ WorkerTypeOK /\ fdt \in [Sessions -> [Fds -> Slot]]
  BY DEF ListenerStep, accept_fails, accept_and_fork, fork_fails, WorkerCloses, workerVars,
         messageVars, mapVars, serverVars, tcpVars, connectionVars, IInv, ServerTypeOK,
         ClientsInv, KernelTypeOK
<1>2. ASSUME NEW s \in Sessions
      PROVE  (wpc'[s] = wpc[s] /\ fdt'[s] = fdt[s]) \/ wpc'[s] = "ask"
  BY <1>1, <1>2 DEF ListenerStep, accept_fails, accept_and_fork, fork_fails, Goto, kernelVars,
              workerVars, WorkerTypeOK, serverVars
<1>3. ASSUME NEW s \in Sessions, wpc'[s] # "ask" PROVE \A r, m : Holds(s, r, m) => Holds(s, r, m)'
  BY <1>1, <1>2, <1>3, HoldsKept
<1>4. \A s \in Sessions : AnswerAt(s)'
  BY <1>1, <1>2, <1>3 DEF AnswersInv, AnswerAt
<1>5. ASSUME NEW c \in Clients PROVE AnswerOf(c)' /\ SuccessOf(c)'
  <2>1. m_sockfd[c] # NoSock => m_sockfd[c] \in Sessions
    BY <1>1 DEF ConnectionTypeOK
  <2> QED BY <1>1, <1>2, <1>3, <2>1 DEF AnswersInv, AnswerOf, SuccessOf
<1> QED BY <1>4, <1>5 DEF AnswersInv

\* Answers are true in every reachable state.
LEMMA AnswersHold ==
    ASSUME ~SignalsHandled
    PROVE  Spec => []AnswersInv
<1>1. Init => AnswersInv
  BY DEF Init, ConnectionInit, ServerInit, WorkerInit, AnswersInv, AnswerAt, AnswerOf,
         SuccessOf, NoReturn, RequestCodes
<1>2. SystemInv /\ ConversationInv /\ (0 \in Inherited => LeakInv) /\ AnswersInv
        /\ [Next]_vars => AnswersInv'
  <2> SUFFICES ASSUME SystemInv, ConversationInv, 0 \in Inherited => LeakInv, AnswersInv,
                      [Next]_vars
               PROVE  AnswersInv'
    OBVIOUS
  <2>1. ASSUME NEW s \in Sessions, WorkerMoves(s) PROVE AnswersInv'
    BY <2>1, WorkerKeepsAnswers DEF SystemInv
  <2>2. ASSUME NEW c \in Clients, ClientMoves(c) PROVE AnswersInv'
    BY <2>2, ClientKeepsAnswers DEF SystemInv
  <2>3. CASE UNCHANGED vars \/ (ListenerStep /\ UNCHANGED connectionVars)
    BY <2>3, ListenerKeepsAnswers DEF SystemInv, vars
  <2> QED BY <2>1, <2>2, <2>3 DEF Next
<1>3. Spec => [](0 \in Inherited => LeakInv)
  <2>1. CASE 0 \in Inherited
    <3>1. LeakInv => (0 \in Inherited => LeakInv)
      OBVIOUS
    <3>2. Spec => []LeakInv
      BY <2>1, LeakInvHolds, SystemImplementsServer DEF ImplementsServer
    <3> QED BY <3>1, <3>2, PTL
  <2>2. CASE 0 \notin Inherited
    <3>1. 0 \in Inherited => LeakInv
      BY <2>2
    <3> QED BY <3>1, PTL
  <2> QED BY <2>1, <2>2
<1> QED BY <1>1, <1>2, <1>3, SystemInvHolds, ConversationHolds, PTL DEF Spec

\* What open returns as a descriptor is one that the worker knows, where no signal
\* handler interrupts recv and the server runs with its standard input open, so that
\* open(2) does not return 0 (NFSConnection.hpp:58, NFSServerWorker.cpp:267).
THEOREM DescriptorsAreKnown ==
    ASSUME ~SignalsHandled, 0 \in Inherited
    PROVE  Spec => []OpenReturnsDescriptor
<1>1. SystemInv /\ AnswersInv => OpenReturnsDescriptor
  <2> SUFFICES ASSUME SystemInv, AnswersInv, NEW c \in Clients, cpc[c] = "idle",
                      ret[c].code = "REQUEST_OPEN", ret[c].value >= 0,
                      wpc[m_sockfd[c]] = "serve"
               PROVE  ret[c].value \in Mapped(m_sockfd[c])
    BY DEF OpenReturnsDescriptor, HasReturned, Sock
  <2>1. m_sockfd[c] # NoSock /\ ret[c].request.code = "REQUEST_OPEN"
    BY DEF AnswersInv, SuccessOf, RequestCodes
  <2>2. Holds(m_sockfd[c], ret[c].request, ret[c])
    BY <2>1 DEF AnswersInv, AnswerOf, RequestCodes
  <2> QED BY <2>1, <2>2 DEF Holds
<1> QED BY <1>1, AnswersHold, SystemInvHolds, PTL

-----------------------------------------------------------------------------
(* Locks.                                                                  *)

\* What each step of a worker does to its locks.
LEMMA WorkerLocks ==
    ASSUME NEW s \in Sessions, IInv, WorkerStep(s)
    PROVE  WeakensLocks(s) \/ TakesLock(s)
<1>1. KernelTypeOK /\ IInv
  BY DEF IInv, ServerTypeOK
<1>2. ASSUME UNCHANGED fdt PROVE WeakensLocks(s)
  BY <1>2 DEF WeakensLocks, IsFile
<1>3. CASE authenticate(s) \/ receive_request(s) \/ send_result(s) \/ receive_fails(s)
  BY <1>2, <1>3 DEF authenticate, ask_info, receive_info, select, send_verdict,
                    receive_request, send_result, receive_fails, kernelVars
<1>4. CASE destroy(s) \/ exit_process(s)
  BY <1>1, <1>4, CloseWeakens DEF destroy, exit_process
<1>5. CASE handle_request_open(s)
  BY <1>1, <1>2, <1>5, TargetType, OpenWeakens DEF handle_request_open, Abandon, kernelVars, SysOpen
<1>6. CASE handle_request_close(s)
  BY <1>1, <1>2, <1>6, CloseWeakens DEF handle_request_close, AnswerEBADF, kernelVars
<1>7. CASE handle_request_read(s)
  BY <1>1, <1>2, <1>7, TargetType, PositionWeakens
     DEF handle_request_read, Readable, SysRead, kernelVars
<1>8. CASE handle_request_write(s)
  BY <1>1, <1>2, <1>8, TargetType, PositionWeakens
     DEF handle_request_write, AnswerEBADF, SysWrite, kernelVars
<1>9. CASE handle_request_lseek(s)
  BY <1>1, <1>2, <1>9, TargetType, PositionWeakens
     DEF handle_request_lseek, AnswerEBADF, SysLseek, kernelVars
<1>10. CASE \/ handle_request_fstat(s) \/ handle_request_unlink(s)
            \/ handle_disconnect(s) \/ reject_message(s)
  BY <1>2, <1>10 DEF handle_request_fstat, handle_request_unlink, handle_disconnect,
                     reject_message, AnswerEBADF, Abandon, SysUnlink, kernelVars
<1>11. CASE handle_request_flock(s)
  <2>1. CASE AnswerEBADF(s)
    BY <1>2, <2>1 DEF AnswerEBADF, kernelVars
  <2>2. CASE Usable(s, {}) /\ SetLock(s, Target(s), "UN")
    BY <1>1, <2>2, TargetType, LockWeakens DEF SetLock, Usable
  <2>3. CASE Usable(s, {}) /\ SetLock(s, Target(s), fdt[s][Target(s)].lock)
    BY <1>1, <2>3, TargetType, LockWeakens DEF SetLock, Usable
  <2> QED BY <1>11, <2>1, <2>2, <2>3 DEF handle_request_flock
<1>12. CASE flock_ends(s)
  <2>1. Usable(s, {}) /\ request[s] \in MSG /\ request[s].code = "REQUEST_FLOCK"
    BY <1>12 DEF flock_ends, IInv, SessionInv, MessagesAt
  <2>2. Target(s) \in Fds /\ IsFile(s, Target(s)) /\ request[s].operation \in LockModes
    BY <2>1, TargetType, MessageFields
  <2> QED BY <1>2, <1>12, <2>2 DEF flock_ends, TakesLock, SetLock, kernelVars
<1> QED BY <1>3, <1>4, <1>5, <1>6, <1>7, <1>8, <1>9, <1>10, <1>11, <1>12
        DEF WorkerStep, handle_request

\* No two locks of a file conflict, whatever clients send (flock(2)).
LEMMA LocksHold == ServerSpec => []LocksInv
<1>1. ServerInit => LocksInv
  BY DEF ServerInit, KernelInit, NoTable, FreeSlot, EmptySlot, LocksInv, IsFile
<1>2. IInv /\ LocksInv /\ [ServerNext]_serverVars => LocksInv'
  <2> SUFFICES ASSUME IInv, LocksInv, [ServerNext]_serverVars PROVE LocksInv'
    OBVIOUS
  <2>1. CASE UNCHANGED fdt
    BY <2>1 DEF LocksInv, IsFile
  <2>2. ASSUME NEW s \in Sessions, WorkerStep(s), UNCHANGED lpc PROVE LocksInv'
    <3>1. \A t \in Sessions \ {s} : fdt'[t] = fdt[t]
      BY <2>2, WorkerStepOK DEF StepOK, SameAt
    <3> QED BY <2>2, <3>1, WorkerLocks, WeakerLocks, LockTaken DEF IInv, ServerTypeOK
  <2>3. ASSUME NEW s \in Sessions, accept_and_fork(s) PROVE LocksInv'
    <3>1. fdt'[s] = BornTable /\ \A t \in Sessions \ {s} : fdt'[t] = fdt[t]
      BY <2>3 DEF accept_and_fork, IInv, ServerTypeOK, KernelTypeOK
    <3>2. \A fd \in Fds : BornTable[fd].kind # "file"
      BY DEF BornTable, FreeSlot, EmptySlot
    <3> QED BY <3>1, <3>2, WeakerLocks DEF WeakensLocks, IsFile
  <2>4. CASE UNCHANGED serverVars \/ EnvStep \/ accept_fails
             \/ \E t \in Sessions : fork_fails(t)
    BY <2>1, <2>4 DEF serverVars, EnvStep, accept_fails, fork_fails, kernelVars
  <2> QED BY <2>2, <2>3, <2>4 DEF ServerNext, ListenerStep
<1> QED BY <1>1, <1>2, IInvHolds, PTL DEF ServerSpec

\* A client that flock has given the exclusive lock of a file has it alone, where no
\* signal handler interrupts recv: no other client has been given a lock of the same
\* file, whoever crashes or connects again meanwhile (NFSConnection.hpp:123).
THEOREM LocksAreExclusive ==
    ASSUME ~SignalsHandled
    PROVE  Spec => []LocksExclude
<1>1. SystemInv /\ AnswersInv /\ LocksInv => LocksExclude
  <2> SUFFICES ASSUME SystemInv, AnswersInv, LocksInv, NEW c \in Clients, NEW d \in Clients,
                      c # d, Locked(c, "EX"), Locked(d, "EX") \/ Locked(d, "SH"),
                      LockedInode(c) = LockedInode(d)
               PROVE  FALSE
    BY SMTT(20) DEF LocksExclude
  <2>1. ASSUME NEW b \in Clients, NEW mode \in LockModes, Locked(b, mode)
        PROVE  /\ m_sockfd[b] \in Sessions /\ owner[m_sockfd[b]] = b
               /\ \E fd \in Fds : /\ IsFile(m_sockfd[b], fd)
                                  /\ fdt[m_sockfd[b]][fd].lock = mode
                                  /\ fdt[m_sockfd[b]][fd].ino = LockedInode(b)
    <3>1. /\ cpc[b] = "idle" /\ ret[b].code = "REQUEST_FLOCK" /\ ret[b].value = 0
          /\ ret[b].request.operation = mode /\ wpc[m_sockfd[b]] = "serve"
          /\ is_descriptor_in_map(m_sockfd[b], ret[b].request.fd)
      BY <2>1 DEF Locked, HasReturned, Sock
    <3>2. /\ m_sockfd[b] # NoSock /\ ret[b].request.code = "REQUEST_FLOCK"
          /\ ToInt(ret[b].request.fd) = ret[b].request.fd
      BY <3>1, ConnectionAssumption DEF AnswersInv, SuccessOf, RequestCodes
    <3>3. m_sockfd[b] \in Sessions /\ owner[m_sockfd[b]] = b
      BY <3>1, <3>2 DEF SystemInv, ClientsInv, ConnectionTypeOK, ClientInv, SocketOf, Living
    <3> DEFINE fd == descriptor_map[m_sockfd[b]][ret[b].request.fd]
    <3>4. Holds(m_sockfd[b], ret[b].request, ret[b])
      BY <3>1, <3>2, SMTT(20) DEF AnswersInv, AnswerOf, RequestCodes
    <3>5. fdt[m_sockfd[b]][fd].lock = mode
      BY <3>1, <3>2, <3>4 DEF Holds
    <3>6. ret[b].request.fd \in Mapped(m_sockfd[b])
      BY <3>1 DEF is_descriptor_in_map, Mapped
    <3>7. fd \in Fds /\ IsFile(m_sockfd[b], fd)
      BY <3>3, <3>6 DEF SystemInv, IInv, ServerTypeOK, WorkerTypeOK, SessionInv, MapAt, Mapped
    <3> QED BY <3>3, <3>5, <3>7 DEF LockedInode, Sock
  <2>2. PICK s \in Sessions, fd \in Fds :
          /\ s = m_sockfd[c] /\ owner[s] = c /\ IsFile(s, fd) /\ fdt[s][fd].lock = "EX"
          /\ fdt[s][fd].ino = LockedInode(c)
    BY <2>1 DEF LockModes
  <2>3. PICK t \in Sessions, g \in Fds :
          /\ t = m_sockfd[d] /\ owner[t] = d /\ IsFile(t, g) /\ fdt[t][g].lock # "UN"
          /\ fdt[t][g].ino = LockedInode(d)
    BY <2>1 DEF LockModes
  <2> QED BY <2>2, <2>3 DEF LocksInv
<1>2. Spec => []LocksInv
  BY LocksHold, SystemImplementsServer DEF ImplementsServer
<1> QED BY <1>1, <1>2, AnswersHold, SystemInvHolds, PTL
===============================================================================
