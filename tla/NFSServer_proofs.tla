-------------------------- MODULE NFSServer_proofs --------------------------
(***************************************************************************)
(* Proofs about the server of NFSServer.tla, for every number of sessions, *)
(* users, files and descriptors, and for clients that send any messages.   *)
(*                                                                         *)
(* SessionInv is what every step of a worker keeps true of its own session *)
(* and, by SameAt, of every other; with the types it is inductive.         *)
(***************************************************************************)
EXTENDS NFSServer, UnixKernel_proofs

-----------------------------------------------------------------------------
(* What the operations of Tcp.tla preserve.                                *)

\* A message that is sent joins a queue of messages (send_message).
LEMMA WorkerSendType ==
    ASSUME NEW s \in Sessions, NEW m \in MSG, NEW outcome,
           TcpTypeOK, WorkerSend(s, m, outcome)
    PROVE  TcpTypeOK'
BY DEF TcpTypeOK, WorkerSend, Sent

\* A message that is received was a message (wait_for_message).
LEMMA WorkerReceivesType ==
    ASSUME NEW s \in Sessions, TcpTypeOK, WorkerReceives(s)
    PROVE  TcpTypeOK' /\ Head(c2s[s]) \in MSG
BY DEF TcpTypeOK, WorkerReceives

\* Closing the socket of a session keeps the others as they are.
LEMMA WorkerClosesType ==
    ASSUME NEW s \in Sessions, TcpTypeOK, WorkerCloses(s)
    PROVE  TcpTypeOK'
BY DEF TcpTypeOK, WorkerCloses

-----------------------------------------------------------------------------
(* The invariant of the server.                                            *)

\* The stages before a worker knows its user, and those of the request loop.
Early   == {"none", "ask", "await", "select"}
Serving == {"serve", "handle", "flock", "reply"}

\* A worker belongs to a connection that somebody has made and accepted.
SocketAt(s) ==
    /\ cend[s] = "unused" => wend[s] = "unused"
    /\ wend[s] \in {"unused", "backlog"} => wpc[s] = "none"

\* A worker that serves requests has accepted three right credentials.
LoginAt(s) ==
    /\ wpc[s] = "none" => info[s] = << >>
    /\ wpc[s] \in {"ask", "await"} => Len(info[s]) \in 0..2
    /\ wpc[s] = "select" => Len(info[s]) = 3
    /\ wpc[s] \in Early => ~authenticated[s]
    /\ wpc[s] \in Serving => authenticated[s]
    /\ authenticated[s] =>
          /\ Authorized(s)
          /\ userid[s] = UidOf[info[s][1]]
          /\ filesystem_prefix[s] = FSPrefix[info[s][3]]

\* It handles a request under the identity of the user.
IdentityAt(s) == wpc[s] \in {"handle", "flock", "reply"} => euid[s] = userid[s]

\* The messages at hand are of the kind that the stage expects.
MessagesAt(s) ==
    /\ wpc[s] \in {"handle", "flock"} => request[s] \in MSG
    /\ wpc[s] = "flock" => request[s].code = "REQUEST_FLOCK" /\ Usable(s, {})
    /\ wpc[s] = "reply" => response[s] \in Result

\* Its open files exist and are open for what the user may do.
FilesAt(s) ==
    \A fd \in Fds : IsFile(s, fd) =>
        /\ wpc[s] \notin Early
        /\ fdt[s][fd].ino \in Inodes
        /\ \A r \in fdt[s][fd].rights : Grants(s, fdt[s][fd].path, r)

\* Its map stands for open files, one for each client descriptor given out.
MapAt(s) ==
    /\ wpc[s] \in Early => Mapped(s) = {}
    /\ \A cd \in Mapped(s) :
          /\ cd < next_descriptor[s]
          /\ IsFile(s, descriptor_map[s][cd])
          /\ \A ce \in Mapped(s) :
                descriptor_map[s][ce] = descriptor_map[s][cd] => ce = cd

SessionInv(s) == /\ SocketAt(s) /\ LoginAt(s) /\ IdentityAt(s) /\ MessagesAt(s)
                 /\ FilesAt(s) /\ MapAt(s)

IInv == ServerTypeOK /\ \A s \in Sessions : SessionInv(s)

\* In this step session s keeps what its descriptors and its map stand for ...
KeepsFiles(s) ==
    /\ \A fd \in Fds :
          /\ fdt'[s][fd].kind = fdt[s][fd].kind
          /\ fdt'[s][fd].ino = fdt[s][fd].ino
          /\ fdt'[s][fd].path = fdt[s][fd].path
          /\ fdt'[s][fd].rights = fdt[s][fd].rights
    /\ descriptor_map'[s] = descriptor_map[s]
    /\ next_descriptor'[s] = next_descriptor[s]

\* ... and its login, and the ends of its connection.
KeepsLogin(s) ==
    /\ info'[s] = info[s] /\ authenticated'[s] = authenticated[s]
    /\ userid'[s] = userid[s] /\ filesystem_prefix'[s] = filesystem_prefix[s]
    /\ cend'[s] = cend[s] /\ wend'[s] = wend[s]

\* What the step of one worker leaves alone in the session of another.
SameAt(s) ==
    /\ KeepsFiles(s) /\ KeepsLogin(s)
    /\ fdt'[s] = fdt[s] /\ euid'[s] = euid[s] /\ wpc'[s] = wpc[s]
    /\ request'[s] = request[s] /\ response'[s] = response[s]

\* A step for session s has the right effect on it and none on the others.
StepOK(s) ==
    /\ ServerTypeOK'
    /\ SessionInv(s)'
    /\ \A t \in Sessions \ {s} : SameAt(t)

-----------------------------------------------------------------------------
\* Files that are kept are still the user's (README.md:403).
LEMMA FilesKept ==
    ASSUME NEW s \in Sessions, FilesAt(s), KeepsFiles(s), info'[s] = info[s],
           wpc'[s] \in Early => wpc[s] \in Early
    PROVE  FilesAt(s)'
BY DEF FilesAt, KeepsFiles, IsFile, Grants, Authorized

\* A map that is kept still stands for the same files.
LEMMA MapKept ==
    ASSUME NEW s \in Sessions, WorkerTypeOK, MapAt(s), KeepsFiles(s),
           wpc'[s] \in Early => wpc[s] \in Early
    PROVE  MapAt(s)'
<1>1. Mapped(s)' = Mapped(s)
  BY DEF KeepsFiles, Mapped
<1>2. \A cd \in Mapped(s) : descriptor_map[s][cd] \in Fds
  BY DEF Mapped, WorkerTypeOK
<1>3. \A cd \in Mapped(s) : IsFile(s, descriptor_map[s][cd])'
  BY <1>2 DEF KeepsFiles, MapAt, IsFile
<1> QED BY <1>1, <1>3 DEF MapAt, KeepsFiles

\* A login that is kept is as good as it was.
LEMMA LoginKept ==
    ASSUME NEW s \in Sessions, LoginAt(s), KeepsLogin(s), wpc'[s] \notin Early,
           wpc'[s] \in Serving => authenticated[s]
    PROVE  LoginAt(s)'
BY DEF LoginAt, KeepsLogin, Authorized, Early

\* What a step leaves alone keeps its invariant.
LEMMA SessionKept ==
    ASSUME NEW s \in Sessions, WorkerTypeOK, SessionInv(s), SameAt(s)
    PROVE  SessionInv(s)'
<1>1. FilesAt(s)' /\ MapAt(s)'
  BY FilesKept, MapKept DEF SessionInv, SameAt, KeepsLogin
<1>2. SocketAt(s)'
  BY DEF SessionInv, SameAt, KeepsLogin, SocketAt
<1>3. LoginAt(s)'
  BY DEF SessionInv, SameAt, KeepsLogin, LoginAt, Authorized
<1>4. IdentityAt(s)'
  BY DEF SessionInv, SameAt, KeepsLogin, IdentityAt
<1>5. MessagesAt(s)'
  BY DEF SessionInv, SameAt, KeepsFiles, MessagesAt, Usable, IsFile, ClientFd,
         is_descriptor_in_map, get_descriptor_from_map
<1> QED BY <1>1, <1>2, <1>3, <1>4, <1>5 DEF SessionInv

\* A step past the login that keeps files and login keeps the invariant, if it
\* is right about the identity and the messages.
LEMMA ServingKept ==
    ASSUME NEW s \in Sessions, WorkerTypeOK, SessionInv(s), KeepsFiles(s),
           KeepsLogin(s), wpc[s] # "none", wpc'[s] \notin Early,
           wpc'[s] \in Serving => authenticated[s],
           IdentityAt(s)', MessagesAt(s)'
    PROVE  SessionInv(s)'
<1>1. FilesAt(s)' /\ MapAt(s)'
  BY FilesKept, MapKept DEF SessionInv, KeepsLogin
<1>2. SocketAt(s)'
  BY DEF SessionInv, KeepsLogin, SocketAt
<1>3. LoginAt(s)'
  BY LoginKept DEF SessionInv
<1> QED BY <1>1, <1>2, <1>3 DEF SessionInv

\* A step for one session keeps the invariant of all.
LEMMA StepKeepsIInv ==
    ASSUME NEW s \in Sessions, IInv, StepOK(s)
    PROVE  IInv'
BY SessionKept DEF IInv, StepOK, ServerTypeOK

-----------------------------------------------------------------------------
\* What a message carries follows from its code (NFSMessages.hpp).
LEMMA MessageFields ==
    ASSUME NEW m \in MSG
    PROVE  /\ m.code = "REQUEST_OPEN"   => m.path \in Text /\ m.oflag \in OFlags
           /\ m.code = "REQUEST_CLOSE"  => m.fd \in Int
           /\ m.code = "REQUEST_READ"   => m.fd \in Int /\ m.size \in Nat
           /\ m.code = "REQUEST_WRITE"  => m.fd \in Int /\ m.data \in Seq(Nat)
           /\ m.code = "REQUEST_LSEEK"  => m.fd \in Int /\ m.offset \in Int
           /\ m.code = "REQUEST_FSTAT"  => m.fd \in Int
           /\ m.code = "REQUEST_UNLINK" => m.path \in Text
           /\ m.code = "REQUEST_FLOCK"  => /\ m.fd \in Int
                                           /\ m.operation \in LockModes
           /\ \A k \in 1..3 : m.code = ConnectInfoCode[k] => m.text \in Text
BY DEF MSG, ConnectInfo, ConnectInfoCode, Request, CMSGRequestOpen, CMSGRequestClose,
       CMSGRequestRead, CMSGRequestWrite, CMSGRequestLseek, CMSGRequestFstat,
       CMSGRequestUnlink, CMSGRequestFlock, Result, BareCodes

\* The messages without content are messages.
LEMMA BareType ==
    ASSUME NEW code \in BareCodes
    PROVE  Bare(code) \in MSG
BY DEF Bare, MSG

\* A worker asks for a credential (request_username and its two sisters).
LEMMA AskInfo ==
    ASSUME NEW s \in Sessions, IInv, ask_info(s), UNCHANGED lpc
    PROVE  StepOK(s)
<1> DEFINE m == Bare(ProvideCode[Len(info[s]) + 1])
<1>1. PICK outcome \in SendOutcomes(cend[s]) :
        /\ WorkerSend(s, m, outcome)
        /\ \/ outcome = "sent"    /\ Goto(s, "await")
           \/ outcome = "error"   /\ Returns(s, "-1")
           \/ outcome = "sigpipe" /\ Dies(s, "killed")
  BY DEF ask_info, SendThen
<1>2. SessionInv(s) /\ ServerTypeOK /\ wpc[s] = "ask" /\ Len(info[s]) \in 0..2
  BY DEF IInv, ask_info, SessionInv, LoginAt
<1>3. m \in MSG
  <2>1. \A k \in 1..3 : ProvideCode[k] \in BareCodes
    BY DEF ProvideCode, BareCodes
  <2>2. \A n \in 0..2 : n + 1 \in 1..3
    OBVIOUS
  <2>3. ProvideCode[Len(info[s]) + 1] \in BareCodes
    BY <1>2, <2>1, <2>2
  <2> QED BY <2>3, BareType
<1>4. TcpTypeOK'
  BY <1>1, <1>2, <1>3, WorkerSendType DEF ServerTypeOK
<1>5. KernelTypeOK' /\ lpc' \in {"listening", "down"}
  BY <1>2 DEF ask_info, kernelVars, KernelTypeOK, ServerTypeOK
<1>6. /\ wpc' \in [Sessions -> Stages] /\ wpc'[s] \in {"await", "unwind", "exit"}
      /\ \A t \in Sessions \ {s} : wpc'[t] = wpc[t]
      /\ status' \in [Sessions -> {"none", "0", "-1", "EBADMSG", "123", "killed"}]
  BY <1>1, <1>2 DEF Goto, Returns, Dies, ServerTypeOK, WorkerTypeOK, Stages
<1>7. WorkerTypeOK'
  BY <1>2, <1>6 DEF ask_info, sessionVars, mapVars, messageVars, ServerTypeOK, WorkerTypeOK
<1>8. \A t \in Sessions : KeepsFiles(t) /\ KeepsLogin(t)
  BY <1>1 DEF ask_info, kernelVars, sessionVars, mapVars, KeepsFiles, KeepsLogin, WorkerSend
<1>9. \A t \in Sessions \ {s} : SameAt(t)
  BY <1>6, <1>8 DEF ask_info, SameAt, kernelVars, messageVars
<1>10. SessionInv(s)'
  <2>1. FilesAt(s)' /\ MapAt(s)'
    BY <1>2, <1>8, FilesKept, MapKept DEF SessionInv, KeepsLogin, Early, ServerTypeOK
  <2>2. SocketAt(s)'
    BY <1>2, <1>6, <1>8 DEF SessionInv, SocketAt, KeepsLogin
  <2>3. LoginAt(s)'
    BY <1>2, <1>6, <1>8 DEF SessionInv, LoginAt, KeepsLogin, Early, Serving
  <2>4. IdentityAt(s)' /\ MessagesAt(s)'
    BY <1>6 DEF IdentityAt, MessagesAt
  <2> QED BY <2>1, <2>2, <2>3, <2>4 DEF SessionInv
<1> QED BY <1>4, <1>5, <1>7, <1>9, <1>10 DEF StepOK, ServerTypeOK

\* Without files nothing that happens to the login can hurt them.
LEMMA NoFilesEarly ==
    ASSUME NEW s \in Sessions, FilesAt(s), KeepsFiles(s), wpc[s] \in Early
    PROVE  FilesAt(s)'
BY DEF FilesAt, KeepsFiles, IsFile

\* A worker receives a credential, or something else (wait_for_message).
LEMMA ReceiveInfo ==
    ASSUME NEW s \in Sessions, IInv, receive_info(s), UNCHANGED lpc
    PROVE  StepOK(s)
<1> DEFINE m == Head(c2s[s])
           n == Len(info[s])
           expected == m.code = ConnectInfoCode[n + 1]
<1>1. /\ SessionInv(s) /\ ServerTypeOK /\ wpc[s] = "await"
      /\ n \in 0..2 /\ info[s] \in Seq(Strings)
  BY DEF IInv, receive_info, SessionInv, LoginAt, ServerTypeOK, WorkerTypeOK
<1>2. TcpTypeOK' /\ m \in MSG
  BY <1>1, WorkerReceivesType DEF receive_info, ServerTypeOK
<1>3. KernelTypeOK' /\ lpc' \in {"listening", "down"}
  BY <1>1 DEF receive_info, kernelVars, KernelTypeOK, ServerTypeOK
<1>4. \/ /\ info' = info
         /\ \E code \in {"123", "EBADMSG"} : Dies(s, code) \/ Returns(s, code)
      \/ /\ expected /\ Terminated(m.text)
         /\ info' = [info EXCEPT ![s] = Append(@, m.text)]
         /\ Goto(s, IF n = 2 THEN "select" ELSE "ask")
  BY DEF receive_info
<1>5. expected /\ Terminated(m.text) => m.text \in Strings
  <2>1. \A k \in 0..2 : k + 1 \in 1..3
    OBVIOUS
  <2> QED BY <1>1, <1>2, <2>1, MessageFields DEF Terminated, Text
<1>6. /\ wpc' \in [Sessions -> Stages]
      /\ \A t \in Sessions \ {s} : wpc'[t] = wpc[t]
      /\ status' \in [Sessions -> {"none", "0", "-1", "EBADMSG", "123", "killed"}]
      /\ wpc'[s] \in {"select", "ask", "unwind", "exit"}
  BY <1>1, <1>4 DEF Goto, Returns, Dies, ServerTypeOK, WorkerTypeOK, Stages
<1>7. /\ info' \in [Sessions -> Seq(Strings)]
      /\ \A t \in Sessions \ {s} : info'[t] = info[t]
  <2>1. expected /\ Terminated(m.text) => Append(info[s], m.text) \in Seq(Strings)
    BY <1>1, <1>5
  <2> QED BY <1>1, <1>4, <2>1 DEF ServerTypeOK, WorkerTypeOK
<1>8. WorkerTypeOK'
  BY <1>1, <1>6, <1>7 DEF receive_info, mapVars, messageVars, ServerTypeOK, WorkerTypeOK
<1>9. \A t \in Sessions : KeepsFiles(t)
  BY DEF receive_info, kernelVars, mapVars, KeepsFiles
<1>10. UNCHANGED <<cend, wend, authenticated, userid, filesystem_prefix>>
  BY DEF receive_info, WorkerReceives
<1>11. \A t \in Sessions \ {s} : SameAt(t)
  BY <1>6, <1>7, <1>9, <1>10
     DEF receive_info, SameAt, KeepsLogin, kernelVars, messageVars
<1>12. LoginAt(s)'
  <2>1. ~authenticated'[s]
    BY <1>1, <1>10 DEF SessionInv, LoginAt, Early
  <2>2. CASE expected /\ Terminated(m.text)
            /\ info' = [info EXCEPT ![s] = Append(@, m.text)]
            /\ Goto(s, IF n = 2 THEN "select" ELSE "ask")
    <3>1. info'[s] = Append(info[s], m.text)
      BY <2>2, <1>1 DEF ServerTypeOK, WorkerTypeOK
    <3>2. Len(info'[s]) = n + 1
      BY <3>1, <1>1, <1>5, <2>2
    <3>3. wpc'[s] = IF n = 2 THEN "select" ELSE "ask"
      BY <2>2, <1>1 DEF Goto, ServerTypeOK, WorkerTypeOK
    <3>4. \A k \in 0..2 : (k = 2 => k + 1 = 3) /\ (k # 2 => k + 1 \in 0..2)
      OBVIOUS
    <3> QED BY <1>1, <2>1, <3>2, <3>3, <3>4 DEF LoginAt, Serving
  <2>3. CASE wpc'[s] \in {"unwind", "exit"}
    BY <2>1, <2>3 DEF LoginAt, Serving
  <2> QED BY <1>1, <1>4, <2>2, <2>3 DEF Dies, Returns, ServerTypeOK, WorkerTypeOK
<1>13. SessionInv(s)'
  <2>1. FilesAt(s)' /\ MapAt(s)'
    BY <1>1, <1>9, NoFilesEarly, MapKept DEF SessionInv, Early, ServerTypeOK
  <2>2. SocketAt(s)'
    BY <1>1, <1>6, <1>10 DEF SessionInv, SocketAt
  <2>3. IdentityAt(s)' /\ MessagesAt(s)'
    BY <1>6 DEF IdentityAt, MessagesAt
  <2> QED BY <1>12, <2>1, <2>2, <2>3 DEF SessionInv
<1> QED BY <1>2, <1>3, <1>8, <1>11, <1>13 DEF StepOK, ServerTypeOK

\* The verdict on the three credentials (select_user and select_filesystem).
LEMMA Select ==
    ASSUME NEW s \in Sessions, IInv, select(s), UNCHANGED lpc
    PROVE  StepOK(s)
<1> DEFINE login == info[s][1]
           name == info[s][3]
           ok == Accepts(GoodUser(login, info[s][2]), GoodFilesystem(name))
<1>1. /\ SessionInv(s) /\ ServerTypeOK /\ wpc[s] = "select" /\ Len(info[s]) = 3
      /\ ~authenticated[s]
  BY DEF IInv, select, SessionInv, LoginAt, Early
<1>2. TcpTypeOK' /\ KernelTypeOK' /\ lpc' \in {"listening", "down"}
  BY <1>1 DEF select, tcpVars, kernelVars, TcpTypeOK, KernelTypeOK, ServerTypeOK
<1>3. \/ /\ authenticated' = [authenticated EXCEPT ![s] = ok]
         /\ userid' = IF GoodUser(login, info[s][2])
                      THEN [userid EXCEPT ![s] = UidOf[login]] ELSE userid
         /\ filesystem_prefix' = IF GoodFilesystem(name)
                    THEN [filesystem_prefix EXCEPT ![s] = FSPrefix[name]]
                    ELSE filesystem_prefix
         /\ Goto(s, "verdict")
      \/ /\ Dies(s, "killed")
         /\ UNCHANGED <<authenticated, userid, filesystem_prefix>>
  BY DEF select
<1>4. /\ wpc' \in [Sessions -> Stages]
      /\ \A t \in Sessions \ {s} : wpc'[t] = wpc[t]
      /\ status' \in [Sessions -> {"none", "0", "-1", "EBADMSG", "123", "killed"}]
      /\ wpc'[s] \in {"verdict", "exit"}
  BY <1>1, <1>3 DEF Goto, Dies, ServerTypeOK, WorkerTypeOK, Stages
<1>5. ok \in BOOLEAN
  BY DEF Accepts, GoodUser, GoodFilesystem
<1>6. /\ authenticated' \in [Sessions -> BOOLEAN]
      /\ \A t \in Sessions \ {s} : authenticated'[t] = authenticated[t]
  BY <1>1, <1>3, <1>5 DEF ServerTypeOK, WorkerTypeOK
<1>7. /\ userid' \in [Sessions -> Uids]
      /\ filesystem_prefix' \in [Sessions -> Dirs \cup {NoDir}]
      /\ \A t \in Sessions \ {s} : /\ userid'[t] = userid[t]
                                   /\ filesystem_prefix'[t] = filesystem_prefix[t]
  BY <1>1, <1>3, WorkerAssumption
     DEF ServerTypeOK, WorkerTypeOK, GoodUser, GoodFilesystem
<1>8. WorkerTypeOK'
  BY <1>1, <1>4, <1>6, <1>7
     DEF select, mapVars, messageVars, ServerTypeOK, WorkerTypeOK
<1>9. \A t \in Sessions : KeepsFiles(t)
  BY DEF select, kernelVars, mapVars, KeepsFiles
<1>10. UNCHANGED <<cend, wend, info>>
  BY DEF select, tcpVars
<1>11. \A t \in Sessions \ {s} : SameAt(t)
  BY <1>4, <1>6, <1>7, <1>9, <1>10
     DEF select, SameAt, KeepsLogin, kernelVars, messageVars
<1>12. LoginAt(s)'
  <2>1. CASE ok /\ wpc'[s] = "verdict" /\ userid'[s] = UidOf[login]
            /\ filesystem_prefix'[s] = FSPrefix[name]
    BY <1>1, <1>10, <2>1
       DEF LoginAt, Early, Serving, Authorized, Accepts, GoodUser, GoodFilesystem
  <2>2. CASE ~authenticated'[s]
    BY <1>4, <2>2 DEF LoginAt, Early, Serving
  <2>3. ok => GoodUser(login, info[s][2]) /\ GoodFilesystem(name)
    BY DEF Accepts
  <2> QED BY <1>1, <1>3, <2>1, <2>2, <2>3 DEF Goto, ServerTypeOK, WorkerTypeOK
<1>13. SessionInv(s)'
  <2>1. FilesAt(s)' /\ MapAt(s)'
    BY <1>1, <1>9, NoFilesEarly, MapKept DEF SessionInv, Early, ServerTypeOK
  <2>2. SocketAt(s)'
    BY <1>1, <1>4, <1>10 DEF SessionInv, SocketAt
  <2>3. IdentityAt(s)' /\ MessagesAt(s)'
    BY <1>4 DEF IdentityAt, MessagesAt
  <2> QED BY <1>12, <2>1, <2>2, <2>3 DEF SessionInv
<1> QED BY <1>2, <1>8, <1>11, <1>13 DEF StepOK, ServerTypeOK

\* The worker tells its verdict, and serves or ends.
LEMMA SendVerdict ==
    ASSUME NEW s \in Sessions, IInv, send_verdict(s), UNCHANGED lpc
    PROVE  StepOK(s)
<1> DEFINE m == Bare(IF authenticated[s] THEN "AUTHORIZATION_OK"
                     ELSE "AUTHORIZATION_FAILED")
<1>1. SessionInv(s) /\ ServerTypeOK /\ wpc[s] = "verdict"
  BY DEF IInv, send_verdict
<1>2. PICK outcome \in SendOutcomes(cend[s]) :
        /\ WorkerSend(s, m, outcome)
        /\ \/ outcome = "sent" /\ authenticated[s]  /\ Goto(s, "serve")
           \/ outcome = "sent" /\ ~authenticated[s] /\ Returns(s, "0")
           \/ outcome = "error"   /\ Returns(s, "-1")
           \/ outcome = "sigpipe" /\ Dies(s, "killed")
  BY DEF send_verdict
<1>3. TcpTypeOK'
  <2>1. m \in MSG
    BY BareType DEF BareCodes
  <2> QED BY <1>1, <1>2, <2>1, WorkerSendType DEF ServerTypeOK
<1>4. KernelTypeOK' /\ lpc' \in {"listening", "down"}
  BY <1>1 DEF send_verdict, kernelVars, KernelTypeOK, ServerTypeOK
<1>5. /\ wpc' \in [Sessions -> Stages]
      /\ \A t \in Sessions \ {s} : wpc'[t] = wpc[t]
      /\ status' \in [Sessions -> {"none", "0", "-1", "EBADMSG", "123", "killed"}]
      /\ wpc'[s] \in {"serve", "unwind", "exit"}
      /\ wpc'[s] = "serve" => authenticated[s]
  BY <1>1, <1>2 DEF Goto, Returns, Dies, ServerTypeOK, WorkerTypeOK, Stages
<1>6. WorkerTypeOK'
  BY <1>1, <1>5 DEF send_verdict, sessionVars, mapVars, messageVars, ServerTypeOK, WorkerTypeOK
<1>7. \A t \in Sessions : KeepsFiles(t) /\ KeepsLogin(t)
  BY <1>2 DEF send_verdict, kernelVars, sessionVars, mapVars, KeepsFiles, KeepsLogin, WorkerSend
<1>8. \A t \in Sessions \ {s} : SameAt(t)
  BY <1>5, <1>7 DEF send_verdict, SameAt, kernelVars, messageVars
<1>9. IdentityAt(s)' /\ MessagesAt(s)'
  BY <1>5 DEF IdentityAt, MessagesAt
<1>10. SessionInv(s)'
  BY <1>1, <1>5, <1>7, <1>9, ServingKept DEF Early, Serving, ServerTypeOK
<1> QED BY <1>3, <1>4, <1>6, <1>8, <1>10 DEF StepOK, ServerTypeOK

\* The client is gone when the worker wants its next message.
LEMMA ReceiveFails ==
    ASSUME NEW s \in Sessions, IInv, receive_fails(s), UNCHANGED lpc
    PROVE  StepOK(s)
<1>1. SessionInv(s) /\ ServerTypeOK /\ wpc[s] \in {"await", "serve"}
  BY DEF IInv, receive_fails
<1>2. TcpTypeOK' /\ KernelTypeOK' /\ lpc' \in {"listening", "down"}
  BY <1>1 DEF receive_fails, WorkerHangup, tcpVars, kernelVars, TcpTypeOK,
              KernelTypeOK, ServerTypeOK
<1>3. /\ wpc' \in [Sessions -> Stages] /\ wpc'[s] = "unwind"
      /\ \A t \in Sessions \ {s} : wpc'[t] = wpc[t]
      /\ status' \in [Sessions -> {"none", "0", "-1", "EBADMSG", "123", "killed"}]
  BY <1>1 DEF receive_fails, Returns, ServerTypeOK, WorkerTypeOK, Stages
<1>4. WorkerTypeOK'
  BY <1>1, <1>3 DEF receive_fails, sessionVars, mapVars, messageVars, ServerTypeOK, WorkerTypeOK
<1>5. \A t \in Sessions : KeepsFiles(t) /\ KeepsLogin(t)
  BY DEF receive_fails, WorkerHangup, tcpVars, kernelVars, sessionVars, mapVars,
         KeepsFiles, KeepsLogin
<1>6. \A t \in Sessions \ {s} : SameAt(t)
  BY <1>3, <1>5 DEF receive_fails, SameAt, kernelVars, messageVars
<1>7. IdentityAt(s)' /\ MessagesAt(s)'
  BY <1>3 DEF IdentityAt, MessagesAt
<1>8. SessionInv(s)'
  BY <1>1, <1>3, <1>5, <1>7, ServingKept DEF Early, Serving, ServerTypeOK
<1> QED BY <1>2, <1>4, <1>6, <1>8 DEF StepOK, ServerTypeOK

\* A request arrives and is taken up as the user (enter_user_mode).
LEMMA ReceiveRequest ==
    ASSUME NEW s \in Sessions, IInv, receive_request(s), UNCHANGED lpc
    PROVE  StepOK(s)
<1>1. SessionInv(s) /\ ServerTypeOK /\ wpc[s] = "serve" /\ authenticated[s]
  BY DEF IInv, receive_request, SessionInv, LoginAt, Serving
<1>2. TcpTypeOK' /\ Head(c2s[s]) \in MSG
  BY <1>1, WorkerReceivesType DEF receive_request, ServerTypeOK
<1>3. \/ /\ Dies(s, "123") \/ Returns(s, "-1")
         /\ UNCHANGED <<euid, request>>
      \/ /\ euid' = [euid EXCEPT ![s] = userid[s]]
         /\ request' = [request EXCEPT ![s] = Head(c2s[s])]
         /\ Goto(s, "handle")
  BY DEF receive_request, enter_user_mode
<1>4. KernelTypeOK' /\ lpc' \in {"listening", "down"}
  BY <1>1, <1>3 DEF receive_request, KernelTypeOK, ServerTypeOK, WorkerTypeOK
<1>5. /\ wpc' \in [Sessions -> Stages] /\ wpc'[s] \in {"handle", "unwind", "exit"}
      /\ \A t \in Sessions \ {s} : wpc'[t] = wpc[t]
      /\ status' \in [Sessions -> {"none", "0", "-1", "EBADMSG", "123", "killed"}]
  BY <1>1, <1>3 DEF Goto, Returns, Dies, ServerTypeOK, WorkerTypeOK, Stages
<1>6. WorkerTypeOK'
  BY <1>1, <1>2, <1>3, <1>5
     DEF receive_request, sessionVars, mapVars, ServerTypeOK, WorkerTypeOK
<1>7. \A t \in Sessions : KeepsFiles(t) /\ KeepsLogin(t)
  BY DEF receive_request, WorkerReceives, sessionVars, mapVars, KeepsFiles, KeepsLogin
<1>8. \A t \in Sessions \ {s} : SameAt(t)
  BY <1>1, <1>3, <1>5, <1>7
     DEF receive_request, SameAt, ServerTypeOK, KernelTypeOK, WorkerTypeOK
<1>9. IdentityAt(s)' /\ MessagesAt(s)'
  BY <1>1, <1>2, <1>3, <1>5
     DEF receive_request, sessionVars, IdentityAt, MessagesAt, ServerTypeOK,
         KernelTypeOK, WorkerTypeOK, Goto, Returns, Dies
<1>10. SessionInv(s)'
  BY <1>1, <1>5, <1>7, <1>9, ServingKept DEF Early, Serving, ServerTypeOK
<1> QED BY <1>2, <1>4, <1>6, <1>8, <1>10 DEF StepOK, ServerTypeOK

-----------------------------------------------------------------------------
\* A handler that has its answer is right if it is right about files and map.
LEMMA AnswerOK ==
    ASSUME NEW s \in Sessions, IInv, wpc[s] \in {"handle", "flock"},
           NEW value \in Int, NEW errno \in Errnos, NEW data \in Seq(Nat),
           Answer(s, value, errno, data), KernelTypeOK', UNCHANGED euid,
           descriptor_map' \in [Sessions -> [Descriptors -> Fds \cup {NoFd}]],
           next_descriptor' \in [Sessions -> 1..(MaxDescriptor + 1)],
           \A t \in Sessions \ {s} : /\ fdt'[t] = fdt[t]
                                     /\ descriptor_map'[t] = descriptor_map[t]
                                     /\ next_descriptor'[t] = next_descriptor[t],
           FilesAt(s)', MapAt(s)', UNCHANGED lpc
    PROVE  StepOK(s)
<1>1. SessionInv(s) /\ ServerTypeOK /\ authenticated[s] /\ euid[s] = userid[s]
  BY DEF IInv, SessionInv, LoginAt, IdentityAt, Serving
<1> DEFINE r == [code |-> ResultCode(request[s].code), value |-> value,
                 errno |-> errno, data |-> data]
<1>2. r \in Result
  BY DEF Result, ResultCode
<1>3. r \in MSG
  BY <1>2 DEF MSG
<1>4. response' = [response EXCEPT ![s] = r] /\ Goto(s, "reply")
      /\ UNCHANGED <<tcpVars, sessionVars, request>>
  BY DEF Answer
<1>5. TcpTypeOK' /\ lpc' \in {"listening", "down"}
  BY <1>1, <1>4 DEF tcpVars, TcpTypeOK, ServerTypeOK
<1>6. /\ wpc' = [wpc EXCEPT ![s] = "reply"] /\ UNCHANGED status
      /\ wpc'[s] = "reply" /\ \A t \in Sessions \ {s} : wpc'[t] = wpc[t]
  BY <1>1, <1>4 DEF Goto, ServerTypeOK, WorkerTypeOK
<1>7. /\ response' \in [Sessions -> MSG \cup {NoMessage}] /\ response'[s] \in Result
      /\ \A t \in Sessions \ {s} : response'[t] = response[t]
  BY <1>1, <1>2, <1>3, <1>4 DEF ServerTypeOK, WorkerTypeOK
<1>8. WorkerTypeOK'
  BY <1>1, <1>4, <1>6, <1>7 DEF sessionVars, ServerTypeOK, WorkerTypeOK, Stages
<1>9. \A t \in Sessions : KeepsLogin(t)
  BY <1>4 DEF sessionVars, tcpVars, KeepsLogin
<1>10. \A t \in Sessions \ {s} : SameAt(t)
  BY <1>4, <1>6, <1>7, <1>9 DEF SameAt, KeepsFiles
<1>11. IdentityAt(s)' /\ MessagesAt(s)'
  BY <1>1, <1>4, <1>6, <1>7 DEF sessionVars, IdentityAt, MessagesAt
<1>12. SocketAt(s)'
  BY <1>1, <1>6, <1>9 DEF SessionInv, KeepsLogin, SocketAt
<1>13. LoginAt(s)'
  BY <1>1, <1>6, <1>9, LoginKept DEF SessionInv, Early, Serving
<1> QED BY <1>5, <1>8, <1>10, <1>11, <1>12, <1>13 DEF StepOK, ServerTypeOK, SessionInv

\* In particular if it keeps both.
LEMMA AnswerKept ==
    ASSUME NEW s \in Sessions, IInv, wpc[s] \in {"handle", "flock"},
           NEW value \in Int, NEW errno \in Errnos, NEW data \in Seq(Nat),
           Answer(s, value, errno, data), KernelTypeOK', UNCHANGED euid,
           \A t \in Sessions \ {s} : fdt'[t] = fdt[t],
           KeepsFiles(s), UNCHANGED mapVars, UNCHANGED lpc
    PROVE  StepOK(s)
<1>1. SessionInv(s) /\ WorkerTypeOK
  BY DEF IInv, ServerTypeOK
<1>2. wpc'[s] = "reply" /\ UNCHANGED info
  BY <1>1 DEF Answer, Goto, sessionVars, WorkerTypeOK
<1>3. FilesAt(s)' /\ MapAt(s)'
  BY <1>1, <1>2, FilesKept, MapKept DEF SessionInv, Early
<1> QED BY <1>1, <1>3, AnswerOK DEF mapVars, WorkerTypeOK

\* So is an answer that nothing happens for, such as every failure.
LEMMA FailureKept ==
    ASSUME NEW s \in Sessions, IInv, wpc[s] \in {"handle", "flock"},
           NEW value \in Int, NEW errno \in Errnos, NEW data \in Seq(Nat),
           Answer(s, value, errno, data), UNCHANGED kernelVars,
           UNCHANGED mapVars, UNCHANGED lpc
    PROVE  StepOK(s)
<1>1. KernelTypeOK' /\ UNCHANGED euid
  BY DEF IInv, ServerTypeOK, KernelTypeOK, kernelVars
<1>2. \A t \in Sessions : KeepsFiles(t) /\ fdt'[t] = fdt[t]
  BY DEF KeepsFiles, kernelVars, mapVars
<1> QED BY <1>1, <1>2, AnswerKept

\* The empty sequence of bytes, and the answer to a bad descriptor (EBADF).
LEMMA NoData == << >> \in Seq(Nat)
BY EmptySeq

\* A request about a descriptor that is not in the map is answered with EBADF and
\* changes nothing else (is_descriptor_in_map).
LEMMA EBADFKept ==
    ASSUME NEW s \in Sessions, IInv, wpc[s] = "handle", AnswerEBADF(s), UNCHANGED lpc
    PROVE  StepOK(s)
<1>1. -1 \in Int /\ "EBADF" \in Errnos
  BY DEF Errnos
<1> QED BY <1>1, NoData, FailureKept DEF AnswerEBADF

\* The loop may be left without an answer: DISCONNECT, or a bad message.
LEMMA AbandonKept ==
    ASSUME NEW s \in Sessions, IInv, wpc[s] = "handle",
           NEW code \in {"0", "-1", "EBADMSG"}, Abandon(s, code), UNCHANGED lpc
    PROVE  StepOK(s)
<1>1. SessionInv(s) /\ ServerTypeOK
  BY DEF IInv
<1>2. TcpTypeOK' /\ lpc' \in {"listening", "down"}
  BY <1>1 DEF Abandon, tcpVars, TcpTypeOK, ServerTypeOK
<1>3. KernelTypeOK'
  BY <1>1, KernelAssumption DEF Abandon, exit_user_mode, KernelTypeOK, ServerTypeOK
<1>4. /\ wpc' \in [Sessions -> Stages] /\ wpc'[s] = "unwind"
      /\ \A t \in Sessions \ {s} : wpc'[t] = wpc[t]
      /\ status' \in [Sessions -> {"none", "0", "-1", "EBADMSG", "123", "killed"}]
  BY <1>1 DEF Abandon, Returns, ServerTypeOK, WorkerTypeOK, Stages
<1>5. WorkerTypeOK'
  BY <1>1, <1>4 DEF Abandon, Forget, sessionVars, mapVars, ServerTypeOK, WorkerTypeOK
<1>6. \A t \in Sessions : KeepsFiles(t) /\ KeepsLogin(t)
  BY DEF Abandon, tcpVars, sessionVars, mapVars, KeepsFiles, KeepsLogin
<1>7. \A t \in Sessions \ {s} : SameAt(t)
  BY <1>1, <1>4, <1>6
     DEF Abandon, Forget, exit_user_mode, SameAt, ServerTypeOK, KernelTypeOK, WorkerTypeOK
<1>8. IdentityAt(s)' /\ MessagesAt(s)'
  BY <1>4 DEF IdentityAt, MessagesAt
<1>9. SessionInv(s)'
  BY <1>1, <1>4, <1>6, <1>8, ServingKept DEF Early, Serving, ServerTypeOK
<1> QED BY <1>2, <1>3, <1>5, <1>7, <1>9 DEF StepOK, ServerTypeOK

\* The ends of the loop that are not the fault of a handler.
LEMMA LoopEnds ==
    ASSUME NEW s \in Sessions, IInv, handle_disconnect(s) \/ reject_message(s),
           UNCHANGED lpc
    PROVE  StepOK(s)
BY AbandonKept DEF handle_disconnect, reject_message, Handles

-----------------------------------------------------------------------------
\* What a handler finds: a message of its kind, and a user it works for.
LEMMA HandlerFacts ==
    ASSUME NEW s \in Sessions, IInv, NEW code, Handles(s, code)
    PROVE  /\ ServerTypeOK /\ SessionInv(s)
           /\ wpc[s] = "handle" /\ request[s] \in MSG /\ request[s].code = code
           /\ Authorized(s) /\ euid[s] = UidOf[info[s][1]]
           /\ filesystem_prefix[s] = FSPrefix[info[s][3]]
           /\ filesystem_prefix[s] \in Dirs
BY WorkerAssumption
   DEF IInv, Handles, SessionInv, LoginAt, IdentityAt, MessagesAt, Authorized, Serving

\* A path that ends in 0 leads to some name.
LEMMA PathType ==
    ASSUME NEW s \in Sessions, NEW path \in Text, Terminated(path),
           filesystem_prefix[s] \in Dirs
    PROVE  get_path_in_filesystem(s, path) \in Paths
BY KernelAssumption DEF get_path_in_filesystem, Resolved, Paths, Text, Terminated

\* Which of its user's rights the path of a request gives to a session.
LEMMA MayIsGranted ==
    ASSUME NEW s \in Sessions, IInv, NEW code, Handles(s, code),
           Terminated(request[s].path), request[s].path \in Text, NEW right,
           May(s, get_path_in_filesystem(s, request[s].path), right)
    PROVE  Grants(s, get_path_in_filesystem(s, request[s].path), right)
<1>1. request[s].path \in Strings
  BY DEF Text, Terminated
<1>2. /\ Authorized(s) /\ filesystem_prefix[s] = FSPrefix[info[s][3]]
      /\ euid[s] = UidOf[info[s][1]]
  BY HandlerFacts
<1> QED BY <1>1, <1>2 DEF May, Grants, get_path_in_filesystem

\* A usable descriptor stands for an open file.
LEMMA TargetType ==
    ASSUME NEW s \in Sessions, NEW need, IInv, Usable(s, need)
    PROVE  /\ Target(s) \in Fds /\ IsFile(s, Target(s))
           /\ fdt[s][Target(s)].ino \in Inodes /\ fdt[s][Target(s)] \in Slot
<1>1. ClientFd(s) \in Descriptors /\ Target(s) # NoFd /\ IsFile(s, Target(s))
  BY DEF Usable, Target, is_descriptor_in_map, get_descriptor_from_map
<1>2. Target(s) \in Fds
  BY <1>1 DEF IInv, ServerTypeOK, WorkerTypeOK, Target, get_descriptor_from_map
<1> QED BY <1>1, <1>2 DEF IInv, SessionInv, FilesAt, ServerTypeOK, KernelTypeOK

\* A successful open adds a file that the user may open, and an entry for it.
LEMMA OpenSucceeds ==
    ASSUME NEW s \in Sessions, IInv, Handles(s, "REQUEST_OPEN"), UNCHANGED lpc,
           Terminated(request[s].path), next_descriptor[s] \in Descriptors,
           NEW fd \in Fds,
           SysOpen(s, get_path_in_filesystem(s, request[s].path), request[s].oflag, fd),
           IF fd > 0 THEN /\ add_descriptor_to_map(s, fd)
                          /\ Answer(s, next_descriptor[s], "0", << >>)
                     ELSE /\ UNCHANGED mapVars
                          /\ Answer(s, fd, "stale", << >>)
    PROVE  StepOK(s)
<1> DEFINE path == get_path_in_filesystem(s, request[s].path)
           flags == request[s].oflag
           nd == next_descriptor[s]
<1>1. /\ ServerTypeOK /\ SessionInv(s) /\ wpc[s] = "handle" /\ Authorized(s)
      /\ euid[s] = UidOf[info[s][1]] /\ filesystem_prefix[s] = FSPrefix[info[s][3]]
      /\ filesystem_prefix[s] \in Dirs
      /\ request[s] \in MSG /\ request[s].code = "REQUEST_OPEN"
  BY HandlerFacts
<1>2. request[s].path \in Text /\ flags \in OFlags
  BY <1>1, MessageFields
<1>3. path \in Paths /\ \A r : May(s, path, r) => Grants(s, path, r)
  BY <1>1, <1>2, PathType, MayIsGranted
<1>4. KernelTypeOK' /\ UNCHANGED euid
  <2>1. KernelTypeOK
    BY <1>1 DEF ServerTypeOK
  <2>2. KernelTypeOK'
    BY <1>2, <1>3, <2>1, OpenAtType DEF SysOpen
  <2> QED BY <2>2 DEF SysOpen, OpenAt
<1>5. PICK i \in Inodes :
         fdt' = [fdt EXCEPT ![s][fd] =
                      [kind |-> "file", ino |-> i, path |-> path,
                       rights |-> flags \cap {"RD", "WR"},
                       append |-> "APPEND" \in flags, pos |-> 0, lock |-> "UN"]]
  BY DEF SysOpen, OpenAt
<1>6. /\ IsFree(s, fd)
      /\ \A r \in flags \cap {"RD", "WR"} : May(s, path, r)
  BY DEF SysOpen, OpenAt, LowestFree, OpenErrors, Errnos
<1>7. \A t \in Sessions \ {s} : fdt'[t] = fdt[t]
  BY <1>1, <1>5 DEF ServerTypeOK, KernelTypeOK
<1>8. /\ fdt'[s][fd].kind = "file" /\ fdt'[s][fd].ino = i /\ fdt'[s][fd].path = path
      /\ fdt'[s][fd].rights = flags \cap {"RD", "WR"}
      /\ \A g \in Fds \ {fd} : fdt'[s][g] = fdt[s][g]
  BY <1>1, <1>5 DEF ServerTypeOK, KernelTypeOK
<1>9. wpc'[s] = "reply" /\ UNCHANGED info
  BY <1>1 DEF Answer, Goto, sessionVars, ServerTypeOK, WorkerTypeOK
<1>10. FilesAt(s)'
  <2> SUFFICES ASSUME NEW g \in Fds, IsFile(s, g)'
               PROVE  /\ fdt'[s][g].ino \in Inodes
                      /\ \A r \in fdt'[s][g].rights : Grants(s, fdt'[s][g].path, r)
    BY <1>9 DEF FilesAt, Early, Grants, Authorized
  <2>1. CASE g = fd
    BY <1>3, <1>6, <1>8, <2>1
  <2>2. CASE g # fd
    BY <1>1, <1>8, <2>2 DEF SessionInv, FilesAt, IsFile
  <2> QED BY <2>1, <2>2
<1>11. \A cd \in Mapped(s) : descriptor_map[s][cd] \in Fds \ {fd}
  <2>1. \A cd \in Mapped(s) : /\ descriptor_map[s][cd] \in Fds
                              /\ IsFile(s, descriptor_map[s][cd])
    BY <1>1 DEF Mapped, ServerTypeOK, WorkerTypeOK, SessionInv, MapAt
  <2> QED BY <1>6, <2>1 DEF IsFree, IsFile
<1>12. CASE fd > 0
  <2>1. /\ descriptor_map' = [descriptor_map EXCEPT ![s][nd] = fd]
        /\ next_descriptor' = [next_descriptor EXCEPT ![s] = nd + 1]
        /\ Answer(s, nd, "0", << >>)
    BY <1>12 DEF add_descriptor_to_map
  <2>2. nd \in Int /\ nd + 1 \in 1..(MaxDescriptor + 1)
    BY WorkerAssumption DEF Descriptors
  <2>3. /\ descriptor_map' \in [Sessions -> [Descriptors -> Fds \cup {NoFd}]]
        /\ next_descriptor' \in [Sessions -> 1..(MaxDescriptor + 1)]
        /\ descriptor_map'[s][nd] = fd /\ next_descriptor'[s] = nd + 1
        /\ \A cd \in Descriptors \ {nd} : descriptor_map'[s][cd] = descriptor_map[s][cd]
        /\ \A t \in Sessions \ {s} : /\ descriptor_map'[t] = descriptor_map[t]
                                     /\ next_descriptor'[t] = next_descriptor[t]
    BY <1>1, <2>1, <2>2 DEF ServerTypeOK, WorkerTypeOK
  <2>4. \A cd \in Mapped(s) : cd \in Descriptors \ {nd} /\ cd < nd
    BY <1>1 DEF SessionInv, MapAt, Mapped, Descriptors
  <2>5. Mapped(s)' = Mapped(s) \cup {nd}
    <3>1. fd # NoFd
      BY <1>12 DEF NoFd
    <3> QED BY <2>3, <3>1 DEF Mapped
  <2>6. MapAt(s)'
    <3> SUFFICES ASSUME NEW cd \in Mapped(s) \cup {nd}
                 PROVE  /\ cd < nd + 1
                        /\ fdt'[s][descriptor_map'[s][cd]].kind = "file"
                        /\ \A ce \in Mapped(s) \cup {nd} :
                              descriptor_map'[s][ce] = descriptor_map'[s][cd]
                              => ce = cd
      BY <1>9, <2>3, <2>5 DEF MapAt, IsFile, Early
    <3>1. cd < nd + 1
      BY <2>2, <2>4 DEF Descriptors
    <3>2. fdt'[s][descriptor_map'[s][cd]].kind = "file"
      <4>1. CASE cd = nd
        BY <1>8, <2>3, <4>1
      <4>2. CASE cd # nd
        <5>1. cd \in Mapped(s) /\ IsFile(s, descriptor_map[s][cd])
          BY <1>1, <4>2 DEF SessionInv, MapAt
        <5>2. descriptor_map'[s][cd] = descriptor_map[s][cd]
          BY <2>3, <2>4, <5>1
        <5> QED BY <1>8, <1>11, <5>1, <5>2 DEF IsFile
      <4> QED BY <4>1, <4>2
    <3>3. \A ce \in Mapped(s) \cup {nd} :
             descriptor_map'[s][ce] = descriptor_map'[s][cd] => ce = cd
      BY <1>1, <1>11, <2>3, <2>4 DEF SessionInv, MapAt
    <3> QED BY <3>1, <3>2, <3>3
  <2>7. "0" \in Errnos
    BY DEF Errnos
  <2> QED BY <1>1, <1>4, <1>7, <1>10, <2>1, <2>2, <2>3, <2>6, <2>7, NoData, AnswerOK
<1>13. CASE ~(fd > 0)
  <2>1. UNCHANGED mapVars /\ Answer(s, fd, "stale", << >>)
    BY <1>13
  <2>2. MapAt(s)'
    <3>1. Mapped(s)' = Mapped(s)
      BY <2>1 DEF Mapped, mapVars
    <3>2. \A cd \in Mapped(s) : fdt'[s][descriptor_map[s][cd]].kind = "file"
      BY <1>1, <1>8, <1>11 DEF SessionInv, MapAt, IsFile
    <3> QED BY <1>1, <1>9, <2>1, <3>1, <3>2 DEF SessionInv, MapAt, mapVars, IsFile, Early
  <2>3. "stale" \in Errnos /\ fd \in Int
    BY DEF Errnos, Fds
  <2> QED BY <1>1, <1>4, <1>7, <1>10, <2>1, <2>2, <2>3, NoData, AnswerOK
             DEF mapVars, ServerTypeOK, WorkerTypeOK
<1> QED BY <1>12, <1>13

\* open: no answer, a failure, or a new file (handle_request_open).
LEMMA HandleOpen ==
    ASSUME NEW s \in Sessions, IInv, handle_request_open(s), UNCHANGED lpc
    PROVE  StepOK(s)
<1>1. Handles(s, "REQUEST_OPEN") /\ wpc[s] = "handle"
  BY DEF handle_request_open, Handles
<1>2. CASE Abandon(s, "-1")
  BY <1>1, <1>2, AbandonKept
<1>3. ASSUME NEW e \in Errnos, Answer(s, -1, e, << >>), UNCHANGED <<kernelVars, mapVars>>
      PROVE  StepOK(s)
  <2>1. -1 \in Int
    OBVIOUS
  <2> QED BY <1>1, <1>3, <2>1, NoData, FailureKept
<1>4. ASSUME NEW fd \in Fds, Terminated(request[s].path),
             next_descriptor[s] \in Descriptors,
             SysOpen(s, get_path_in_filesystem(s, request[s].path),
                     request[s].oflag, fd),
             IF fd > 0 THEN /\ add_descriptor_to_map(s, fd)
                            /\ Answer(s, next_descriptor[s], "0", << >>)
                       ELSE /\ UNCHANGED mapVars
                            /\ Answer(s, fd, "stale", << >>)
      PROVE  StepOK(s)
  BY <1>1, <1>4, OpenSucceeds
<1>5. \A path, flags : OpenErrors(s, path, flags) \subseteq Errnos
  BY DEF OpenErrors
<1>6. "ENFILE" \in Errnos
  BY DEF Errnos
<1> QED BY <1>2, <1>3, <1>4, <1>5, <1>6 DEF handle_request_open

\* close(2) in the process of one session: the other files stay as they are.
LEMMA CloseEffect ==
    ASSUME NEW s \in Sessions, NEW fds, KernelTypeOK, SysClose(s, fds)
    PROVE  /\ KernelTypeOK' /\ UNCHANGED <<dir, content, euid>>
           /\ \A t \in Sessions \ {s} : fdt'[t] = fdt[t]
           /\ \A fd \in Fds : /\ fd \in fds => ~IsFile(s, fd)'
                              /\ fd \notin fds => fdt'[s][fd] = fdt[s][fd]
<1>1. KernelTypeOK'
  BY SysCloseType
<1>2. fdt' = [fdt EXCEPT ![s] =
                 [fd \in Fds |-> IF fd \in fds THEN FreeSlot ELSE fdt[s][fd]]]
  BY DEF SysClose
<1>3. FreeSlot.kind # "file"
  BY DEF FreeSlot, EmptySlot
<1> QED BY <1>1, <1>2, <1>3 DEF SysClose, KernelTypeOK, IsFile

\* What is left open after that is still the user's.
LEMMA FilesAfterClose ==
    ASSUME NEW s \in Sessions, NEW fds, KernelTypeOK, FilesAt(s), SysClose(s, fds),
           info'[s] = info[s], wpc'[s] \notin Early
    PROVE  FilesAt(s)'
BY CloseEffect DEF FilesAt, IsFile, Grants, Authorized

\* close: the file and its entry go together (handle_request_close).
LEMMA HandleClose ==
    ASSUME NEW s \in Sessions, IInv, handle_request_close(s), UNCHANGED lpc
    PROVE  StepOK(s)
<1> DEFINE cd == ClientFd(s)
<1>1. Handles(s, "REQUEST_CLOSE")
  BY DEF handle_request_close
<1>2. ServerTypeOK /\ SessionInv(s) /\ wpc[s] = "handle"
  BY <1>1, HandlerFacts
<1>3. CASE AnswerEBADF(s)
  BY <1>2, <1>3, EBADFKept
<1>4. CASE /\ is_descriptor_in_map(s, cd)
           /\ SysClose(s, {Target(s)})
           /\ remove_descriptor_from_map(s, cd)
           /\ Answer(s, 0, "0", << >>)
  <2>1. cd \in Mapped(s) /\ Target(s) = descriptor_map[s][cd]
    BY <1>4 DEF is_descriptor_in_map, Mapped, Target, get_descriptor_from_map
  <2>2. /\ KernelTypeOK' /\ UNCHANGED euid
        /\ \A t \in Sessions \ {s} : fdt'[t] = fdt[t]
        /\ \A fd \in Fds : fd # Target(s) => fdt'[s][fd] = fdt[s][fd]
    BY <1>2, <1>4, CloseEffect DEF ServerTypeOK
  <2>3. wpc'[s] = "reply" /\ UNCHANGED info
    BY <1>2, <1>4 DEF Answer, Goto, sessionVars, ServerTypeOK, WorkerTypeOK
  <2>4. FilesAt(s)'
    BY <1>2, <1>4, <2>3, FilesAfterClose DEF SessionInv, Early, ServerTypeOK
  <2>5. /\ descriptor_map' \in [Sessions -> [Descriptors -> Fds \cup {NoFd}]]
        /\ next_descriptor' = next_descriptor
        /\ descriptor_map'[s][cd] = NoFd
        /\ \A ce \in Descriptors \ {cd} : descriptor_map'[s][ce] = descriptor_map[s][ce]
        /\ \A t \in Sessions \ {s} : descriptor_map'[t] = descriptor_map[t]
    BY <1>2, <1>4, <2>1
       DEF remove_descriptor_from_map, ServerTypeOK, WorkerTypeOK, Mapped
  <2>6. Mapped(s)' = Mapped(s) \ {cd}
    BY <2>5 DEF Mapped
  <2>7. MapAt(s)'
    <3> SUFFICES ASSUME NEW ce \in Mapped(s) \ {cd}
                 PROVE  /\ ce < next_descriptor[s]
                        /\ fdt'[s][descriptor_map'[s][ce]].kind = "file"
                        /\ \A cf \in Mapped(s) \ {cd} :
                              descriptor_map'[s][cf] = descriptor_map'[s][ce]
                              => cf = ce
      BY <2>3, <2>5, <2>6 DEF MapAt, IsFile, Early
    <3>1. descriptor_map[s][ce] \in Fds /\ descriptor_map[s][ce] # Target(s)
      BY <1>2, <2>1 DEF Mapped, SessionInv, MapAt, ServerTypeOK, WorkerTypeOK
    <3>2. \A cf \in Mapped(s) \ {cd} : descriptor_map'[s][cf] = descriptor_map[s][cf]
      BY <2>5 DEF Mapped
    <3> QED BY <1>2, <2>2, <3>1, <3>2 DEF SessionInv, MapAt, IsFile
  <2>8. 0 \in Int /\ "0" \in Errnos
    BY DEF Errnos
  <2> QED BY <1>2, <1>4, <2>2, <2>4, <2>5, <2>7, <2>8, NoData, AnswerOK
             DEF ServerTypeOK, WorkerTypeOK
<1> QED BY <1>3, <1>4 DEF handle_request_close

\* A worker that dies, or that returns, keeps its invariant until its end.
LEMMA DeathKept ==
    ASSUME NEW s \in Sessions, IInv, wpc[s] = "handle", Dies(s, "killed"),
           UNCHANGED <<tcpVars, kernelVars, sessionVars, mapVars, messageVars, lpc>>
    PROVE  StepOK(s)
<1>1. SessionInv(s) /\ ServerTypeOK
  BY DEF IInv
<1>2. TcpTypeOK' /\ KernelTypeOK' /\ lpc' \in {"listening", "down"}
  BY <1>1 DEF tcpVars, kernelVars, TcpTypeOK, KernelTypeOK, ServerTypeOK
<1>3. /\ wpc' \in [Sessions -> Stages] /\ wpc'[s] = "exit"
      /\ \A t \in Sessions \ {s} : wpc'[t] = wpc[t]
      /\ status' \in [Sessions -> {"none", "0", "-1", "EBADMSG", "123", "killed"}]
  BY <1>1 DEF Dies, ServerTypeOK, WorkerTypeOK, Stages
<1>4. WorkerTypeOK'
  BY <1>1, <1>3 DEF sessionVars, mapVars, messageVars, ServerTypeOK, WorkerTypeOK
<1>5. \A t \in Sessions : KeepsFiles(t) /\ KeepsLogin(t)
  BY DEF tcpVars, kernelVars, sessionVars, mapVars, KeepsFiles, KeepsLogin
<1>6. \A t \in Sessions \ {s} : SameAt(t)
  BY <1>3, <1>5 DEF SameAt, kernelVars, messageVars
<1>7. IdentityAt(s)' /\ MessagesAt(s)'
  BY <1>3 DEF IdentityAt, MessagesAt
<1>8. SessionInv(s)'
  BY <1>1, <1>3, <1>5, <1>7, ServingKept DEF Early, Serving, ServerTypeOK
<1> QED BY <1>2, <1>4, <1>6, <1>8 DEF StepOK, ServerTypeOK

\* read: the bytes from the position on, or the death of the process.
LEMMA HandleRead ==
    ASSUME NEW s \in Sessions, IInv, handle_request_read(s), UNCHANGED lpc
    PROVE  StepOK(s)
<1> DEFINE data == ReadData(s, Target(s), request[s].size)
<1>1. Handles(s, "REQUEST_READ")
  BY DEF handle_request_read
<1>2. /\ ServerTypeOK /\ wpc[s] = "handle" /\ request[s].size \in Nat
  BY <1>1, HandlerFacts, MessageFields
<1>3. CASE ~Readable(s)
  BY <1>2, <1>3, DeathKept DEF handle_request_read
<1>4. CASE Readable(s)
  <2>1. /\ SysRead(s, Target(s), request[s].size)
        /\ Answer(s, Len(data), "0", data) /\ UNCHANGED mapVars
    BY <1>4 DEF handle_request_read
  <2>2. /\ Target(s) \in Fds /\ IsFile(s, Target(s))
        /\ fdt[s][Target(s)].ino \in Inodes /\ fdt[s][Target(s)] \in Slot
    BY <1>4, TargetType DEF Readable
  <2>3. KernelTypeOK
    BY <1>2 DEF ServerTypeOK
  <2>4. data \in Seq(Nat)
    BY <1>2, <2>2, <2>3, ReadDataType
  <2>5. KernelTypeOK' /\ UNCHANGED euid
    <3>1. ReadData(s, Target(s), request[s].size) \in Seq(Nat) /\ request[s].size \in Int
      BY <1>2, <2>4
    <3>2. KernelTypeOK'
      BY ONLY <2>1, <2>2, <2>3, <3>1, SysReadType
    <3> QED BY <2>1, <3>2 DEF SysRead
  <2>6. fdt' = [fdt EXCEPT ![s][Target(s)].pos = @ + Len(data)]
    BY <2>1 DEF SysRead
  <2>7. KeepsFiles(s) /\ \A t \in Sessions \ {s} : fdt'[t] = fdt[t]
    BY <2>1, <2>2, <2>3, <2>6 DEF KeepsFiles, KernelTypeOK, Slot, mapVars
  <2>8. Len(data) \in Int /\ "0" \in Errnos
    BY <2>4, LenProperties DEF Errnos
  <2> QED BY <1>2, <2>1, <2>4, <2>5, <2>7, <2>8, AnswerKept
<1> QED BY <1>3, <1>4

\* write: as many bytes as there is room for, or a failure.
LEMMA HandleWrite ==
    ASSUME NEW s \in Sessions, IInv, handle_request_write(s), UNCHANGED lpc
    PROVE  StepOK(s)
<1> DEFINE data == request[s].data
           n == WriteCount(s, Target(s), data)
<1>1. Handles(s, "REQUEST_WRITE")
  BY DEF handle_request_write
<1>2. /\ ServerTypeOK /\ KernelTypeOK /\ wpc[s] = "handle" /\ data \in Seq(Nat)
  BY <1>1, HandlerFacts, MessageFields DEF ServerTypeOK
<1>3. CASE AnswerEBADF(s)
  BY <1>2, <1>3, EBADFKept
<1>4. CASE Answer(s, -1, "EFBIG", << >>) /\ UNCHANGED kernelVars /\ UNCHANGED mapVars
  <2>1. -1 \in Int /\ "EFBIG" \in Errnos
    BY DEF Errnos
  <2> QED BY <1>2, <1>4, <2>1, NoData, FailureKept
<1>5. CASE /\ Usable(s, {"WR"}) /\ SysWrite(s, Target(s), data)
           /\ Answer(s, n, "0", << >>) /\ UNCHANGED mapVars
  <2>1. /\ Target(s) \in Fds /\ fdt[s][Target(s)].ino \in Inodes
        /\ fdt[s][Target(s)] \in Slot
    BY <1>5, TargetType
  <2>2. KernelTypeOK' /\ n \in 0..Len(data)
    BY <1>2, <1>5, <2>1, SysWriteType
  <2>3. n \in Int
    BY <1>2, <2>2, LenProperties
  <2>4. UNCHANGED euid
    BY <1>5 DEF SysWrite
  <2>5. KeepsFiles(s) /\ \A t \in Sessions \ {s} : fdt'[t] = fdt[t]
    <3>1. CASE UNCHANGED fdt
      BY <1>5, <3>1 DEF KeepsFiles, mapVars
    <3>2. CASE fdt' = [fdt EXCEPT ![s][Target(s)].pos = WritePos(s, Target(s)) + n]
      BY <1>2, <1>5, <2>1, <3>2 DEF KeepsFiles, KernelTypeOK, Slot, mapVars
    <3> QED BY <1>5, <3>1, <3>2 DEF SysWrite
  <2>6. "0" \in Errnos
    BY DEF Errnos
  <2> QED BY <1>2, <1>5, <2>2, <2>3, <2>4, <2>5, <2>6, NoData, AnswerKept
<1> QED BY <1>3, <1>4, <1>5 DEF handle_request_write

\* The low-order word of an integer is an integer.
LEMMA ToIntType ==
    ASSUME NEW x \in Int
    PROVE  ToInt(x) \in Int
BY MessagesAssumption DEF ToInt

\* lseek: a new position, or a failure.
LEMMA HandleLseek ==
    ASSUME NEW s \in Sessions, IInv, handle_request_lseek(s), UNCHANGED lpc
    PROVE  StepOK(s)
<1> DEFINE pos == SeekTarget(s, Target(s), request[s].offset, request[s].whence)
           errno == IF ToInt(pos) = 0 THEN "0" ELSE "stale"
<1>1. Handles(s, "REQUEST_LSEEK")
  BY DEF handle_request_lseek
<1>2. /\ ServerTypeOK /\ KernelTypeOK /\ wpc[s] = "handle"
  BY <1>1, HandlerFacts DEF ServerTypeOK
<1>3. CASE AnswerEBADF(s)
  BY <1>2, <1>3, EBADFKept
<1>4. CASE Answer(s, -1, "EINVAL", << >>) /\ UNCHANGED kernelVars /\ UNCHANGED mapVars
  <2>1. -1 \in Int /\ "EINVAL" \in Errnos
    BY DEF Errnos
  <2> QED BY <1>2, <1>4, <2>1, NoData, FailureKept
<1>5. CASE /\ Usable(s, {}) /\ pos \in 0..MaxOffset /\ SysLseek(s, Target(s), pos)
           /\ Answer(s, ToInt(pos), errno, << >>) /\ UNCHANGED mapVars
  <2>1. Target(s) \in Fds /\ fdt[s][Target(s)] \in Slot
    BY <1>5, TargetType
  <2>2. pos \in Nat
    BY <1>5
  <2>3. KernelTypeOK' /\ UNCHANGED euid
    BY <1>2, <1>5, <2>1, <2>2, SysLseekType DEF SysLseek
  <2>4. KeepsFiles(s) /\ \A t \in Sessions \ {s} : fdt'[t] = fdt[t]
    BY <1>2, <1>5, <2>1 DEF SysLseek, KeepsFiles, KernelTypeOK, Slot, mapVars
  <2>5. ToInt(pos) \in Int /\ errno \in Errnos
    BY <2>2, ToIntType DEF Errnos
  <2> QED BY <1>2, <1>5, <2>3, <2>4, <2>5, NoData, AnswerKept
<1> QED BY <1>3, <1>4, <1>5 DEF handle_request_lseek

\* fstat: the inode and the size of the file.
LEMMA HandleFstat ==
    ASSUME NEW s \in Sessions, IInv, handle_request_fstat(s), UNCHANGED lpc
    PROVE  StepOK(s)
<1> DEFINE i == fdt[s][Target(s)].ino
<1>1. Handles(s, "REQUEST_FSTAT")
  BY DEF handle_request_fstat
<1>2. KernelTypeOK /\ wpc[s] = "handle"
  BY <1>1, HandlerFacts DEF ServerTypeOK
<1>3. CASE AnswerEBADF(s)
  BY <1>2, <1>3, EBADFKept
<1>4. CASE /\ Usable(s, {}) /\ Answer(s, 0, "0", <<i, Len(content[i])>>)
           /\ UNCHANGED <<kernelVars, mapVars>>
  <2>1. i \in Nat /\ i \in Inodes
    BY <1>4, TargetType, KernelAssumption
  <2>2. Len(content[i]) \in Nat
    BY <1>2, <2>1, LenProperties DEF KernelTypeOK
  <2>3. <<i, Len(content[i])>> \in Seq(Nat)
    BY <2>1, <2>2
  <2>4. 0 \in Int /\ "0" \in Errnos
    BY DEF Errnos
  <2> QED BY <1>2, <1>4, <2>3, <2>4, FailureKept
<1> QED BY <1>3, <1>4 DEF handle_request_fstat

\* unlink: no answer, a failure, or one name less.
LEMMA HandleUnlink ==
    ASSUME NEW s \in Sessions, IInv, handle_request_unlink(s), UNCHANGED lpc
    PROVE  StepOK(s)
<1> DEFINE path == get_path_in_filesystem(s, request[s].path)
<1>1. Handles(s, "REQUEST_UNLINK")
  BY DEF handle_request_unlink
<1>2. /\ KernelTypeOK /\ wpc[s] = "handle" /\ filesystem_prefix[s] \in Dirs
      /\ request[s].path \in Text
  BY <1>1, HandlerFacts, MessageFields DEF ServerTypeOK
<1>3. CASE Abandon(s, "-1")
  BY <1>2, <1>3, AbandonKept
<1>4. ASSUME NEW e \in UnlinkErrors(s, path), Answer(s, -1, e, << >>),
             UNCHANGED kernelVars, UNCHANGED mapVars
      PROVE  StepOK(s)
  <2>1. -1 \in Int /\ e \in Errnos
    BY DEF UnlinkErrors
  <2> QED BY <1>2, <1>4, <2>1, NoData, FailureKept
<1>5. CASE /\ Terminated(request[s].path) /\ SysUnlink(s, path)
           /\ Answer(s, 0, "0", << >>) /\ UNCHANGED mapVars
  <2>1. path \in Paths
    BY <1>2, <1>5, PathType
  <2>2. KernelTypeOK' /\ UNCHANGED <<fdt, euid>>
    BY <1>2, <1>5, <2>1, SysUnlinkType DEF SysUnlink
  <2>3. KeepsFiles(s)
    BY <1>5, <2>2 DEF KeepsFiles, mapVars
  <2>4. 0 \in Int /\ "0" \in Errnos
    BY DEF Errnos
  <2> QED BY <1>2, <1>5, <2>2, <2>3, <2>4, NoData, AnswerKept
<1> QED BY <1>3, <1>4, <1>5 DEF handle_request_unlink

\* A change of the lock of an open file keeps what its slot stands for.
LEMMA LockEffect ==
    ASSUME NEW s \in Sessions, IInv, NEW mode \in LockModes, Usable(s, {}),
           SetLock(s, Target(s), mode), UNCHANGED mapVars
    PROVE  /\ KernelTypeOK' /\ UNCHANGED euid /\ KeepsFiles(s)
           /\ \A t \in Sessions \ {s} : fdt'[t] = fdt[t]
<1>1. Target(s) \in Fds /\ fdt[s][Target(s)] \in Slot /\ KernelTypeOK
  BY TargetType DEF IInv, ServerTypeOK
<1>2. KernelTypeOK'
  BY <1>1, SetLockType
<1>3. KeepsFiles(s) /\ \A t \in Sessions \ {s} : fdt'[t] = fdt[t]
  BY <1>1 DEF SetLock, KeepsFiles, KernelTypeOK, Slot, mapVars
<1> QED BY <1>2, <1>3 DEF SetLock

\* flock: done at once, or the old lock is gone and the new one is waited for.
LEMMA HandleFlock ==
    ASSUME NEW s \in Sessions, IInv, handle_request_flock(s), UNCHANGED lpc
    PROVE  StepOK(s)
<1> DEFINE mode == request[s].operation
<1>1. Handles(s, "REQUEST_FLOCK")
  BY DEF handle_request_flock
<1>2. /\ ServerTypeOK /\ SessionInv(s) /\ wpc[s] = "handle" /\ mode \in LockModes
      /\ request[s] \in MSG /\ request[s].code = "REQUEST_FLOCK"
  BY <1>1, HandlerFacts, MessageFields
<1>3. "UN" \in LockModes /\ 0 \in Int /\ "0" \in Errnos
  BY DEF LockModes, Errnos
<1>4. CASE AnswerEBADF(s)
  BY <1>2, <1>4, EBADFKept
<1>5. CASE /\ Usable(s, {}) /\ SetLock(s, Target(s), mode)
           /\ Answer(s, 0, "0", << >>) /\ UNCHANGED mapVars
  <2>1. /\ KernelTypeOK' /\ UNCHANGED euid /\ KeepsFiles(s)
        /\ \A t \in Sessions \ {s} : fdt'[t] = fdt[t]
    BY <1>2, <1>5, LockEffect
  <2> QED BY <1>2, <1>3, <1>5, <2>1, NoData, AnswerKept
<1>6. CASE /\ Usable(s, {}) /\ SetLock(s, Target(s), "UN") /\ Goto(s, "flock")
           /\ UNCHANGED <<tcpVars, sessionVars, messageVars>> /\ UNCHANGED mapVars
  <2>1. /\ KernelTypeOK' /\ UNCHANGED euid /\ KeepsFiles(s)
        /\ \A t \in Sessions \ {s} : fdt'[t] = fdt[t]
    BY <1>3, <1>6, LockEffect
  <2>2. TcpTypeOK' /\ lpc' \in {"listening", "down"}
    BY <1>2, <1>6 DEF tcpVars, TcpTypeOK, ServerTypeOK
  <2>3. /\ wpc' \in [Sessions -> Stages] /\ wpc'[s] = "flock" /\ UNCHANGED status
        /\ \A t \in Sessions \ {s} : wpc'[t] = wpc[t]
    BY <1>2, <1>6 DEF Goto, ServerTypeOK, WorkerTypeOK, Stages
  <2>4. WorkerTypeOK'
    BY <1>2, <1>6, <2>3 DEF sessionVars, mapVars, messageVars, ServerTypeOK, WorkerTypeOK
  <2>5. \A t \in Sessions : KeepsFiles(t) /\ KeepsLogin(t)
    BY <1>6, <2>1 DEF tcpVars, sessionVars, mapVars, KeepsFiles, KeepsLogin
  <2>6. \A t \in Sessions \ {s} : SameAt(t)
    BY <1>6, <2>1, <2>3, <2>5 DEF SameAt, messageVars
  <2>7. IdentityAt(s)' /\ MessagesAt(s)'
    <3>1. Usable(s, {})'
      <4>1. Target(s) \in Fds
        BY <1>6, TargetType
      <4> QED BY <1>6, <2>1, <4>1
              DEF Usable, IsFile, is_descriptor_in_map, get_descriptor_from_map,
                  Target, ClientFd, KeepsFiles, messageVars
    <3> QED BY <1>2, <1>6, <2>1, <2>3, <3>1
            DEF SessionInv, IdentityAt, MessagesAt, sessionVars, messageVars
  <2>8. authenticated[s]
    BY <1>2 DEF SessionInv, LoginAt, Serving
  <2>9. SessionInv(s)'
    BY <1>2, <2>3, <2>5, <2>7, <2>8, ServingKept DEF Early, ServerTypeOK
  <2> QED BY <2>1, <2>2, <2>4, <2>6, <2>9 DEF StepOK, ServerTypeOK
<1> QED BY <1>4, <1>5, <1>6 DEF handle_request_flock

\* The end of the wait for a lock.
LEMMA FlockEnds ==
    ASSUME NEW s \in Sessions, IInv, flock_ends(s), UNCHANGED lpc
    PROVE  StepOK(s)
<1> DEFINE mode == request[s].operation
<1>1. /\ wpc[s] = "flock" /\ request[s] \in MSG /\ request[s].code = "REQUEST_FLOCK"
      /\ Usable(s, {})
  BY DEF flock_ends, IInv, SessionInv, MessagesAt
<1>2. mode \in LockModes
  BY <1>1, MessageFields
<1>3. 0 \in Int /\ -1 \in Int /\ "0" \in Errnos /\ "EWOULDBLOCK" \in Errnos
  BY DEF Errnos
<1>4. CASE SetLock(s, Target(s), mode) /\ Answer(s, 0, "0", << >>) /\ UNCHANGED mapVars
  <2>1. /\ KernelTypeOK' /\ UNCHANGED euid /\ KeepsFiles(s)
        /\ \A t \in Sessions \ {s} : fdt'[t] = fdt[t]
    BY <1>1, <1>2, <1>4, LockEffect
  <2> QED BY <1>1, <1>3, <1>4, <2>1, NoData, AnswerKept
<1>5. CASE /\ Answer(s, -1, "EWOULDBLOCK", << >>) /\ UNCHANGED kernelVars
           /\ UNCHANGED mapVars
  BY <1>1, <1>3, <1>5, NoData, FailureKept
<1> QED BY <1>4, <1>5 DEF flock_ends

-----------------------------------------------------------------------------
\* The answer is sent, and the worker is back in server mode (exit_user_mode).
LEMMA SendResult ==
    ASSUME NEW s \in Sessions, IInv, send_result(s), UNCHANGED lpc
    PROVE  StepOK(s)
<1>1. /\ SessionInv(s) /\ ServerTypeOK /\ wpc[s] = "reply" /\ authenticated[s]
      /\ response[s] \in MSG
  BY DEF IInv, send_result, SessionInv, LoginAt, MessagesAt, Serving, MSG
<1>2. PICK outcome \in SendOutcomes(cend[s]) :
        /\ WorkerSend(s, response[s], outcome)
        /\ \/ outcome = "sent"    /\ Goto(s, "serve")  /\ exit_user_mode(s)
           \/ outcome = "error"   /\ Returns(s, "-1")  /\ exit_user_mode(s)
           \/ outcome = "sigpipe" /\ Dies(s, "killed") /\ UNCHANGED euid
  BY DEF send_result
<1>3. TcpTypeOK' /\ lpc' \in {"listening", "down"}
  BY <1>1, <1>2, WorkerSendType DEF ServerTypeOK
<1>4. KernelTypeOK' /\ \A t \in Sessions \ {s} : euid'[t] = euid[t]
  BY <1>1, <1>2, KernelAssumption
     DEF send_result, exit_user_mode, KernelTypeOK, ServerTypeOK
<1>5. /\ wpc' \in [Sessions -> Stages] /\ wpc'[s] \in {"serve", "unwind", "exit"}
      /\ \A t \in Sessions \ {s} : wpc'[t] = wpc[t]
      /\ status' \in [Sessions -> {"none", "0", "-1", "EBADMSG", "123", "killed"}]
  BY <1>1, <1>2 DEF Goto, Returns, Dies, ServerTypeOK, WorkerTypeOK, Stages
<1>6. /\ WorkerTypeOK'
      /\ \A t \in Sessions \ {s} : request'[t] = request[t] /\ response'[t] = response[t]
  BY <1>1, <1>5
     DEF send_result, Forget, sessionVars, mapVars, ServerTypeOK, WorkerTypeOK
<1>7. \A t \in Sessions : KeepsFiles(t) /\ KeepsLogin(t)
  BY <1>2 DEF send_result, WorkerSend, sessionVars, mapVars, KeepsFiles, KeepsLogin
<1>8. \A t \in Sessions \ {s} : SameAt(t)
  BY <1>4, <1>5, <1>6, <1>7 DEF send_result, SameAt
<1>9. IdentityAt(s)' /\ MessagesAt(s)'
  BY <1>5 DEF IdentityAt, MessagesAt
<1>10. SessionInv(s)'
  BY <1>1, <1>5, <1>7, <1>9, ServingKept DEF Early, Serving, ServerTypeOK
<1> QED BY <1>3, <1>4, <1>6, <1>8, <1>10 DEF StepOK, ServerTypeOK

\* An empty map is sound.
LEMMA EmptyMapAt ==
    ASSUME NEW s \in Sessions, descriptor_map'[s] = EmptyMap
    PROVE  MapAt(s)'
<1>1. Mapped(s)' = {}
  BY DEF Mapped, EmptyMap
<1> QED BY <1>1 DEF MapAt

\* The destructor closes what is mapped and the map goes (~NFSServerWorker).
LEMMA Destroy ==
    ASSUME NEW s \in Sessions, IInv, destroy(s), UNCHANGED lpc
    PROVE  StepOK(s)
<1>1. SessionInv(s) /\ ServerTypeOK /\ KernelTypeOK /\ wpc[s] = "unwind"
  BY DEF IInv, destroy, ServerTypeOK
<1>2. TcpTypeOK' /\ lpc' \in {"listening", "down"}
  BY <1>1 DEF destroy, tcpVars, TcpTypeOK, ServerTypeOK
<1>3. PICK fds : SysClose(s, fds)
  BY DEF destroy
<1>4. /\ KernelTypeOK' /\ UNCHANGED euid
      /\ \A t \in Sessions \ {s} : fdt'[t] = fdt[t]
  BY <1>1, <1>3, CloseEffect
<1>5. /\ wpc' \in [Sessions -> Stages] /\ wpc'[s] = "exit" /\ UNCHANGED status
      /\ \A t \in Sessions \ {s} : wpc'[t] = wpc[t]
  BY <1>1 DEF destroy, Goto, ServerTypeOK, WorkerTypeOK, Stages
<1>6. EmptyMap \in [Descriptors -> Fds \cup {NoFd}]
  BY DEF EmptyMap
<1>7. /\ descriptor_map' \in [Sessions -> [Descriptors -> Fds \cup {NoFd}]]
      /\ descriptor_map'[s] = EmptyMap
      /\ \A t \in Sessions \ {s} : descriptor_map'[t] = descriptor_map[t]
  BY <1>1, <1>6 DEF destroy, ServerTypeOK, WorkerTypeOK
<1>8. WorkerTypeOK'
  BY <1>1, <1>5, <1>7 DEF destroy, sessionVars, messageVars, ServerTypeOK, WorkerTypeOK
<1>9. \A t \in Sessions : KeepsLogin(t)
  BY DEF destroy, tcpVars, sessionVars, KeepsLogin
<1>10. \A t \in Sessions \ {s} : SameAt(t)
  BY <1>4, <1>5, <1>7, <1>9 DEF destroy, SameAt, KeepsFiles, messageVars
<1>11. SessionInv(s)'
  <2>1. FilesAt(s)'
    BY <1>1, <1>3, <1>5, <1>9, FilesAfterClose DEF SessionInv, KeepsLogin, Early
  <2>2. SocketAt(s)' /\ LoginAt(s)'
    BY <1>1, <1>5, <1>9, LoginKept
       DEF SessionInv, SocketAt, KeepsLogin, Early, Serving
  <2>3. IdentityAt(s)' /\ MessagesAt(s)'
    BY <1>5 DEF IdentityAt, MessagesAt
  <2> QED BY <1>7, <2>1, <2>2, <2>3, EmptyMapAt DEF SessionInv
<1> QED BY <1>2, <1>4, <1>8, <1>10, <1>11 DEF StepOK, ServerTypeOK

\* The kernel closes every descriptor of a process that ends.
LEMMA ExitProcess ==
    ASSUME NEW s \in Sessions, IInv, exit_process(s), UNCHANGED lpc
    PROVE  StepOK(s)
<1>1. SessionInv(s) /\ ServerTypeOK /\ KernelTypeOK /\ wpc[s] = "exit"
  BY DEF IInv, exit_process, ServerTypeOK
<1>2. TcpTypeOK' /\ lpc' \in {"listening", "down"}
  BY <1>1, WorkerClosesType DEF exit_process, ServerTypeOK
<1>3. /\ KernelTypeOK' /\ UNCHANGED euid
      /\ \A t \in Sessions \ {s} : fdt'[t] = fdt[t]
  BY <1>1, CloseEffect DEF exit_process
<1>4. /\ wpc' \in [Sessions -> Stages] /\ wpc'[s] = "zombie" /\ UNCHANGED status
      /\ \A t \in Sessions \ {s} : wpc'[t] = wpc[t]
  BY <1>1 DEF exit_process, Goto, ServerTypeOK, WorkerTypeOK, Stages
<1>5. EmptyMap \in [Descriptors -> Fds \cup {NoFd}]
  BY DEF EmptyMap
<1>6. /\ descriptor_map' \in [Sessions -> [Descriptors -> Fds \cup {NoFd}]]
      /\ descriptor_map'[s] = EmptyMap
      /\ \A t \in Sessions \ {s} : descriptor_map'[t] = descriptor_map[t]
  BY <1>1, <1>5 DEF exit_process, ServerTypeOK, WorkerTypeOK
<1>7. /\ WorkerTypeOK'
      /\ \A t \in Sessions \ {s} : request'[t] = request[t] /\ response'[t] = response[t]
  BY <1>1, <1>4, <1>6 DEF exit_process, Forget, sessionVars, ServerTypeOK, WorkerTypeOK
<1>8. /\ UNCHANGED <<cend, sessionVars>> /\ wend'[s] = "closed"
      /\ \A t \in Sessions \ {s} : wend'[t] = wend[t]
  BY <1>1 DEF exit_process, WorkerCloses, ServerTypeOK, TcpTypeOK
<1>9. \A t \in Sessions \ {s} : SameAt(t)
  BY <1>3, <1>4, <1>6, <1>7, <1>8
     DEF exit_process, SameAt, KeepsFiles, KeepsLogin, sessionVars
<1>10. SessionInv(s)'
  <2>1. FilesAt(s)'
    BY <1>1, <1>4, <1>8, FilesAfterClose DEF exit_process, SessionInv, Early, sessionVars
  <2>2. SocketAt(s)'
    <3>1. cend[s] # "unused"
      BY <1>1 DEF SessionInv, SocketAt
    <3> QED BY <1>8, <3>1 DEF SocketAt
  <2>3. LoginAt(s)'
    BY <1>1, <1>4, <1>8
       DEF SessionInv, LoginAt, Authorized, Early, Serving, sessionVars
  <2>4. IdentityAt(s)' /\ MessagesAt(s)'
    BY <1>4 DEF IdentityAt, MessagesAt
  <2> QED BY <1>6, <2>1, <2>2, <2>3, <2>4, EmptyMapAt DEF SessionInv
<1> QED BY <1>2, <1>3, <1>7, <1>9, <1>10 DEF StepOK, ServerTypeOK

\* Every step of a worker.
LEMMA WorkerKeepsIInv ==
    ASSUME NEW s \in Sessions, IInv, WorkerStep(s), UNCHANGED lpc
    PROVE  IInv'
<1>1. CASE authenticate(s)
  BY <1>1, AskInfo, ReceiveInfo, Select, SendVerdict, StepKeepsIInv DEF authenticate
<1>2. CASE receive_request(s) \/ send_result(s) \/ receive_fails(s)
  BY <1>2, ReceiveRequest, SendResult, ReceiveFails, StepKeepsIInv
<1>3. CASE handle_request(s)
  BY <1>3, HandleOpen, HandleClose, HandleRead, HandleWrite, HandleLseek, HandleFstat,
     HandleUnlink, HandleFlock, FlockEnds, LoopEnds, StepKeepsIInv DEF handle_request
<1>4. CASE destroy(s) \/ exit_process(s)
  BY <1>4, Destroy, ExitProcess, StepKeepsIInv
<1> QED BY <1>1, <1>2, <1>3, <1>4 DEF WorkerStep

-----------------------------------------------------------------------------
\* A connection is accepted and its worker is born without a file (fork).
LEMMA AcceptAndFork ==
    ASSUME NEW s \in Sessions, IInv, accept_and_fork(s)
    PROVE  StepOK(s)
<1>1. SessionInv(s) /\ ServerTypeOK /\ wpc[s] = "none"
  BY DEF IInv, accept_and_fork, SessionInv, SocketAt
<1>2. /\ wend' \in [Sessions -> {"unused", "backlog", "open", "closed"}]
      /\ wend'[s] = "open" /\ \A t \in Sessions \ {s} : wend'[t] = wend[t]
  BY <1>1 DEF accept_and_fork, ServerTypeOK, TcpTypeOK
<1>3. TcpTypeOK' /\ lpc' \in {"listening", "down"}
  BY <1>1, <1>2 DEF accept_and_fork, ServerTypeOK, TcpTypeOK
<1>4. BornTable \in [Fds -> Slot] /\ \A fd \in Fds : BornTable[fd].kind # "file"
  BY EmptySlotType DEF BornTable, FreeSlot, EmptySlot
<1>5. KernelTypeOK' /\ fdt'[s] = BornTable /\ \A t \in Sessions \ {s} : fdt'[t] = fdt[t]
  BY <1>1, <1>4 DEF accept_and_fork, ServerTypeOK, KernelTypeOK
<1>6. /\ wpc' \in [Sessions -> Stages] /\ wpc'[s] = "ask" /\ UNCHANGED status
      /\ \A t \in Sessions \ {s} : wpc'[t] = wpc[t]
  BY <1>1 DEF accept_and_fork, Goto, ServerTypeOK, WorkerTypeOK, Stages
<1>7. WorkerTypeOK'
  BY <1>1, <1>6
     DEF accept_and_fork, sessionVars, mapVars, messageVars, ServerTypeOK, WorkerTypeOK
<1>8. \A t \in Sessions \ {s} : SameAt(t)
  BY <1>2, <1>5, <1>6 DEF accept_and_fork, SameAt, KeepsFiles, KeepsLogin,
                          sessionVars, mapVars, messageVars
<1>9. SessionInv(s)'
  <2>1. SocketAt(s)'
    BY <1>1, <1>2 DEF accept_and_fork, SessionInv, SocketAt
  <2>2. LoginAt(s)'
    <3>1. Len(<< >>) \in 0..2
      BY EmptySeq
    <3> QED BY <1>1, <1>6, <3>1
            DEF accept_and_fork, SessionInv, LoginAt, sessionVars, Early, Serving
  <2>3. IdentityAt(s)' /\ MessagesAt(s)'
    BY <1>6 DEF IdentityAt, MessagesAt
  <2>4. FilesAt(s)'
    BY <1>4, <1>5 DEF FilesAt, IsFile
  <2>5. MapAt(s)'
    <3>1. Mapped(s)' = {}
      BY <1>1 DEF accept_and_fork, SessionInv, MapAt, Early, Mapped, mapVars
    <3> QED BY <3>1 DEF MapAt
  <2> QED BY <2>1, <2>2, <2>3, <2>4, <2>5 DEF SessionInv
<1> QED BY <1>3, <1>5, <1>7, <1>8, <1>9 DEF StepOK, ServerTypeOK

\* Steps that change connections only: a connection that is still waiting may
\* be made or closed, and no closed or open end becomes unused.
LEMMA ConnectionsChange ==
    ASSUME IInv, UNCHANGED <<kernelVars, workerVars>>, TcpTypeOK',
           lpc' \in {"listening", "down"},
           \A s \in Sessions :
              /\ cend'[s] = "unused" => cend[s] = "unused" /\ wend'[s] = wend[s]
              /\ wend'[s] \in {"unused", "backlog"} =>
                    wend[s] \in {"unused", "backlog"}
    PROVE  IInv'
<1>1. ServerTypeOK'
  BY DEF IInv, ServerTypeOK, KernelTypeOK, WorkerTypeOK, kernelVars, workerVars
<1>2. ASSUME NEW s \in Sessions PROVE SessionInv(s)'
  <2>1. SessionInv(s) /\ WorkerTypeOK
    BY DEF IInv, ServerTypeOK
  <2>2. KeepsFiles(s)
    BY DEF KeepsFiles, kernelVars, workerVars
  <2>3. FilesAt(s)' /\ MapAt(s)'
    BY <2>1, <2>2, FilesKept, MapKept DEF SessionInv, workerVars
  <2>4. SocketAt(s)'
    BY <2>1 DEF SessionInv, SocketAt, workerVars
  <2>5. LoginAt(s)' /\ IdentityAt(s)'
    BY <2>1 DEF SessionInv, LoginAt, IdentityAt, Authorized, workerVars, kernelVars
  <2>6. MessagesAt(s)'
    BY <2>1 DEF SessionInv, MessagesAt, Usable, IsFile, ClientFd,
                is_descriptor_in_map, get_descriptor_from_map, workerVars, kernelVars
  <2> QED BY <2>3, <2>4, <2>5, <2>6 DEF SessionInv
<1> QED BY <1>1, <1>2 DEF IInv

\* The listener: accept and fork, or one of them fails.
LEMMA ListenerKeepsIInv ==
    ASSUME IInv, ListenerStep
    PROVE  IInv'
<1>1. ServerTypeOK /\ TcpTypeOK
  BY DEF IInv, ServerTypeOK
<1>2. CASE accept_fails
  <2>1. TcpTypeOK'
    BY <1>1, <1>2, EmptySeq DEF accept_fails, TcpTypeOK
  <2>2. \A s \in Sessions :
           wend'[s] = IF wend[s] = "backlog" THEN "closed" ELSE wend[s]
    BY <1>2 DEF accept_fails
  <2>3. \A s \in Sessions : cend[s] = "unused" => wend[s] = "unused"
    BY DEF IInv, SessionInv, SocketAt
  <2> QED BY <1>2, <2>1, <2>2, <2>3, ConnectionsChange DEF accept_fails
<1>3. ASSUME NEW s \in Sessions, accept_and_fork(s) PROVE IInv'
  BY <1>3, AcceptAndFork, StepKeepsIInv
<1>4. ASSUME NEW s \in Sessions, fork_fails(s) PROVE IInv'
  <2>1. TcpTypeOK'
    BY <1>1, <1>4, WorkerClosesType DEF fork_fails
  <2>2. wend' = [wend EXCEPT ![s] = "closed"] /\ UNCHANGED cend /\ wend[s] = "backlog"
    BY <1>4 DEF fork_fails, WorkerCloses
  <2>3. cend[s] # "unused"
    BY <2>2 DEF IInv, SessionInv, SocketAt
  <2> QED BY <1>1, <1>4, <2>1, <2>2, <2>3, ConnectionsChange
          DEF fork_fails, ServerTypeOK, TcpTypeOK
<1> QED BY <1>2, <1>3, <1>4 DEF ListenerStep

\* Clients connect, talk and go away as they like.
LEMMA EnvKeepsIInv ==
    ASSUME IInv, EnvStep
    PROVE  IInv'
<1>1. /\ TcpTypeOK /\ lpc' \in {"listening", "down"}
      /\ UNCHANGED <<kernelVars, workerVars>>
      /\ \A s \in Sessions : cend[s] = "unused" => wend[s] = "unused"
  BY DEF IInv, ServerTypeOK, EnvStep, SessionInv, SocketAt
<1>2. ASSUME NEW s \in Sessions, EnvConnect(s) PROVE IInv'
  <2>1. TcpTypeOK'
    BY <1>1, <1>2 DEF EnvConnect, TcpTypeOK
  <2> QED BY <1>1, <1>2, <2>1, ConnectionsChange DEF EnvConnect, TcpTypeOK
<1>3. ASSUME NEW s \in Sessions, NEW m \in ClientMessages, EnvTalks(s, m) PROVE IInv'
  <2>1. m \in MSG
    BY ServerAssumption
  <2>2. c2s' \in [Sessions -> Seq(MSG)]
    <3>1. Sent(c2s[s], m, wend[s]) \in Seq(MSG)
      BY <1>1, <2>1 DEF Sent, TcpTypeOK
    <3>2. \/ UNCHANGED c2s
          \/ c2s' = [c2s EXCEPT ![s] = Sent(c2s[s], m, wend[s])]
      BY <1>3 DEF EnvTalks, EnvSends
    <3> QED BY <1>1, <3>1, <3>2 DEF TcpTypeOK
  <2>3. s2c' \in [Sessions -> Seq(MSG)]
    <3>1. s2c[s] # << >> => Tail(s2c[s]) \in Seq(MSG)
      BY <1>1 DEF TcpTypeOK
    <3>2. UNCHANGED s2c \/ (s2c[s] # << >> /\ s2c' = [s2c EXCEPT ![s] = Tail(s2c[s])])
      BY <1>3 DEF EnvTalks, EnvReceives
    <3> QED BY <1>1, <3>1, <3>2 DEF TcpTypeOK
  <2>4. TcpTypeOK' /\ UNCHANGED <<cend, wend>>
    BY <1>1, <1>3, <2>2, <2>3 DEF EnvTalks, TcpTypeOK
  <2> QED BY <1>1, <2>4, ConnectionsChange
<1>4. ASSUME NEW closing \in SUBSET Sessions, EnvCloses(closing) PROVE IInv'
  <2>1. TcpTypeOK'
    BY <1>1, <1>4, EmptySeq DEF EnvCloses, TcpTypeOK
  <2> QED BY <1>1, <1>4, <2>1, ConnectionsChange DEF EnvCloses
<1>5. ASSUME NEW s \in Sessions, EnvDisconnects(s) PROVE IInv'
  <2>1. Sent(c2s[s], Bare("DISCONNECT"), wend[s]) \in Seq(MSG)
    BY <1>1, <1>5, ServerAssumption DEF EnvDisconnects, Sent, TcpTypeOK
  <2>2. TcpTypeOK'
    BY <1>1, <1>5, <2>1, EmptySeq DEF EnvDisconnects, EnvSends, TcpTypeOK
  <2> QED BY <1>1, <1>5, <2>2, ConnectionsChange DEF EnvDisconnects, TcpTypeOK
<1> QED BY <1>2, <1>3, <1>4, <1>5 DEF EnvStep

\* The initial state.
LEMMA InitIInv == ServerInit => IInv
<1> SUFFICES ASSUME ServerInit PROVE IInv
  OBVIOUS
<1> USE DEF ServerInit, TcpInit, KernelInit, WorkerInit
<1>1. TcpTypeOK
  BY EmptySeq DEF TcpTypeOK
<1>2. NoTable \in [Fds -> Slot] /\ \A fd \in Fds : NoTable[fd].kind # "file"
  BY EmptySlotType DEF NoTable, FreeSlot, EmptySlot
<1>3. KernelTypeOK
  BY <1>2, KernelAssumption, EmptySeq DEF KernelTypeOK
<1>4. WorkerTypeOK
  BY KernelAssumption, WorkerAssumption, EmptySeq DEF WorkerTypeOK, EmptyMap, Stages
<1>5. ASSUME NEW s \in Sessions PROVE SessionInv(s)
  <2>1. SocketAt(s) /\ LoginAt(s) /\ IdentityAt(s) /\ MessagesAt(s)
    BY DEF SocketAt, LoginAt, IdentityAt, MessagesAt, Early, Serving
  <2>2. FilesAt(s)
    BY <1>2 DEF FilesAt, IsFile
  <2>3. MapAt(s)
    <3>1. Mapped(s) = {}
      BY DEF Mapped, EmptyMap
    <3> QED BY <3>1 DEF MapAt
  <2> QED BY <2>1, <2>2, <2>3 DEF SessionInv
<1> QED BY <1>1, <1>3, <1>4, <1>5 DEF IInv, ServerTypeOK

\* Every step of the server keeps the invariant.
LEMMA ServerStepsKeepIInv == IInv /\ [ServerNext]_serverVars => IInv'
<1> SUFFICES ASSUME IInv, [ServerNext]_serverVars PROVE IInv'
  OBVIOUS
<1>1. CASE ServerNext
  BY <1>1, WorkerKeepsIInv, ListenerKeepsIInv, EnvKeepsIInv DEF ServerNext
<1>2. CASE UNCHANGED serverVars
  <2>1. TcpTypeOK' /\ lpc' \in {"listening", "down"}
    BY <1>2 DEF IInv, ServerTypeOK, TcpTypeOK, serverVars, tcpVars
  <2>2. \A s \in Sessions : cend'[s] = cend[s] /\ wend'[s] = wend[s]
    BY <1>2 DEF serverVars, tcpVars
  <2> QED BY <1>2, <2>1, <2>2, ConnectionsChange DEF serverVars
<1> QED BY <1>1, <1>2

\* The invariant holds in every reachable state of the server.
LEMMA IInvHolds == ServerSpec => []IInv
BY InitIInv, ServerStepsKeepIInv, PTL DEF ServerSpec

-----------------------------------------------------------------------------
\* Every variable of the server keeps its type.
THEOREM TypesHold == ServerSpec => []ServerTypeOK
<1>1. IInv => ServerTypeOK
  BY DEF IInv
<1> QED BY <1>1, IInvHolds, PTL

\* A worker never has a file open that the user whose password its client has
\* given may not open that way (the seteuid calls of handle_requests).
THEOREM FilesAreOpenedAsUser == ServerSpec => []FilesOpenedAsUser
<1>1. IInv => FilesOpenedAsUser
  BY DEF IInv, SessionInv, FilesAt, FilesOpenedAsUser
<1> QED BY <1>1, IInvHolds, PTL

\* What a worker has given out as descriptors stands for distinct open files
\* (add_descriptor_to_map, remove_descriptor_from_map).
THEOREM DescriptorMapIsSound == ServerSpec => []DescriptorMapSound
<1>1. IInv => DescriptorMapSound
  BY DEF IInv, SessionInv, MapAt, DescriptorMapSound
<1> QED BY <1>1, IInvHolds, PTL

-----------------------------------------------------------------------------
\* The names and bytes that an open creates or cuts are the user's.
LEMMA OpenChanges ==
    ASSUME NEW s \in Sessions, IInv, Handles(s, "REQUEST_OPEN"),
           Terminated(request[s].path), NEW fd,
           SysOpen(s, get_path_in_filesystem(s, request[s].path), request[s].oflag, fd)
    PROVE  /\ \A p \in Paths : dir'[p] # dir[p] => Grants(s, p, "DIR")
           /\ \A i \in Inodes : InodeInUse(i) /\ content'[i] # content[i] =>
                 \E p \in Paths : Reaches(s, p, i) /\ Grants(s, p, "WR")
<1> DEFINE path == get_path_in_filesystem(s, request[s].path)
           flags == request[s].oflag
<1>1. /\ KernelTypeOK /\ request[s].path \in Text /\ path \in Paths
  BY HandlerFacts, MessageFields, PathType DEF ServerTypeOK
<1>2. PICK i \in Inodes :
        /\ IF dir[path] = NoInode THEN ~InodeInUse(i) ELSE i = dir[path]
        /\ dir' = [dir EXCEPT ![path] = i]
        /\ content' = IF dir[path] = NoInode \/ "TRUNC" \in flags
                      THEN [content EXCEPT ![i] = << >>] ELSE content
  BY DEF SysOpen, OpenAt
<1>3. /\ dir[path] = NoInode => May(s, path, "DIR")
      /\ "TRUNC" \in flags => May(s, path, "WR")
  BY DEF SysOpen, OpenAt, OpenErrors, Errnos
<1>4. ASSUME NEW p \in Paths, dir'[p] # dir[p] PROVE Grants(s, p, "DIR")
  <2>1. p = path /\ dir[path] = NoInode
    BY <1>1, <1>2, <1>4 DEF KernelTypeOK
  <2> QED BY <1>1, <1>3, <2>1, MayIsGranted
<1>5. ASSUME NEW j \in Inodes, InodeInUse(j), content'[j] # content[j]
      PROVE  Reaches(s, path, j) /\ Grants(s, path, "WR")
  <2>1. "TRUNC" \in flags /\ j = dir[path]
    BY <1>1, <1>2, <1>5 DEF KernelTypeOK
  <2> QED BY <1>1, <1>3, <2>1, MayIsGranted DEF Reaches
<1> QED BY <1>1, <1>4, <1>5

\* The name that an unlink removes is the user's.
LEMMA UnlinkChanges ==
    ASSUME NEW s \in Sessions, IInv, Handles(s, "REQUEST_UNLINK"),
           Terminated(request[s].path),
           UnlinkErrors(s, get_path_in_filesystem(s, request[s].path)) = {},
           SysUnlink(s, get_path_in_filesystem(s, request[s].path))
    PROVE  /\ \A p \in Paths : dir'[p] # dir[p] => Grants(s, p, "DIR")
           /\ UNCHANGED content
<1> DEFINE path == get_path_in_filesystem(s, request[s].path)
<1>1. KernelTypeOK /\ request[s].path \in Text
  BY HandlerFacts, MessageFields DEF ServerTypeOK
<1>2. May(s, path, "DIR")
  BY DEF UnlinkErrors, Errnos
<1>3. Grants(s, path, "DIR")
  BY <1>1, <1>2, MayIsGranted
<1> QED BY <1>1, <1>3 DEF SysUnlink, KernelTypeOK

\* The bytes that a write changes are those of the file that the descriptor of the
\* request is open for, which it was by a name that the user may write.
LEMMA WriteChanges ==
    ASSUME NEW s \in Sessions, IInv, Handles(s, "REQUEST_WRITE"), Usable(s, {"WR"})
    PROVE  \E p \in Paths :
               Reaches(s, p, fdt[s][Target(s)].ino) /\ Grants(s, p, "WR")
<1> DEFINE path == fdt[s][Target(s)].path
<1>1. Target(s) \in Fds /\ IsFile(s, Target(s))
  BY TargetType
<1>2. "WR" \in fdt[s][Target(s)].rights
  BY DEF Usable, Target
<1>3. Grants(s, path, "WR")
  BY <1>1, <1>2 DEF IInv, SessionInv, FilesAt
<1>4. path \in Paths
  <2>1. PICK text \in Strings : path = NameOf[<<FSPrefix[info[s][3]], text>>]
    BY <1>3 DEF Grants, Resolved
  <2>2. FSPrefix[info[s][3]] \in Dirs
    BY <1>3, WorkerAssumption DEF Grants, Authorized
  <2> QED BY <2>1, <2>2, KernelAssumption DEF Paths
<1> QED BY <1>1, <1>2, <1>3, <1>4 DEF Reaches

\* A step of a worker changes names and bytes only while it executes a request,
\* and only what the credentials of its client permit.
LEMMA WorkerChanges ==
    ASSUME NEW s \in Sessions, IInv, WorkerStep(s)
    PROVE  /\ \A p \in Paths : dir'[p] # dir[p] => Acts(s) /\ Grants(s, p, "DIR")
           /\ \A i \in Inodes : InodeInUse(i) /\ content'[i] # content[i] =>
                 \E p \in Paths : Acts(s) /\ Reaches(s, p, i) /\ Grants(s, p, "WR")
<1>1. CASE UNCHANGED <<dir, content>>
  BY <1>1
<1>2. ASSUME NEW code, NEW value, NEW errno, NEW data,
             Handles(s, code), Answer(s, value, errno, data)
      PROVE  Acts(s)
  BY <1>2 DEF Handles, Answer, Goto, Acts, IInv, ServerTypeOK, WorkerTypeOK
<1>3. CASE authenticate(s) \/ receive_request(s) \/ send_result(s)
           \/ receive_fails(s) \/ destroy(s) \/ exit_process(s)
  <2>1. UNCHANGED <<dir, content>>
    BY <1>3 DEF authenticate, ask_info, receive_info, select, send_verdict,
                receive_request, send_result, receive_fails, destroy, exit_process,
                SysClose, kernelVars
  <2> QED BY <1>1, <2>1
<1>4. CASE \/ handle_request_close(s) \/ handle_request_read(s)
           \/ handle_request_lseek(s) \/ handle_request_fstat(s)
           \/ handle_request_flock(s) \/ flock_ends(s)
           \/ handle_disconnect(s) \/ reject_message(s)
  <2>1. UNCHANGED <<dir, content>>
    BY <1>4 DEF handle_request_close, handle_request_read, handle_request_lseek,
                handle_request_fstat, handle_request_flock, flock_ends,
                handle_disconnect, reject_message, Abandon, AnswerEBADF, SysClose,
                SysRead, SysLseek, SetLock, kernelVars
  <2> QED BY <1>1, <2>1
<1>5. CASE handle_request_open(s)
  <2>1. Handles(s, "REQUEST_OPEN")
    BY <1>5 DEF handle_request_open
  <2>2. \/ UNCHANGED <<dir, content>>
        \/ /\ Terminated(request[s].path)
           /\ \E fd \in Fds :
                 /\ SysOpen(s, get_path_in_filesystem(s, request[s].path),
                            request[s].oflag, fd)
                 /\ \E value, errno : Answer(s, value, errno, << >>)
    BY <1>5 DEF handle_request_open, Abandon, kernelVars
  <2> QED BY <1>1, <1>2, <2>1, <2>2, OpenChanges
<1>6. CASE handle_request_unlink(s)
  <2>1. Handles(s, "REQUEST_UNLINK")
    BY <1>6 DEF handle_request_unlink
  <2>2. \/ UNCHANGED <<dir, content>>
        \/ /\ Terminated(request[s].path)
           /\ UnlinkErrors(s, get_path_in_filesystem(s, request[s].path)) = {}
           /\ SysUnlink(s, get_path_in_filesystem(s, request[s].path))
           /\ Answer(s, 0, "0", << >>)
    BY <1>6 DEF handle_request_unlink, Abandon, kernelVars
  <2> QED BY <1>1, <1>2, <2>1, <2>2, UnlinkChanges
<1>7. CASE handle_request_write(s)
  <2>1. Handles(s, "REQUEST_WRITE")
    BY <1>7 DEF handle_request_write
  <2>2. \/ UNCHANGED <<dir, content>>
        \/ /\ Usable(s, {"WR"}) /\ UNCHANGED dir
           /\ \A i \in Inodes : content'[i] # content[i] => i = fdt[s][Target(s)].ino
           /\ \E value, errno : Answer(s, value, errno, << >>)
    <3>1. content \in [Inodes -> Seq(Nat)]
      BY DEF IInv, ServerTypeOK, KernelTypeOK
    <3> QED BY <1>7, <3>1 DEF handle_request_write, AnswerEBADF, SysWrite, kernelVars
  <2> QED BY <1>1, <1>2, <2>1, <2>2, WriteChanges
<1> QED BY <1>3, <1>4, <1>5, <1>6, <1>7 DEF WorkerStep, handle_request

\* Whatever clients send, names are created and removed, and bytes of files
\* change, only as the users whose passwords they know may do it.
THEOREM FilesAreChangedAsUser == ServerSpec => FilesChangeAsUser
<1> DEFINE A == /\ \A p \in Paths : dir'[p] # dir[p] =>
                      \E s \in Sessions : Acts(s) /\ Grants(s, p, "DIR")
                /\ \A i \in Inodes : InodeInUse(i) /\ content'[i] # content[i] =>
                      \E s \in Sessions, p \in Paths :
                          Acts(s) /\ Reaches(s, p, i) /\ Grants(s, p, "WR")
<1>1. IInv /\ [ServerNext]_serverVars => [A]_serverVars
  <2> SUFFICES ASSUME IInv, ServerNext PROVE A
    OBVIOUS
  <2>1. ASSUME NEW s \in Sessions, WorkerStep(s) PROVE A
    BY <2>1, WorkerChanges
  <2>2. CASE ListenerStep \/ EnvStep
    BY <2>2 DEF ListenerStep, EnvStep, accept_fails, accept_and_fork, fork_fails,
                kernelVars
  <2> QED BY <2>1, <2>2 DEF ServerNext
<1> QED BY <1>1, IInvHolds, PTL DEF ServerSpec, FilesChangeAsUser

-----------------------------------------------------------------------------
(* What the steps of a worker do to its files and to its map of client     *)
(* descriptors: nothing, or they add one of both, or remove one of both,   *)
(* or the map goes.  From that and from IInv follow that a client          *)
(* descriptor keeps its file, and that no file is out of a client's reach; *)
(* at the end, that no answer reports a failure without its reason.        *)

\* A descriptor that was free stands for a file; above 0 it enters the map.
AddsFile(s) ==
    \E fd \in Fds :
        /\ wpc[s] = "handle" /\ IsFree(s, fd)
        /\ \A g \in Fds \ {fd} : fdt'[s][g] = fdt[s][g]
        /\ \/ /\ fd > 0 /\ next_descriptor[s] \in Descriptors
              /\ descriptor_map'[s] =
                    [descriptor_map[s] EXCEPT ![next_descriptor[s]] = fd]
              /\ next_descriptor'[s] = next_descriptor[s] + 1
           \/ /\ fd = 0
              /\ descriptor_map'[s] = descriptor_map[s]
              /\ next_descriptor'[s] = next_descriptor[s]

\* A mapped descriptor and its entry are given up together.
RemovesFile(s) ==
    \E cd \in Mapped(s) :
        /\ wpc[s] = "handle"
        /\ fdt'[s][descriptor_map[s][cd]].kind # "file"
        /\ \A g \in Fds \ {descriptor_map[s][cd]} : fdt'[s][g] = fdt[s][g]
        /\ descriptor_map'[s] = [descriptor_map[s] EXCEPT ![cd] = NoFd]
        /\ next_descriptor'[s] = next_descriptor[s]

\* The map goes with the worker or its object: what was in it is closed.
DropsMap(s) ==
    /\ wpc'[s] \in {"exit", "zombie"}
    /\ Mapped(s)' = {} /\ next_descriptor'[s] = next_descriptor[s]
    /\ \A fd \in Fds : IsFile(s, fd)' =>
          /\ IsFile(s, fd)
          /\ \A cd \in Mapped(s) : descriptor_map[s][cd] # fd

FileEffect(s) == KeepsFiles(s) \/ AddsFile(s) \/ RemovesFile(s) \/ DropsMap(s)

-----------------------------------------------------------------------------
\* Handlers that open and close nothing (handle_requests).
LEMMA HandlersKeepFiles ==
    ASSUME NEW s \in Sessions, IInv,
           \/ handle_request_read(s)  \/ handle_request_write(s)
           \/ handle_request_lseek(s) \/ handle_request_fstat(s)
           \/ handle_request_unlink(s) \/ handle_request_flock(s) \/ flock_ends(s)
           \/ handle_disconnect(s) \/ reject_message(s)
    PROVE  KeepsFiles(s)
<1> DEFINE Moves == \E fd \in Fds : \E n : fdt' = [fdt EXCEPT ![s][fd].pos = n]
           Locks == \E fd \in Fds : \E mode : fdt' = [fdt EXCEPT ![s][fd].lock = mode]
<1>1. fdt \in [Sessions -> [Fds -> Slot]]
  BY DEF IInv, ServerTypeOK, KernelTypeOK
<1>2. ASSUME UNCHANGED mapVars, Moves \/ Locks \/ UNCHANGED fdt PROVE KeepsFiles(s)
  <2>1. ASSUME NEW fd \in Fds, NEW n, fdt' = [fdt EXCEPT ![s][fd].pos = n]
        PROVE  KeepsFiles(s)
    BY <1>1, <1>2, <2>1 DEF KeepsFiles, mapVars, Slot
  <2>2. ASSUME NEW fd \in Fds, NEW mode, fdt' = [fdt EXCEPT ![s][fd].lock = mode]
        PROVE  KeepsFiles(s)
    BY <1>1, <1>2, <2>2 DEF KeepsFiles, mapVars, Slot
  <2>3. CASE UNCHANGED fdt
    BY <1>2, <2>3 DEF KeepsFiles, mapVars
  <2> QED BY <1>2, <2>1, <2>2, <2>3
<1>3. \A need : Usable(s, need) => Target(s) \in Fds
  BY TargetType
<1>4. CASE handle_request_read(s)
  <2>1. UNCHANGED mapVars
    BY <1>4 DEF handle_request_read
  <2>2. UNCHANGED fdt \/ Moves
    BY <1>3, <1>4 DEF handle_request_read, Readable, SysRead, kernelVars
  <2> QED BY <1>2, <2>1, <2>2
<1>5. CASE handle_request_write(s)
  <2>1. UNCHANGED mapVars
    BY <1>5 DEF handle_request_write, AnswerEBADF
  <2>2. UNCHANGED fdt \/ Moves
    BY <1>3, <1>5 DEF handle_request_write, AnswerEBADF, SysWrite, kernelVars
  <2> QED BY <1>2, <2>1, <2>2
<1>6. CASE handle_request_lseek(s)
  <2>1. UNCHANGED mapVars
    BY <1>6 DEF handle_request_lseek, AnswerEBADF
  <2>2. UNCHANGED fdt \/ Moves
    BY <1>3, <1>6 DEF handle_request_lseek, AnswerEBADF, SysLseek, kernelVars
  <2> QED BY <1>2, <2>1, <2>2
<1>7. CASE handle_request_flock(s)
  <2>1. UNCHANGED mapVars
    BY <1>7 DEF handle_request_flock, AnswerEBADF
  <2>2. UNCHANGED fdt \/ Locks
    BY <1>3, <1>7 DEF handle_request_flock, AnswerEBADF, SetLock, kernelVars
  <2> QED BY <1>2, <2>1, <2>2
<1>8. CASE flock_ends(s)
  <2>1. Usable(s, {})
    BY <1>8 DEF flock_ends, IInv, SessionInv, MessagesAt
  <2>2. UNCHANGED mapVars
    BY <1>8 DEF flock_ends
  <2>3. UNCHANGED fdt \/ Locks
    BY <1>3, <1>8, <2>1 DEF flock_ends, SetLock, kernelVars
  <2> QED BY <1>2, <2>2, <2>3
<1>9. CASE \/ handle_request_fstat(s) \/ handle_request_unlink(s)
           \/ handle_disconnect(s) \/ reject_message(s)
  <2>1. UNCHANGED <<fdt, mapVars>>
    BY <1>9 DEF handle_request_fstat, handle_request_unlink, handle_disconnect,
                reject_message, AnswerEBADF, Abandon, SysUnlink, kernelVars
  <2> QED BY <1>2, <2>1
<1> QED BY <1>4, <1>5, <1>6, <1>7, <1>8, <1>9

\* An open adds a file with its entry, or nothing (handle_request_open).
LEMMA OpenAddsFile ==
    ASSUME NEW s \in Sessions, IInv, handle_request_open(s)
    PROVE  KeepsFiles(s) \/ AddsFile(s)
<1> DEFINE path == get_path_in_filesystem(s, request[s].path)
           flags == request[s].oflag
<1>1. /\ fdt \in [Sessions -> [Fds -> Slot]] /\ wpc[s] = "handle"
      /\ descriptor_map \in [Sessions -> [Descriptors -> Fds \cup {NoFd}]]
      /\ next_descriptor \in [Sessions -> 1..(MaxDescriptor + 1)]
  BY DEF IInv, ServerTypeOK, KernelTypeOK, WorkerTypeOK, handle_request_open, Handles
<1>2. CASE UNCHANGED <<fdt, mapVars>>
  BY <1>2 DEF KeepsFiles, mapVars
<1>3. ASSUME NEW fd \in Fds, next_descriptor[s] \in Descriptors,
             SysOpen(s, path, flags, fd),
             IF fd > 0 THEN add_descriptor_to_map(s, fd) ELSE UNCHANGED mapVars
      PROVE  AddsFile(s)
  <2>1. IsFree(s, fd)
    BY <1>3 DEF SysOpen, LowestFree
  <2>2. \A g \in Fds \ {fd} : fdt'[s][g] = fdt[s][g]
    BY <1>1, <1>3 DEF SysOpen, OpenAt
  <2>3. CASE fd > 0
    <3>1. /\ descriptor_map'[s] =
                [descriptor_map[s] EXCEPT ![next_descriptor[s]] = fd]
          /\ next_descriptor'[s] = next_descriptor[s] + 1
      BY <1>1, <1>3, <2>3 DEF add_descriptor_to_map
    <3> QED BY <1>1, <1>3, <2>1, <2>2, <2>3, <3>1 DEF AddsFile
  <2>4. CASE ~(fd > 0)
    <3>1. fd = 0
      BY <2>4, KernelAssumption DEF Fds
    <3> QED BY <1>1, <1>3, <2>1, <2>2, <2>4, <3>1 DEF AddsFile, mapVars
  <2> QED BY <2>3, <2>4
<1>4. \/ UNCHANGED <<fdt, mapVars>>
      \/ /\ next_descriptor[s] \in Descriptors
         /\ \E fd \in Fds :
               /\ SysOpen(s, path, flags, fd)
               /\ IF fd > 0 THEN add_descriptor_to_map(s, fd) ELSE UNCHANGED mapVars
  BY DEF handle_request_open, Abandon, kernelVars
<1> QED BY <1>2, <1>3, <1>4

\* A close removes a file with its entry, or nothing (handle_request_close).
LEMMA CloseRemovesFile ==
    ASSUME NEW s \in Sessions, IInv, handle_request_close(s)
    PROVE  KeepsFiles(s) \/ RemovesFile(s)
<1> DEFINE cd == ClientFd(s)
<1>1. /\ KernelTypeOK /\ wpc[s] = "handle"
      /\ descriptor_map \in [Sessions -> [Descriptors -> Fds \cup {NoFd}]]
  BY DEF IInv, ServerTypeOK, WorkerTypeOK, handle_request_close, Handles
<1>2. CASE AnswerEBADF(s)
  BY <1>2 DEF AnswerEBADF, KeepsFiles, kernelVars, mapVars
<1>3. CASE /\ is_descriptor_in_map(s, cd) /\ SysClose(s, {Target(s)})
           /\ remove_descriptor_from_map(s, cd)
  <2>1. cd \in Mapped(s) /\ Target(s) = descriptor_map[s][cd] /\ Target(s) \in Fds
    BY <1>1, <1>3 DEF is_descriptor_in_map, Mapped, Target, get_descriptor_from_map
  <2>2. \A fd \in Fds : /\ fd = Target(s) => ~IsFile(s, fd)'
                        /\ fd # Target(s) => fdt'[s][fd] = fdt[s][fd]
    BY <1>1, <1>3, CloseEffect
  <2>3. fdt'[s][descriptor_map[s][cd]].kind # "file"
    BY <2>1, <2>2 DEF IsFile
  <2>4. /\ descriptor_map'[s] = [descriptor_map[s] EXCEPT ![cd] = NoFd]
        /\ next_descriptor'[s] = next_descriptor[s]
    BY <1>1, <1>3 DEF remove_descriptor_from_map
  <2> QED BY <1>1, <2>1, <2>2, <2>3, <2>4 DEF RemovesFile
<1> QED BY <1>2, <1>3 DEF handle_request_close
-----------------------------------------------------------------------------
\* Every step of a worker has one of the four effects on its files.
LEMMA WorkerFileEffect ==
    ASSUME NEW s \in Sessions, IInv, WorkerStep(s)
    PROVE  FileEffect(s)
<1>1. /\ KernelTypeOK /\ wpc \in [Sessions -> Stages]
      /\ descriptor_map \in [Sessions -> [Descriptors -> Fds \cup {NoFd}]]
  BY DEF IInv, ServerTypeOK, WorkerTypeOK
<1>2. CASE authenticate(s) \/ receive_request(s) \/ send_result(s) \/ receive_fails(s)
  <2>1. UNCHANGED <<fdt, mapVars>>
    BY <1>2 DEF authenticate, ask_info, receive_info, select, send_verdict,
                receive_request, send_result, receive_fails, kernelVars
  <2> QED BY <2>1 DEF FileEffect, KeepsFiles, mapVars
<1>3. CASE handle_request(s)
  BY <1>3, HandlersKeepFiles, OpenAddsFile, CloseRemovesFile
     DEF handle_request, FileEffect
<1>4. ASSUME NEW fds, SysClose(s, fds), descriptor_map' = [descriptor_map EXCEPT ![s] = EmptyMap],
             UNCHANGED next_descriptor, wpc'[s] \in {"exit", "zombie"},
             \A cd \in Mapped(s) : descriptor_map[s][cd] \in fds
      PROVE  DropsMap(s)
  <2>1. Mapped(s)' = {}
    <3>1. descriptor_map'[s] = EmptyMap
      BY <1>1, <1>4
    <3> QED BY <3>1 DEF Mapped, EmptyMap
  <2>2. ASSUME NEW fd \in Fds, IsFile(s, fd)'
        PROVE  IsFile(s, fd) /\ fd \notin fds
    BY <1>1, <1>4, <2>2, CloseEffect DEF IsFile
  <2> QED BY <1>4, <2>1, <2>2 DEF DropsMap
<1>5. CASE destroy(s)
  <2>1. wpc'[s] = "exit"
    BY <1>1, <1>5 DEF destroy, Goto
  <2>2. \A cd \in Mapped(s) :
           descriptor_map[s][cd] \in {descriptor_map[s][ce] : ce \in Descriptors}
    BY DEF Mapped
  <2> QED BY <1>4, <1>5, <2>1, <2>2 DEF destroy, FileEffect
<1>6. CASE exit_process(s)
  <2>1. wpc'[s] = "zombie"
    BY <1>1, <1>6 DEF exit_process, Goto
  <2>2. \A cd \in Mapped(s) : descriptor_map[s][cd] \in Fds
    BY <1>1 DEF Mapped
  <2> QED BY <1>4, <1>6, <2>1, <2>2 DEF exit_process, FileEffect
<1> QED BY <1>2, <1>3, <1>4, <1>5, <1>6 DEF WorkerStep

\* Every step of a worker leaves the other sessions alone.
LEMMA WorkerStepOK ==
    ASSUME NEW s \in Sessions, IInv, WorkerStep(s), UNCHANGED lpc
    PROVE  StepOK(s)
<1>1. CASE authenticate(s)
  BY <1>1, AskInfo, ReceiveInfo, Select, SendVerdict DEF authenticate
<1>2. CASE receive_request(s) \/ send_result(s) \/ receive_fails(s)
  BY <1>2, ReceiveRequest, SendResult, ReceiveFails
<1>3. CASE handle_request(s)
  BY <1>3, HandleOpen, HandleClose, HandleRead, HandleWrite, HandleLseek, HandleFstat,
     HandleUnlink, HandleFlock, FlockEnds, LoopEnds DEF handle_request
<1>4. CASE destroy(s) \/ exit_process(s)
  BY <1>4, Destroy, ExitProcess
<1> QED BY <1>1, <1>2, <1>3, <1>4 DEF WorkerStep

-----------------------------------------------------------------------------
\* What a client descriptor of session s has to keep in a step.
DescriptorsKept(s) ==
    \A cd \in Descriptors :
        /\ cd \in Mapped(s) /\ cd \in Mapped(s)' =>
              /\ fdt[s][descriptor_map[s][cd]].ino =
                    fdt'[s][descriptor_map'[s][cd]].ino
              /\ fdt[s][descriptor_map[s][cd]].path =
                    fdt'[s][descriptor_map'[s][cd]].path
        /\ cd < next_descriptor[s] =>
              /\ cd < next_descriptor'[s]
              /\ cd \in Mapped(s)' => cd \in Mapped(s)

\* Each of the four effects keeps them (descriptor_map, next_descriptor).
LEMMA EffectKeepsDescriptors ==
    ASSUME NEW s \in Sessions, IInv, FileEffect(s)
    PROVE  DescriptorsKept(s)
<1>1. /\ descriptor_map[s] \in [Descriptors -> Fds \cup {NoFd}]
      /\ next_descriptor[s] \in 1..(MaxDescriptor + 1)
      /\ \A cd \in Mapped(s) : /\ cd \in Descriptors /\ descriptor_map[s][cd] \in Fds
                               /\ IsFile(s, descriptor_map[s][cd])
                               /\ cd < next_descriptor[s]
  BY DEF IInv, ServerTypeOK, WorkerTypeOK, SessionInv, MapAt, Mapped
<1>2. CASE KeepsFiles(s)
  BY <1>1, <1>2 DEF KeepsFiles, DescriptorsKept, Mapped
<1>3. CASE AddsFile(s)
  <2>1. PICK fd \in Fds :
          /\ IsFree(s, fd) /\ \A g \in Fds \ {fd} : fdt'[s][g] = fdt[s][g]
          /\ \/ /\ fd > 0 /\ next_descriptor[s] \in Descriptors
                /\ descriptor_map'[s] =
                      [descriptor_map[s] EXCEPT ![next_descriptor[s]] = fd]
                /\ next_descriptor'[s] = next_descriptor[s] + 1
             \/ /\ fd = 0
                /\ descriptor_map'[s] = descriptor_map[s]
                /\ next_descriptor'[s] = next_descriptor[s]
    BY <1>3 DEF AddsFile
  <2>2. \A cd \in Mapped(s) : /\ descriptor_map[s][cd] \in Fds \ {fd}
                              /\ descriptor_map'[s][cd] = descriptor_map[s][cd]
    BY <1>1, <2>1 DEF IsFree, IsFile
  <2>3. \A cd \in Descriptors : cd < next_descriptor[s] =>
           /\ cd < next_descriptor'[s]
           /\ descriptor_map'[s][cd] = descriptor_map[s][cd]
    <3>1. \A cd \in Descriptors : cd \in Int /\ next_descriptor[s] \in Int
      BY <1>1, WorkerAssumption DEF Descriptors
    <3> QED BY <1>1, <2>1, <3>1
  <2> QED BY <2>1, <2>2, <2>3 DEF DescriptorsKept, Mapped
<1>4. CASE RemovesFile(s)
  <2>1. PICK ce \in Mapped(s) :
          /\ \A g \in Fds \ {descriptor_map[s][ce]} : fdt'[s][g] = fdt[s][g]
          /\ descriptor_map'[s] = [descriptor_map[s] EXCEPT ![ce] = NoFd]
          /\ next_descriptor'[s] = next_descriptor[s]
    BY <1>4 DEF RemovesFile
  <2>2. \A cd \in Mapped(s) \ {ce} : descriptor_map[s][cd] # descriptor_map[s][ce]
    BY DEF IInv, SessionInv, MapAt
  <2>3. Mapped(s)' = Mapped(s) \ {ce}
    BY <1>1, <2>1 DEF Mapped
  <2>4. \A cd \in Mapped(s) \ {ce} : descriptor_map'[s][cd] = descriptor_map[s][cd]
    BY <1>1, <2>1
  <2> QED BY <1>1, <2>1, <2>2, <2>3, <2>4 DEF DescriptorsKept
<1>5. CASE DropsMap(s)
  BY <1>5 DEF DropsMap, DescriptorsKept
<1> QED BY <1>2, <1>3, <1>4, <1>5 DEF FileEffect

\* Steps of the listener and of clients keep all maps, and give a table to a
\* worker that has no descriptor yet (accept_and_fork).
LEMMA OthersKeepDescriptors ==
    ASSUME IInv, ListenerStep \/ EnvStep, NEW s \in Sessions
    PROVE  DescriptorsKept(s)
<1>1. UNCHANGED mapVars
  BY DEF ListenerStep, EnvStep, accept_fails, accept_and_fork, fork_fails, workerVars,
         mapVars
<1>2. CASE UNCHANGED fdt
  BY <1>1, <1>2 DEF DescriptorsKept, Mapped, mapVars
<1>3. ASSUME NEW t \in Sessions, accept_and_fork(t) PROVE DescriptorsKept(s)
  <2>1. fdt'[s] = fdt[s] \/ s = t
    BY <1>3 DEF accept_and_fork, IInv, ServerTypeOK, KernelTypeOK
  <2>2. Mapped(t) = {}
    BY <1>3 DEF accept_and_fork, IInv, SessionInv, SocketAt, MapAt, Early
  <2> QED BY <1>1, <2>1, <2>2 DEF DescriptorsKept, Mapped, mapVars
<1> QED BY <1>2, <1>3 DEF ListenerStep, EnvStep, accept_fails, fork_fails, kernelVars

\* A client descriptor keeps the file it was given for, and is never given out
\* twice, however the kernel reuses its own numbers (descriptor_map).
THEOREM ClientDescriptorsKeepFiles == ServerSpec => DescriptorsKeepTheirFile
<1> DEFINE A == \A s \in Sessions : \A cd \in Descriptors :
          /\ cd \in Mapped(s) /\ cd \in Mapped(s)' =>
                LET old == fdt[s][descriptor_map[s][cd]]
                    new == fdt'[s][descriptor_map'[s][cd]]
                IN  old.ino = new.ino /\ old.path = new.path
          /\ cd < next_descriptor[s] =>
                /\ cd < next_descriptor'[s]
                /\ cd \in Mapped(s)' => cd \in Mapped(s)
<1>1. IInv /\ [ServerNext]_serverVars => [A]_serverVars
  <2> SUFFICES ASSUME IInv, ServerNext, NEW s \in Sessions PROVE DescriptorsKept(s)
    BY DEF DescriptorsKept
  <2>1. ASSUME NEW t \in Sessions, WorkerStep(t), UNCHANGED lpc PROVE DescriptorsKept(s)
    <3>1. FileEffect(t) /\ StepOK(t)
      BY <2>1, WorkerFileEffect, WorkerStepOK
    <3>2. FileEffect(s)
      BY <3>1 DEF StepOK, SameAt, FileEffect
    <3> QED BY <3>2, EffectKeepsDescriptors
  <2>2. CASE ListenerStep \/ EnvStep
    BY <2>2, OthersKeepDescriptors
  <2> QED BY <2>1, <2>2 DEF ServerNext
<1> QED BY <1>1, IInvHolds, PTL DEF ServerSpec, DescriptorsKeepTheirFile
-----------------------------------------------------------------------------
\* Every open file of session s has a client descriptor ...
NoLeakAt(s) ==
    \A fd \in Fds : IsFile(s, fd) =>
        \E cd \in Mapped(s) : descriptor_map[s][cd] = fd

\* ... because open(2) does not return 0, which add_descriptor_to_map would not
\* enter, while the standard input of the server is open.
InputAt(s) ==
    wpc[s] \notin {"none", "exit", "zombie"} => fdt[s][0].kind = "inherited"

LeakInv == \A s \in Sessions : NoLeakAt(s) /\ InputAt(s)

\* A worker that has ended takes no step, and one that ends only ends.
LEMMA EndsForGood ==
    ASSUME NEW s \in Sessions, IInv, WorkerStep(s)
    PROVE  /\ wpc[s] \notin {"none", "zombie"}
           /\ wpc[s] = "exit" => wpc'[s] = "zombie"
<1>1. wpc \in [Sessions -> Stages]
  BY DEF IInv, ServerTypeOK, WorkerTypeOK
<1>2. CASE authenticate(s) \/ receive_request(s) \/ send_result(s) \/ receive_fails(s)
           \/ destroy(s)
  BY <1>2 DEF authenticate, ask_info, receive_info, select, send_verdict,
              receive_request, send_result, receive_fails, destroy
<1>3. CASE handle_request(s)
  BY <1>3 DEF handle_request, handle_request_open, handle_request_close,
              handle_request_read, handle_request_write, handle_request_lseek,
              handle_request_fstat, handle_request_unlink, handle_request_flock,
              flock_ends, handle_disconnect, reject_message, Handles
<1>4. CASE exit_process(s)
  BY <1>1, <1>4 DEF exit_process, Goto
<1> QED BY <1>2, <1>3, <1>4 DEF WorkerStep

\* Each of the four effects leaves no file without a client descriptor.
LEMMA EffectLeaksNothing ==
    ASSUME NEW s \in Sessions, IInv, FileEffect(s), NoLeakAt(s), InputAt(s)
    PROVE  NoLeakAt(s)'
<1>1. /\ descriptor_map[s] \in [Descriptors -> Fds \cup {NoFd}]
      /\ next_descriptor[s] \in 1..(MaxDescriptor + 1)
      /\ \A cd \in Mapped(s) : /\ cd \in Descriptors /\ descriptor_map[s][cd] \in Fds
                               /\ cd < next_descriptor[s]
  BY DEF IInv, ServerTypeOK, WorkerTypeOK, SessionInv, MapAt, Mapped
<1>2. CASE KeepsFiles(s)
  BY <1>2 DEF KeepsFiles, NoLeakAt, Mapped, IsFile
<1>3. CASE AddsFile(s)
  <2>1. PICK fd \in Fds :
          /\ wpc[s] = "handle" /\ IsFree(s, fd)
          /\ \A g \in Fds \ {fd} : fdt'[s][g] = fdt[s][g]
          /\ \/ /\ fd > 0 /\ next_descriptor[s] \in Descriptors
                /\ descriptor_map'[s] =
                      [descriptor_map[s] EXCEPT ![next_descriptor[s]] = fd]
             \/ fd = 0
    BY <1>3 DEF AddsFile
  <2>2. fd # 0 /\ fd # NoFd
    BY <2>1 DEF InputAt, IsFree, Fds, NoFd
  <2>3. next_descriptor[s] \in Mapped(s)' /\ descriptor_map'[s][next_descriptor[s]] = fd
    BY <1>1, <2>1, <2>2 DEF Mapped
  <2>4. \A cd \in Mapped(s) : cd \in Mapped(s)' /\ descriptor_map'[s][cd] = descriptor_map[s][cd]
    BY <1>1, <2>1, <2>2 DEF Mapped
  <2> QED BY <2>1, <2>3, <2>4 DEF NoLeakAt, IsFile
<1>4. CASE RemovesFile(s)
  <2>1. PICK ce \in Mapped(s) :
          /\ fdt'[s][descriptor_map[s][ce]].kind # "file"
          /\ \A g \in Fds \ {descriptor_map[s][ce]} : fdt'[s][g] = fdt[s][g]
          /\ descriptor_map'[s] = [descriptor_map[s] EXCEPT ![ce] = NoFd]
    BY <1>4 DEF RemovesFile
  <2>2. \A cd \in Mapped(s) \ {ce} :
           cd \in Mapped(s)' /\ descriptor_map'[s][cd] = descriptor_map[s][cd]
    BY <1>1, <2>1 DEF Mapped
  <2> QED BY <2>1, <2>2 DEF NoLeakAt, IsFile
<1>5. CASE DropsMap(s)
  BY <1>5 DEF DropsMap, NoLeakAt
<1> QED BY <1>2, <1>3, <1>4, <1>5 DEF FileEffect

\* ... and descriptor 0 as it was, while the worker lives.
LEMMA EffectKeepsInput ==
    ASSUME NEW s \in Sessions, IInv, FileEffect(s), InputAt(s),
           wpc[s] \in {"none", "exit", "zombie"} =>
               wpc'[s] \in {"none", "exit", "zombie"}
    PROVE  InputAt(s)'
<1>1. \A cd \in Mapped(s) : IsFile(s, descriptor_map[s][cd])
  BY DEF IInv, SessionInv, MapAt
<1>2. 0 \in Fds
  BY KernelAssumption DEF Fds
<1>3. CASE KeepsFiles(s)
  BY <1>2, <1>3 DEF KeepsFiles, InputAt
<1>4. CASE AddsFile(s)
  BY <1>2, <1>4 DEF AddsFile, InputAt, IsFree
<1>5. CASE RemovesFile(s)
  BY <1>1, <1>2, <1>5 DEF RemovesFile, InputAt, IsFile
<1>6. CASE DropsMap(s)
  BY <1>6 DEF DropsMap, InputAt
<1> QED BY <1>3, <1>4, <1>5, <1>6 DEF FileEffect

\* A worker is born with the server's standard input and without a file (fork).
LEMMA BirthLeaksNothing ==
    ASSUME 0 \in Inherited, NEW s \in Sessions, IInv, accept_and_fork(s)
    PROVE  NoLeakAt(s)' /\ InputAt(s)'
<1>1. fdt'[s] = BornTable
  BY DEF accept_and_fork, IInv, ServerTypeOK, KernelTypeOK
<1>2. /\ \A fd \in Fds : BornTable[fd].kind # "file"
      /\ BornTable[0].kind = "inherited"
  BY KernelAssumption DEF BornTable, FreeSlot, EmptySlot
<1> QED BY <1>1, <1>2 DEF NoLeakAt, InputAt, IsFile

\* Both hold in every reachable state, where the server has a standard input.
LEMMA LeakInvHolds ==
    ASSUME 0 \in Inherited
    PROVE  ServerSpec => []LeakInv
<1>1. ServerInit => LeakInv
  BY DEF ServerInit, KernelInit, WorkerInit, LeakInv, NoLeakAt, InputAt, IsFile,
         NoTable, FreeSlot, EmptySlot
<1>2. IInv /\ LeakInv /\ [ServerNext]_serverVars => LeakInv'
  <2> SUFFICES ASSUME IInv, LeakInv, [ServerNext]_serverVars, NEW s \in Sessions
               PROVE  NoLeakAt(s)' /\ InputAt(s)'
    BY DEF LeakInv
  <2>1. NoLeakAt(s) /\ InputAt(s)
    BY DEF LeakInv
  <2>2. CASE UNCHANGED <<fdt, wpc, descriptor_map>>
    BY <2>1, <2>2 DEF NoLeakAt, InputAt, IsFile, Mapped
  <2>3. ASSUME NEW t \in Sessions, WorkerStep(t), UNCHANGED lpc
        PROVE  NoLeakAt(s)' /\ InputAt(s)'
    <3>1. FileEffect(t) /\ StepOK(t)
      BY <2>3, WorkerFileEffect, WorkerStepOK
    <3>2. FileEffect(s)
      BY <3>1 DEF StepOK, SameAt, FileEffect
    <3>3. wpc[s] \in {"none", "exit", "zombie"} => wpc'[s] \in {"none", "exit", "zombie"}
      BY <2>3, <3>1, EndsForGood DEF StepOK, SameAt
    <3> QED BY <2>1, <3>2, <3>3, EffectLeaksNothing, EffectKeepsInput
  <2>4. ASSUME NEW t \in Sessions, accept_and_fork(t)
        PROVE  NoLeakAt(s)' /\ InputAt(s)'
    <3>1. CASE s = t
      BY <2>4, <3>1, BirthLeaksNothing
    <3>2. CASE s # t
      <4>1. SameAt(s)
        BY <2>4, <3>2, AcceptAndFork DEF StepOK
      <4> QED BY <2>1, <4>1 DEF SameAt, KeepsFiles, NoLeakAt, InputAt, IsFile, Mapped
    <3> QED BY <3>1, <3>2
  <2>5. CASE UNCHANGED serverVars \/ EnvStep \/ accept_fails
             \/ \E t \in Sessions : fork_fails(t)
    BY <2>2, <2>5 DEF serverVars, EnvStep, accept_fails, fork_fails, kernelVars, workerVars
  <2> QED BY <2>3, <2>4, <2>5 DEF ServerNext, ListenerStep
<1> QED BY <1>1, <1>2, IInvHolds, PTL DEF ServerSpec

\* Where the server runs with its standard input open, no worker ever holds a
\* file that its client cannot close and its destructor would not (README.md:403).
THEOREM NothingLeaks ==
    ASSUME 0 \in Inherited
    PROVE  ServerSpec => []NoDescriptorLeak
<1>1. LeakInv => NoDescriptorLeak
  BY DEF LeakInv, NoLeakAt, NoDescriptorLeak
<1> QED BY <1>1, LeakInvHolds, PTL

-----------------------------------------------------------------------------
\* The answer that session s has ready says why, if it reports a failure.
ErrnoAt(s) ==
    wpc[s] = "reply" /\ response[s].value < 0 =>
        response[s].errno \notin {"0", "stale"}

\* An answer that is no failure, or has a reason (the ends of the handlers).
LEMMA AnswerHasErrno ==
    ASSUME NEW s \in Sessions, IInv, NEW value, NEW errno, NEW data,
           Answer(s, value, errno, data),
           value < 0 => errno \notin {"0", "stale"}
    PROVE  ErrnoAt(s)'
<1>1. response'[s] = [code |-> ResultCode(request[s].code), value |-> value,
                      errno |-> errno, data |-> data]
  BY DEF Answer, IInv, ServerTypeOK, WorkerTypeOK
<1> QED BY <1>1 DEF ErrnoAt

\* A position that fits an int comes through the conversion as it was.
LEMMA ToIntFits ==
    ASSUME NEW x \in Nat, x <= IntMax
    PROVE  ToInt(x) = x
<1>1. IntMax \in Nat
  BY MessagesAssumption
<1>2. x + IntMax + 1 \in 0..(2 * (IntMax + 1) - 1)
  BY <1>1
<1>3. \A n \in Nat : \A y \in 0..(n - 1) : y % n = y
  OBVIOUS
<1>4. (x + IntMax + 1) % (2 * (IntMax + 1)) = x + IntMax + 1
  BY <1>1, <1>2, <1>3
<1> QED BY <1>1, <1>4 DEF ToInt

\* Every answer of a handler has its errno (handle_requests).
LEMMA HandlersHaveErrno ==
    ASSUME NEW s \in Sessions, IInv, handle_request(s), MaxOffset <= IntMax
    PROVE  ErrnoAt(s)'
<1>1. KernelTypeOK /\ wpc \in [Sessions -> Stages]
  BY DEF IInv, ServerTypeOK, WorkerTypeOK
<1>2. ASSUME wpc'[s] # "reply" PROVE ErrnoAt(s)'
  BY <1>2 DEF ErrnoAt
<1>3. CASE AnswerEBADF(s)
  BY <1>3, AnswerHasErrno DEF AnswerEBADF
<1>4. ASSUME NEW code, Abandon(s, code) PROVE ErrnoAt(s)'
  BY <1>1, <1>2, <1>4 DEF Abandon, Returns
<1>5. CASE handle_request_open(s)
  <2>1. next_descriptor[s] \in Nat
    BY DEF IInv, ServerTypeOK, WorkerTypeOK
  <2>2. \A fd \in Fds : ~(fd < 0)
    BY KernelAssumption DEF Fds
  <2>3. \A path, flags : \A e \in OpenErrors(s, path, flags) : e \notin {"0", "stale"}
    BY DEF OpenErrors
  <2> QED BY <1>4, <1>5, <2>1, <2>2, <2>3, AnswerHasErrno DEF handle_request_open
<1>6. CASE handle_request_close(s)
  BY <1>3, <1>6, AnswerHasErrno DEF handle_request_close
<1>7. CASE handle_request_read(s)
  <2>1. CASE Dies(s, "killed")
    BY <1>1, <1>2, <2>1 DEF Dies
  <2>2. ASSUME Readable(s), Answer(s, Len(ReadData(s, Target(s), request[s].size)), "0",
                                   ReadData(s, Target(s), request[s].size))
        PROVE  ErrnoAt(s)'
    <3>1. request[s].size \in Nat
      BY <1>7, HandlerFacts, MessageFields DEF handle_request_read
    <3>2. ReadData(s, Target(s), request[s].size) \in Seq(Nat)
      BY <1>1, <2>2, <3>1, TargetType, ReadDataType DEF Readable
    <3>3. ~(Len(ReadData(s, Target(s), request[s].size)) < 0)
      BY <3>2, LenProperties
    <3> QED BY <2>2, <3>3, AnswerHasErrno
  <2> QED BY <1>7, <2>1, <2>2 DEF handle_request_read
<1>8. CASE handle_request_write(s)
  <2> DEFINE n == WriteCount(s, Target(s), request[s].data)
  <2>1. ASSUME Usable(s, {"WR"}), Answer(s, n, "0", << >>), SysWrite(s, Target(s), request[s].data)
        PROVE  ErrnoAt(s)'
    <3>1. request[s].data \in Seq(Nat)
      BY <1>8, HandlerFacts, MessageFields DEF handle_request_write
    <3>2. n \in 0..Len(request[s].data)
      BY <1>1, <2>1, <3>1, TargetType, SysWriteType
    <3>3. ~(n < 0)
      BY <3>2
    <3> QED BY <2>1, <3>3, AnswerHasErrno
  <2> QED BY <1>3, <1>8, <2>1, AnswerHasErrno DEF handle_request_write
<1>9. CASE handle_request_lseek(s)
  <2>1. ASSUME NEW pos \in 0..MaxOffset, NEW errno, Answer(s, ToInt(pos), errno, << >>)
        PROVE  ErrnoAt(s)'
    <3>1. pos \in Nat /\ pos <= IntMax
      BY KernelAssumption, MessagesAssumption
    <3>2. ~(ToInt(pos) < 0)
      BY <3>1, ToIntFits
    <3> QED BY <2>1, <3>2, AnswerHasErrno
  <2> QED BY <1>3, <1>9, <2>1, AnswerHasErrno DEF handle_request_lseek
<1>10. CASE handle_request_fstat(s)
  BY <1>3, <1>10, AnswerHasErrno DEF handle_request_fstat
<1>11. CASE handle_request_unlink(s)
  <2>1. \A path : \A e \in UnlinkErrors(s, path) : e \notin {"0", "stale"}
    BY DEF UnlinkErrors
  <2> QED BY <1>4, <1>11, <2>1, AnswerHasErrno DEF handle_request_unlink
<1>12. CASE handle_request_flock(s)
  <2>1. CASE Goto(s, "flock")
    BY <1>1, <1>2, <2>1 DEF Goto
  <2> QED BY <1>3, <1>12, <2>1, AnswerHasErrno DEF handle_request_flock
<1>13. CASE flock_ends(s)
  BY <1>13, AnswerHasErrno DEF flock_ends
<1>14. CASE handle_disconnect(s) \/ reject_message(s)
  BY <1>4, <1>14 DEF handle_disconnect, reject_message
<1> QED BY <1>5, <1>6, <1>7, <1>8, <1>9, <1>10, <1>11, <1>12, <1>13, <1>14
        DEF handle_request

\* As long as every position fits an int, a worker never reports a failure
\* without saying why (errno_ of the handlers); handle_request_lseek is why the
\* condition is there.
THEOREM FailuresAreExplained ==
    ASSUME MaxOffset <= IntMax
    PROVE  ServerSpec => []FailuresHaveErrno
<1>1. ServerInit => FailuresHaveErrno
  BY DEF ServerInit, WorkerInit, FailuresHaveErrno
<1>2. IInv /\ FailuresHaveErrno /\ [ServerNext]_serverVars => FailuresHaveErrno'
  <2> SUFFICES ASSUME IInv, FailuresHaveErrno, [ServerNext]_serverVars,
                      NEW s \in Sessions
               PROVE  ErrnoAt(s)'
    BY DEF FailuresHaveErrno, ErrnoAt
  <2>1. ErrnoAt(s)
    BY DEF FailuresHaveErrno, ErrnoAt
  <2>2. CASE UNCHANGED <<wpc, response>>
    BY <2>1, <2>2 DEF ErrnoAt
  <2>3. ASSUME WorkerStep(s) PROVE ErrnoAt(s)'
    <3>1. CASE handle_request(s)
      BY <3>1, HandlersHaveErrno
    <3>2. CASE ~handle_request(s)
      <4>1. wpc'[s] # "reply"
        BY <2>3, <3>2
           DEF WorkerStep, authenticate, ask_info, receive_info, select, send_verdict,
               receive_request, send_result, receive_fails, destroy, exit_process,
               SendThen, Goto, Returns, Dies, IInv, ServerTypeOK, WorkerTypeOK
      <4> QED BY <4>1 DEF ErrnoAt
    <3> QED BY <3>1, <3>2
  <2>4. ASSUME NEW t \in Sessions, WorkerStep(t), UNCHANGED lpc, s # t PROVE ErrnoAt(s)'
    <3>1. SameAt(s)
      BY <2>4, WorkerStepOK DEF StepOK
    <3> QED BY <2>1, <3>1 DEF SameAt, ErrnoAt
  <2>5. ASSUME NEW t \in Sessions, accept_and_fork(t) PROVE ErrnoAt(s)'
    BY <2>1, <2>5 DEF accept_and_fork, Goto, messageVars, ErrnoAt, IInv, ServerTypeOK,
                      WorkerTypeOK
  <2>6. CASE UNCHANGED serverVars \/ EnvStep \/ accept_fails
             \/ \E t \in Sessions : fork_fails(t)
    BY <2>2, <2>6 DEF serverVars, EnvStep, accept_fails, fork_fails, workerVars
  <2> QED BY <2>3, <2>4, <2>5, <2>6 DEF ServerNext, ListenerStep
<1> QED BY <1>1, <1>2, IInvHolds, PTL DEF ServerSpec
=============================================================================
