------------------------ MODULE NFSRefinement_proofs ------------------------
(***************************************************************************)
(* The other half of the proof that the system implements RemoteFiles.tla: *)
(* the steps of the workers are steps of the system there, on the files,   *)
(* the descriptors and the user of the client that each of them serves.    *)
(***************************************************************************)
EXTENDS NFSRemote_proofs

\* The worker of session s serves client c.
Serves(s, c) == c \in Clients /\ m_access[c] /\ m_sockfd[c] = s

-----------------------------------------------------------------------------
(* What a step of a worker is about.                                       *)

\* It concerns the client that the worker serves, and nothing but its table, its
\* job and its session.
LEMMA WorkerViews ==
    ASSUME NEW s \in Sessions, MappingInv, WorkerMoves(s)
    PROVE  /\ \A d \in Clients : ~Serves(s, d) => SameView(d)
           /\ UNCHANGED <<RemoteCalls, RemoteReturns, RemoteEnds, m_errno>>
           /\ UNCHANGED <<m_access, m_sockfd, cend>> /\ WorkerStep(s)
           /\ TcpTypeOK /\ WorkerTypeOK /\ KernelTypeOK /\ SessionInv(s)
           /\ OneAt(s) /\ ExpectedAt(s) /\ WireAt(s) /\ ServedAt(s) /\ ServerModeAt(s)
<1>1. /\ UNCHANGED connectionVars /\ UNCHANGED cend /\ WorkerStep(s)
      /\ \A t \in Sessions \ {s} :
            /\ c2s'[t] = c2s[t] /\ s2c'[t] = s2c[t] /\ wpc'[t] = wpc[t]
            /\ fdt'[t] = fdt[t] /\ descriptor_map'[t] = descriptor_map[t]
            /\ userid'[t] = userid[t] /\ filesystem_prefix'[t] = filesystem_prefix[t]
            /\ request'[t] = request[t] /\ response'[t] = response[t]
  BY WorkerTouches DEF MappingInv, SystemInv
<1>2. ASSUME NEW d \in Clients, ~Serves(s, d) PROVE SameView(d)
  <2>1. m_access[d] => m_sockfd[d] \in Sessions \ {s}
    BY <1>2 DEF Serves, MappingInv, RemoteInv, ClientsView, StageAt, SystemInv, ClientsInv,
                ConnectionTypeOK
  <2>2. m_access'[d] = m_access[d] /\ m_sockfd'[d] = m_sockfd[d]
    BY <1>1 DEF connectionVars
  <2>3. m_access[d] => SameSession(m_sockfd[d])
    BY <1>1, <2>1 DEF SameSession
  <2> QED BY <2>2, <2>3, ViewKept
<1>3. UNCHANGED <<RemoteCalls, RemoteReturns, RemoteEnds, m_errno, m_access, m_sockfd>>
  BY <1>1 DEF connectionVars, RemoteCalls, RemoteReturns, RemoteEnds, HasLeft
<1>4. /\ TcpTypeOK /\ WorkerTypeOK /\ KernelTypeOK /\ SessionInv(s)
      /\ OneAt(s) /\ ExpectedAt(s) /\ WireAt(s) /\ ServedAt(s) /\ ServerModeAt(s)
  BY TalkFacts DEF MappingInv, SystemInv, IInv, ServerTypeOK, RemoteInv, SessionsView
<1> QED BY <1>1, <1>2, <1>3, <1>4

\* Files change in the handlers of requests only (handle_requests).
LEMMA FilesChangeInHandlers ==
    ASSUME NEW s \in Sessions, WorkerStep(s), request[s].code \notin RequestCodes
    PROVE  UNCHANGED <<dir, content>>
BY DEF WorkerStep, authenticate, ask_info, receive_info, select, send_verdict,
       receive_request, handle_request, handle_request_open, handle_request_close,
       handle_request_read, handle_request_write, handle_request_lseek,
       handle_request_fstat, handle_request_unlink, handle_request_flock, flock_ends,
       handle_disconnect, reject_message, send_result, receive_fails, destroy,
       exit_process, SetLock, SysClose, Abandon, Handles, RequestCodes, kernelVars

\* A worker that serves nobody does nothing that is seen.
LEMMA UnservedStutters ==
    ASSUME NEW s \in Sessions, MappingInv, WorkerMoves(s), ~Served(s)
    PROVE  UNCHANGED Remote!remoteVars
<1>1. \A d \in Clients : ~Serves(s, d)
  BY DEF Served, Serves
<1>2. UNCHANGED <<RemoteTables, RemoteUsers, RemoteRoots, RemoteSessions, RemoteJobs>>
  BY <1>1, WorkerViews, NoneViewed
<1>3. UNCHANGED <<dir, content>>
  BY WorkerViews, FilesChangeInHandlers DEF ServedAt
<1> QED BY <1>2, <1>3, WorkerViews DEF Remote!remoteVars, Remote!kernelVars, Remote!apiVars

\* The listener does nothing that is seen either: whoever has access has a worker.
LEMMA ListenerStutters ==
    ASSUME MappingInv, ListenerStep, UNCHANGED connectionVars
    PROVE  UNCHANGED Remote!remoteVars
<1>1. TcpTypeOK /\ WorkerTypeOK /\ KernelTypeOK /\ \A s \in Sessions : SessionInv(s)
  BY DEF MappingInv, SystemInv, IInv, ServerTypeOK
<1>2. ASSUME NEW d \in Clients PROVE SameView(d)
  <2>1. m_access'[d] = m_access[d] /\ m_sockfd'[d] = m_sockfd[d]
    BY DEF connectionVars
  <2>2. ASSUME m_access[d] PROVE SameSession(m_sockfd[d])
    <3>1. PICK s \in Sessions : s = m_sockfd[d] /\ wpc[s] \in Serving \cup Ended
      BY <2>2 DEF MappingInv, RemoteInv, ClientsView, StageAt, SystemInv, ClientsInv,
                  ConnectionTypeOK
    <3>2. wend[s] # "backlog"
      BY <1>1, <3>1 DEF SessionInv, SocketAt, Serving, Ended
    <3>3. UNCHANGED <<s2c, sessionVars, mapVars, messageVars>>
      BY DEF ListenerStep, accept_fails, accept_and_fork, fork_fails, WorkerCloses,
             workerVars, sessionVars, mapVars, messageVars
    <3>4. c2s'[s] = c2s[s] /\ wpc'[s] = wpc[s] /\ fdt'[s] = fdt[s]
      <4>1. CASE accept_fails
        BY <1>1, <3>2, <4>1 DEF accept_fails, workerVars, kernelVars, TcpTypeOK
      <4>2. ASSUME NEW t \in Sessions, accept_and_fork(t) \/ fork_fails(t)
            PROVE  c2s'[s] = c2s[s] /\ wpc'[s] = wpc[s] /\ fdt'[s] = fdt[s]
        <5>1. t # s
          BY <3>2, <4>2 DEF accept_and_fork, fork_fails
        <5> QED BY <1>1, <4>2, <5>1
                DEF accept_and_fork, fork_fails, Goto, WorkerCloses, workerVars,
                    kernelVars, TcpTypeOK, WorkerTypeOK, KernelTypeOK
      <4> QED BY <4>1, <4>2 DEF ListenerStep
    <3> QED BY <3>1, <3>3, <3>4 DEF SameSession, sessionVars, mapVars, messageVars
  <2> QED BY <2>1, <2>2, ViewKept
<1>3. UNCHANGED <<RemoteTables, RemoteUsers, RemoteRoots, RemoteSessions, RemoteJobs>>
  BY <1>2, NoneViewed
<1>4. UNCHANGED <<dir, content>>
  BY DEF ListenerStep, accept_fails, accept_and_fork, fork_fails, kernelVars
<1>5. UNCHANGED <<RemoteCalls, RemoteReturns, RemoteEnds, m_errno>>
  BY DEF connectionVars, RemoteCalls, RemoteReturns, RemoteEnds, HasLeft
<1> QED BY <1>3, <1>4, <1>5 DEF Remote!remoteVars, Remote!kernelVars, Remote!apiVars

-----------------------------------------------------------------------------
(* What is seen of the session of a client with access.                    *)

TableAt(s) ==
    [cd \in Fds |-> IF is_descriptor_in_map(s, cd)
                    THEN fdt[s][get_descriptor_from_map(s, cd)] ELSE FreeSlot]
SessionAt(s) == IF wpc[s] \in Ended THEN "over" ELSE "on"

\* Client c has access to session s, in which its worker serves or has done so.
LEMMA ServedFacts ==
    ASSUME NEW s \in Sessions, NEW c, Serves(s, c), MappingInv
    PROVE  /\ wpc[s] \in Serving \cup Ended
           /\ \A d \in Clients \ {c} : ~Serves(s, d)
           /\ RemoteTables[c] = TableAt(s) /\ RemoteSessions[c] = SessionAt(s)
           /\ RemoteJobs[c] = IF wpc[s] \in Ended THEN NoJob ELSE JobAt(s)
           /\ RemoteUsers[c] = userid[s] /\ RemoteRoots[c] = filesystem_prefix[s]
           /\ RemoteTables[c] = RemoteTable(c) /\ RemoteSessions[c] = RemoteSession(c)
           /\ RemoteJobs[c] = RemoteJob(c)
<1>1. c \in Clients /\ m_access[c] /\ m_sockfd[c] = s
  BY DEF Serves
<1>2. wpc[s] \in Serving \cup Ended
  BY <1>1 DEF MappingInv, RemoteInv, ClientsView, StageAt
<1>3. \A d \in Clients \ {c} : ~Serves(s, d)
  BY <1>1 DEF MappingInv, RemoteInv, ClientsView, OwnAt, StageAt, Serves
<1>4. RemoteTable(c) = TableAt(s)
  BY <1>1 DEF RemoteTable, TableAt, Sock
<1>5. RemoteSession(c) = SessionAt(s)
  BY <1>1 DEF RemoteSession, SessionAt, Sock, Ended
<1>6. RemoteJob(c) = IF wpc[s] \in Ended THEN NoJob ELSE JobAt(s)
  BY <1>1, <1>5 DEF RemoteJob, SessionAt, Sock
<1>7. /\ RemoteTables[c] = RemoteTable(c) /\ RemoteSessions[c] = RemoteSession(c)
      /\ RemoteJobs[c] = RemoteJob(c)
  BY <1>1 DEF RemoteTables, RemoteSessions, RemoteJobs
<1>8. RemoteUsers[c] = userid[s] /\ RemoteRoots[c] = filesystem_prefix[s]
  BY <1>1 DEF RemoteUsers, RemoteRoots, Sock
<1> QED BY <1>2, <1>3, <1>4, <1>5, <1>6, <1>7, <1>8

\* A step of the worker shows as one of the table, the job and the session.
LEMMA ServedMoves ==
    ASSUME NEW s \in Sessions, NEW c, Serves(s, c), MappingInv, WorkerMoves(s)
    PROVE  /\ RemoteTables' = [RemoteTables EXCEPT ![c] = TableAt(s)']
           /\ RemoteSessions' = [RemoteSessions EXCEPT ![c] = SessionAt(s)']
           /\ RemoteJobs' = [RemoteJobs EXCEPT ![c] =
                                IF wpc'[s] \in Ended THEN NoJob ELSE JobAt(s)']
           /\ UNCHANGED <<RemoteUsers, RemoteRoots>>
           /\ TableAt(s)' = TableAt(s) => UNCHANGED RemoteTables
           /\ SessionAt(s)' = SessionAt(s) => UNCHANGED RemoteSessions
           /\ (IF wpc'[s] \in Ended THEN NoJob ELSE JobAt(s)') = RemoteJobs[c] =>
                 UNCHANGED RemoteJobs
<1>1. c \in Clients /\ m_access[c] /\ m_sockfd[c] = s /\ UNCHANGED <<m_access, m_sockfd>>
      /\ \A d \in Clients \ {c} : SameView(d)
  BY ServedFacts, WorkerViews DEF Serves
<1>2. RemoteTable(c)' = TableAt(s)'
  BY <1>1 DEF RemoteTable, TableAt, Sock
<1>3. RemoteSession(c)' = SessionAt(s)'
  BY <1>1 DEF RemoteSession, SessionAt, Sock, Ended
<1>4. RemoteJob(c)' = IF wpc'[s] \in Ended THEN NoJob ELSE JobAt(s)'
  BY <1>1, <1>3 DEF RemoteJob, SessionAt, Sock
<1>5. userid'[s] = userid[s] /\ filesystem_prefix'[s] = filesystem_prefix[s]
  BY WorkerViews, ServedFacts
     DEF WorkerStep, authenticate, ask_info, receive_info, select, send_verdict,
         receive_request, handle_request, handle_request_open, handle_request_close,
         handle_request_read, handle_request_write, handle_request_lseek,
         handle_request_fstat, handle_request_unlink, handle_request_flock, flock_ends,
         handle_disconnect, reject_message, send_result, receive_fails, destroy,
         exit_process, Answer, AnswerEBADF, Abandon, sessionVars, Serving, Ended
<1>6. RemoteUsers'[c] = RemoteUsers[c] /\ RemoteRoots'[c] = RemoteRoots[c]
  BY <1>1, <1>5 DEF RemoteUsers, RemoteRoots, Sock
<1>7. /\ RemoteSessions = [d \in Clients |-> RemoteSessions[d]]
      /\ RemoteTables = [d \in Clients |-> RemoteTables[d]]
      /\ RemoteUsers = [d \in Clients |-> RemoteUsers[d]]
      /\ RemoteRoots = [d \in Clients |-> RemoteRoots[d]]
      /\ RemoteJobs = [d \in Clients |-> RemoteJobs[d]]
  BY DEF RemoteSessions, RemoteTables, RemoteUsers, RemoteRoots, RemoteJobs
<1>8. \A f : f = [d \in Clients |-> f[d]] => f = [f EXCEPT ![c] = f[c]]
  OBVIOUS
<1>9. RemoteTables[c] = TableAt(s) /\ RemoteSessions[c] = SessionAt(s)
  BY ServedFacts
<1> QED BY <1>1, <1>2, <1>3, <1>4, <1>6, <1>7, <1>8, <1>9, OneView

\* A session that keeps its descriptors and its map shows the same table.
LEMMA TableStays ==
    ASSUME NEW s \in Sessions, fdt'[s] = fdt[s], descriptor_map'[s] = descriptor_map[s]
    PROVE  TableAt(s)' = TableAt(s)
BY DEF TableAt, is_descriptor_in_map, get_descriptor_from_map

\* While the worker handles a request, the system has that call of the client.
LEMMA PendingFacts ==
    ASSUME NEW s \in Sessions, NEW c, Serves(s, c), MappingInv, NEW code \in RequestCodes,
           Handles(s, code)
    PROVE  /\ Remote!Pending(c, code) /\ Remote!Arg(c) = request[s]
           /\ RemoteSessions[c] = "on" /\ request[s] \in Calls
           /\ RemoteUsers[c] = euid[s] /\ RemoteRoots[c] = filesystem_prefix[s]
<1>1. wpc[s] = "handle" /\ request[s].code = code
  BY DEF Handles
<1>2. RemoteJobs[c] = Submitted("pending", request[s]) /\ RemoteSessions[c] = "on"
  BY <1>1, ServedFacts DEF JobAt, SessionAt, Ended
<1>3. euid[s] = userid[s] /\ request[s] \in Calls \cup {Bare("DISCONNECT")}
  BY <1>1, TalkFacts DEF MappingInv, SystemInv, SessionInv, IdentityAt, ExpectedAt
<1>4. request[s] \in Calls
  BY <1>1, <1>3 DEF Bare, RequestCodes
<1> QED BY <1>1, <1>2, <1>3, <1>4, ServedFacts
        DEF Remote!Pending, Remote!Arg, Submitted

\* A descriptor that the library sends survives the int of the map.
LEMMA DescriptorFits ==
    ASSUME NEW s \in Sessions, MappingInv, wpc[s] \in {"handle", "flock"},
           request[s].code \in RequestCodes \ {"REQUEST_OPEN", "REQUEST_UNLINK"}
    PROVE  ClientFd(s) = request[s].fd /\ request[s] \in Calls
<1>1. request[s] \in Calls \cup {Bare("DISCONNECT")}
  BY TalkFacts DEF MappingInv, SystemInv, ExpectedAt
<1>2. request[s] \in Calls
  BY <1>1 DEF Bare, RequestCodes
<1> QED BY <1>2, ConnectionAssumption DEF ClientFd

\* The answer of a handler is the answer of the system.
LEMMA AnswerSeen ==
    ASSUME NEW s \in Sessions, NEW c, Serves(s, c), MappingInv, WorkerMoves(s),
           wpc[s] \in {"handle", "flock"}, NEW value, NEW errno, NEW data,
           Answer(s, value, errno, data)
    PROVE  /\ Remote!Answers(c, value, IF value < 0 THEN errno ELSE "0", data)
           /\ UNCHANGED <<RemoteUsers>>
<1>1. WorkerTypeOK
  BY WorkerViews
<1>2. /\ wpc'[s] = "reply"
      /\ response'[s] = [code |-> ResultCode(request[s].code), value |-> value,
                         errno |-> errno, data |-> data]
  BY <1>1 DEF Answer, Goto, WorkerTypeOK
<1>3. JobAt(s)' = Remote!Done(value, IF value < 0 THEN errno ELSE "0", data)
  BY <1>2 DEF JobAt, Answered, Remote!Done
<1>4. SessionAt(s)' = SessionAt(s) /\ wpc'[s] \notin Ended
  BY <1>2 DEF SessionAt, Ended
<1> QED BY <1>3, <1>4, ServedMoves, WorkerViews DEF Remote!Answers

\* A failure leaves files and tables alone.
LEMMA FailureSeen ==
    ASSUME NEW s \in Sessions, NEW c, Serves(s, c), MappingInv, WorkerMoves(s),
           wpc[s] \in {"handle", "flock"}, NEW errno,
           Answer(s, -1, errno, << >>), UNCHANGED <<kernelVars, mapVars>>
    PROVE  Remote!Fails(c, errno)
<1>1. Remote!Answers(c, -1, errno, << >>)
  BY AnswerSeen
<1>2. UNCHANGED <<dir, content, RemoteTables, RemoteUsers>>
  BY TableStays, ServedMoves DEF kernelVars, mapVars
<1> QED BY <1>1, <1>2 DEF Remote!Fails, Remote!kernelVars

-----------------------------------------------------------------------------
(* Descriptors: the table of a client, seen through the map of its worker. *)

\* The descriptors of a client are numbers that a process may have, and the map
\* of the worker gives each of them a file of its own.
LEMMA MapFacts ==
    ASSUME NEW s \in Sessions, IInv, MaxDescriptor <= MaxFd, NEW cd,
           is_descriptor_in_map(s, cd)
    PROVE  /\ cd \in Fds /\ cd \in Descriptors /\ cd # 0
           /\ descriptor_map[s][cd] \in Fds /\ IsFile(s, descriptor_map[s][cd])
           /\ TableAt(s)[cd] = fdt[s][descriptor_map[s][cd]]
           /\ \A ce : is_descriptor_in_map(s, ce) /\ ce # cd =>
                 descriptor_map[s][ce] # descriptor_map[s][cd]
<1>1. WorkerTypeOK /\ MapAt(s) /\ cd \in Mapped(s) /\ cd \in Descriptors
  BY DEF IInv, ServerTypeOK, SessionInv, is_descriptor_in_map, Mapped
<1>2. cd \in Fds /\ cd # 0
  BY <1>1, KernelAssumption, WorkerAssumption DEF Descriptors, Fds
<1>3. descriptor_map[s][cd] \in Fds /\ IsFile(s, descriptor_map[s][cd])
  BY <1>1 DEF MapAt, Mapped, WorkerTypeOK
<1>4. \A ce : is_descriptor_in_map(s, ce) /\ ce # cd =>
         descriptor_map[s][ce] # descriptor_map[s][cd]
  BY <1>1 DEF MapAt, Mapped, is_descriptor_in_map
<1> QED BY <1>1, <1>2, <1>3, <1>4 DEF TableAt, get_descriptor_from_map

\* A change of one mapped descriptor is a change of one descriptor of the client.
LEMMA SlotSeen ==
    ASSUME NEW s \in Sessions, IInv, MaxDescriptor <= MaxFd, NEW cd,
           is_descriptor_in_map(s, cd), NEW slot,
           \A g \in Fds : fdt'[s][g] = IF g = descriptor_map[s][cd] THEN slot ELSE fdt[s][g],
           descriptor_map'[s] = descriptor_map[s]
    PROVE  TableAt(s)' = [TableAt(s) EXCEPT ![cd] = slot]
<1>1. fdt[s] \in [Fds -> Slot] /\ cd \in Fds /\ descriptor_map[s][cd] \in Fds
  BY MapFacts DEF IInv, ServerTypeOK, KernelTypeOK
<1>2. ASSUME NEW ce \in Fds
      PROVE  TableAt(s)'[ce] = IF ce = cd THEN slot ELSE TableAt(s)[ce]
  <2>1. is_descriptor_in_map(s, ce)' <=> is_descriptor_in_map(s, ce)
    BY DEF is_descriptor_in_map
  <2>2. CASE ce = cd
    BY <1>1, <2>1, <2>2 DEF TableAt, get_descriptor_from_map
  <2>3. CASE ce # cd /\ is_descriptor_in_map(s, ce)
    <3>1. descriptor_map[s][ce] # descriptor_map[s][cd] /\ descriptor_map[s][ce] \in Fds
      BY <2>3, MapFacts
    <3> QED BY <1>1, <2>1, <2>3, <3>1 DEF TableAt, get_descriptor_from_map
  <2>4. CASE ce # cd /\ ~is_descriptor_in_map(s, ce)
    BY <1>1, <2>1, <2>4 DEF TableAt
  <2> QED BY <2>2, <2>3, <2>4
<1>3. TableAt(s)' = [ce \in Fds |-> TableAt(s)'[ce]]
  BY DEF TableAt
<1>4. TableAt(s) = [ce \in Fds |-> TableAt(s)[ce]]
  BY DEF TableAt
<1> QED BY <1>2, <1>3, <1>4

\* What a worker can use of a request, the client can use there (Usable).
LEMMA FitSeen ==
    ASSUME NEW s \in Sessions, NEW c, Serves(s, c), MappingInv, MaxDescriptor <= MaxFd,
           Remote!Arg(c) = request[s], ClientFd(s) = request[s].fd, NEW need
    PROVE  /\ Usable(s, need) <=> Remote!Fit(c, need)
           /\ is_descriptor_in_map(s, request[s].fd) <=> Remote!Fit(c, {})
           /\ Usable(s, need) => /\ is_descriptor_in_map(s, request[s].fd)
                                 /\ Target(s) = descriptor_map[s][request[s].fd]
                                 /\ request[s].fd \in Fds
                                 /\ RemoteTables[c][request[s].fd] = fdt[s][Target(s)]
                                 /\ Target(s) \in Fds
<1> DEFINE cd == request[s].fd
<1>1. IInv /\ RemoteTables[c] = TableAt(s)
  BY ServedFacts, SMTT(20) DEF MappingInv, SystemInv
<1>2. CASE is_descriptor_in_map(s, cd)
  <2>1. /\ cd \in Fds /\ descriptor_map[s][cd] \in Fds /\ IsFile(s, descriptor_map[s][cd])
        /\ RemoteTables[c][cd] = fdt[s][descriptor_map[s][cd]]
    BY <1>1, <1>2, MapFacts
  <2> QED BY <1>2, <2>1 DEF Usable, Target, get_descriptor_from_map, IsFile, Remote!Fit,
                            Remote!IsFile, Remote!Fds, Fds
<1>3. CASE ~is_descriptor_in_map(s, cd)
  <2>1. cd \in Fds => RemoteTables[c][cd].kind = "free"
    BY <1>1, <1>3 DEF TableAt, FreeSlot, EmptySlot
  <2> QED BY <1>3, <2>1 DEF Usable, Remote!Fit, Remote!IsFile, Remote!Fds, Fds
<1> QED BY <1>2, <1>3

\* Behind a file of a client there is one of its worker ...
LEMMA FileBehind ==
    ASSUME NEW d \in Clients, NEW h \in Fds, Remote!IsFile(d, h), MappingInv,
           MaxDescriptor <= MaxFd
    PROVE  \E t \in Sessions :
              /\ Serves(t, d) /\ is_descriptor_in_map(t, h)
              /\ descriptor_map[t][h] \in Fds /\ IsFile(t, descriptor_map[t][h])
              /\ RemoteTables[d][h] = fdt[t][descriptor_map[t][h]]
<1>1. RemoteTables[d] = RemoteTable(d) /\ RemoteTable(d)[h].kind = "file"
  BY DEF Remote!IsFile, RemoteTables
<1>2. m_access[d] /\ is_descriptor_in_map(m_sockfd[d], h)
  BY <1>1 DEF RemoteTable, FreeSlot, EmptySlot, Sock
<1>3. PICK t \in Sessions : t = m_sockfd[d] /\ Serves(t, d)
  BY <1>2 DEF MappingInv, SystemInv, ClientsInv, ConnectionTypeOK, RemoteInv, ClientsView,
              StageAt, Serves
<1> QED BY <1>2, <1>3, ServedFacts, MapFacts DEF MappingInv, SystemInv

\* ... and every file that a worker has open is one of its client.
LEMMA FileSeen ==
    ASSUME NEW t \in Sessions, NEW g \in Fds, IsFile(t, g), MappingInv, LeakInv,
           MaxDescriptor <= MaxFd
    PROVE  \E d \in Clients, h \in Fds :
              /\ Serves(t, d) /\ is_descriptor_in_map(t, h) /\ descriptor_map[t][h] = g
              /\ Remote!IsFile(d, h) /\ RemoteTables[d][h] = fdt[t][g]
<1>1. PICK h \in Descriptors : is_descriptor_in_map(t, h) /\ descriptor_map[t][h] = g
  BY DEF LeakInv, NoLeakAt, Mapped, is_descriptor_in_map
<1>2. PICK d \in Clients : Serves(t, d)
  BY DEF MappingInv, RemoteInv, SessionsView, ServedAt, Served, Serves
<1>3. h \in Fds /\ RemoteTables[d][h] = fdt[t][g]
  BY <1>1, <1>2, ServedFacts, MapFacts DEF MappingInv, SystemInv
<1> QED BY <1>1, <1>2, <1>3 DEF Remote!IsFile, IsFile

\* The same files are in use,
LEMMA InodeSeen ==
    ASSUME NEW i, MappingInv, LeakInv, MaxDescriptor <= MaxFd
    PROVE  InodeInUse(i) <=> Remote!InodeInUse(i)
<1>1. ASSUME NEW t \in Sessions, NEW g \in Fds, IsFile(t, g), fdt[t][g].ino = i
      PROVE  Remote!InodeInUse(i)
  BY <1>1, FileSeen DEF Remote!InodeInUse, Remote!Fds, Fds
<1>2. ASSUME NEW d \in Clients, NEW h \in Fds, Remote!IsFile(d, h),
             RemoteTables[d][h].ino = i
      PROVE  InodeInUse(i)
  BY <1>2, FileBehind DEF InodeInUse
<1> QED BY <1>1, <1>2
        DEF InodeInUse, Remote!InodeInUse, Remote!Fds, Fds, Remote!Paths, Paths

\* and the same locks are in the way (flock(2)).
LEMMA ConflictSeen ==
    ASSUME NEW s \in Sessions, NEW c, Serves(s, c), MappingInv, LeakInv,
           MaxDescriptor <= MaxFd, NEW cd, is_descriptor_in_map(s, cd), NEW mode
    PROVE  LockConflict(s, descriptor_map[s][cd], mode) <=> Remote!LockConflict(c, cd, mode)
<1>1. /\ RemoteTables[c][cd] = fdt[s][descriptor_map[s][cd]] /\ cd \in Fds
      /\ \A ce : is_descriptor_in_map(s, ce) /\ ce # cd =>
            descriptor_map[s][ce] # descriptor_map[s][cd]
      /\ \A d \in Clients \ {c} : ~Serves(s, d)
      /\ c \in Clients
  BY ServedFacts, MapFacts DEF MappingInv, SystemInv, Serves
<1>2. ASSUME LockConflict(s, descriptor_map[s][cd], mode)
      PROVE  Remote!LockConflict(c, cd, mode)
  <2>1. PICK t \in Sessions, g \in Fds :
          /\ <<t, g>> # <<s, descriptor_map[s][cd]>>
          /\ IsFile(t, g) /\ fdt[t][g].ino = RemoteTables[c][cd].ino
          /\ fdt[t][g].lock = "EX" \/ (mode = "EX" /\ fdt[t][g].lock = "SH")
    BY <1>1, <1>2 DEF LockConflict
  <2>2. PICK d \in Clients, h \in Fds :
          /\ Serves(t, d) /\ descriptor_map[t][h] = g
          /\ Remote!IsFile(d, h) /\ RemoteTables[d][h] = fdt[t][g]
    BY <2>1, FileSeen
  <2>3. <<d, h>> # <<c, cd>>
    BY <2>1, <2>2 DEF Serves
  <2> QED BY <2>1, <2>2, <2>3 DEF Remote!LockConflict, Remote!Fds, Fds
<1>3. ASSUME Remote!LockConflict(c, cd, mode)
      PROVE  LockConflict(s, descriptor_map[s][cd], mode)
  <2>1. PICK d \in Clients, h \in Fds :
          /\ <<d, h>> # <<c, cd>>
          /\ Remote!IsFile(d, h) /\ RemoteTables[d][h].ino = RemoteTables[c][cd].ino
          /\ \/ RemoteTables[d][h].lock = "EX"
             \/ mode = "EX" /\ RemoteTables[d][h].lock = "SH"
    BY <1>3 DEF Remote!LockConflict, Remote!Fds, Fds
  <2>2. PICK t \in Sessions :
          /\ Serves(t, d) /\ is_descriptor_in_map(t, h)
          /\ descriptor_map[t][h] \in Fds /\ IsFile(t, descriptor_map[t][h])
          /\ RemoteTables[d][h] = fdt[t][descriptor_map[t][h]]
    BY <2>1, FileBehind
  <2>3. <<t, descriptor_map[t][h]>> # <<s, descriptor_map[s][cd]>>
    BY <1>1, <2>1, <2>2
  <2> QED BY <1>1, <2>1, <2>2, <2>3 DEF LockConflict
<1> QED BY <1>2, <1>3

-----------------------------------------------------------------------------
(* The requests, one by one, as the calls they stand for.                  *)

\* A step that changes one slot of the worker and leaves the map alone changes the slot
\* of the client descriptor that stands for it.
LEMMA SlotMoves ==
    ASSUME NEW s \in Sessions, NEW c, Serves(s, c), MappingInv, WorkerMoves(s),
           MaxDescriptor <= MaxFd, NEW cd, is_descriptor_in_map(s, cd), NEW slot,
           \A g \in Fds : fdt'[s][g] = IF g = descriptor_map[s][cd] THEN slot ELSE fdt[s][g],
           UNCHANGED mapVars
    PROVE  RemoteTables' = [RemoteTables EXCEPT ![c][cd] = slot]
<1>1. /\ IInv /\ fdt \in [Sessions -> [Fds -> Slot]] /\ RemoteTables[c] = TableAt(s)
      /\ c \in Clients
  BY ServedFacts DEF MappingInv, SystemInv, IInv, ServerTypeOK, KernelTypeOK, Serves
<1>2. /\ \A g \in Fds : fdt'[s][g] = IF g = descriptor_map[s][cd] THEN slot ELSE fdt[s][g]
      /\ descriptor_map'[s] = descriptor_map[s]
  BY DEF mapVars
<1>3. TableAt(s)' = [TableAt(s) EXCEPT ![cd] = slot]
  <2>1. IInv
    BY <1>1
  <2>2. MaxDescriptor <= MaxFd /\ is_descriptor_in_map(s, cd)
    OBVIOUS
  <2> QED BY ONLY s \in Sessions, <2>1, <2>2, <1>2, SlotSeen
<1> QED BY <1>1, <1>3, ServedMoves

\* handle_request_close: the descriptor and its entry go together.
LEMMA CloseSimulated ==
    ASSUME NEW s \in Sessions, NEW c, Serves(s, c), MappingInv, WorkerMoves(s),
           MaxDescriptor <= MaxFd, handle_request_close(s)
    PROVE  Remote!Close(c)
<1>1. /\ Remote!Pending(c, "REQUEST_CLOSE") /\ Remote!Arg(c) = request[s]
      /\ wpc[s] = "handle" /\ ClientFd(s) = request[s].fd /\ IInv /\ WorkerTypeOK /\ KernelTypeOK
  BY PendingFacts, DescriptorFits, WorkerViews
     DEF handle_request_close, RequestCodes, Handles, MappingInv, SystemInv
<1>2. CASE ~is_descriptor_in_map(s, request[s].fd)
  <2>1. Remote!Fails(c, "EBADF") /\ ~Remote!Fit(c, {})
    BY <1>1, <1>2, FitSeen, FailureSeen DEF handle_request_close, AnswerEBADF
  <2> QED BY <1>1, <2>1 DEF Remote!Close
<1>3. CASE is_descriptor_in_map(s, request[s].fd)
  <2> DEFINE cd == request[s].fd
  <2>1. /\ Remote!Fit(c, {}) /\ Remote!Answers(c, 0, "0", << >>) /\ UNCHANGED RemoteUsers
    BY <1>1, <1>3, FitSeen, AnswerSeen DEF handle_request_close
  <2>2. /\ UNCHANGED <<dir, content>>
        /\ \A fd \in Fds : fdt'[s][fd] = IF fd = descriptor_map[s][cd] THEN FreeSlot
                                         ELSE fdt[s][fd]
        /\ descriptor_map'[s] = [descriptor_map[s] EXCEPT ![cd] = NoFd]
    BY <1>1, <1>3
       DEF handle_request_close, SysClose, remove_descriptor_from_map, Target,
           get_descriptor_from_map, KernelTypeOK, WorkerTypeOK
  <2>3. ASSUME NEW ce \in Fds
        PROVE  TableAt(s)'[ce] = IF ce \in {cd} THEN FreeSlot ELSE TableAt(s)[ce]
    <3>1. CASE ce = cd
      BY <1>1, <1>3, <2>2, <3>1, MapFacts
         DEF TableAt, is_descriptor_in_map, WorkerTypeOK
    <3>2. CASE ce # cd /\ is_descriptor_in_map(s, ce)
      <4>1. descriptor_map[s][ce] \in Fds /\ descriptor_map[s][ce] # descriptor_map[s][cd]
        BY <1>1, <1>3, <3>2, MapFacts
      <4>2. is_descriptor_in_map(s, ce)' /\ descriptor_map'[s][ce] = descriptor_map[s][ce]
        BY <1>1, <2>2, <3>2 DEF is_descriptor_in_map, WorkerTypeOK
      <4> QED BY <2>2, <3>2, <4>1, <4>2 DEF TableAt, get_descriptor_from_map
    <3>3. CASE ce # cd /\ ~is_descriptor_in_map(s, ce)
      <4>1. ~is_descriptor_in_map(s, ce)'
        BY <1>1, <2>2, <3>3 DEF is_descriptor_in_map, WorkerTypeOK
      <4> QED BY <3>3, <4>1 DEF TableAt
    <3> QED BY <3>1, <3>2, <3>3
  <2>4. TableAt(s)' = [ce \in Fds |-> IF ce \in {cd} THEN FreeSlot ELSE TableAt(s)[ce]]
    <3>1. TableAt(s)' = [ce \in Fds |-> TableAt(s)'[ce]]
      BY DEF TableAt
    <3> QED BY <2>3, <3>1
  <2>5. Remote!SysClose(c, {cd})
    BY <2>1, <2>2, <2>4, ServedMoves, ServedFacts
       DEF Remote!SysClose, Remote!Fds, Fds, Remote!FreeSlot, FreeSlot, Remote!EmptySlot,
           EmptySlot, Remote!NoInode, NoInode, Remote!NoPath, NoPath, Serves
  <2> QED BY <1>1, <2>1, <2>5 DEF Remote!Close
<1> QED BY <1>2, <1>3

\* handle_request_read: the bytes from the position of that very descriptor on.
LEMMA ReadSimulated ==
    ASSUME NEW s \in Sessions, NEW c, Serves(s, c), MappingInv, WorkerMoves(s),
           MaxDescriptor <= MaxFd, handle_request_read(s), Readable(s)
    PROVE  Remote!Read(c)
<1> DEFINE cd == request[s].fd
           data == ReadData(s, Target(s), request[s].size)
<1>1. /\ Remote!Pending(c, "REQUEST_READ") /\ Remote!Arg(c) = request[s]
      /\ wpc[s] = "handle" /\ ClientFd(s) = request[s].fd /\ IInv /\ KernelTypeOK
  BY PendingFacts, DescriptorFits, WorkerViews
     DEF handle_request_read, RequestCodes, Handles, MappingInv, SystemInv
<1>2. /\ is_descriptor_in_map(s, cd) /\ Target(s) = descriptor_map[s][cd]
      /\ RemoteTables[c][cd] = fdt[s][Target(s)] /\ Remote!Fit(c, {"RD"})
      /\ Target(s) \in Fds
  BY <1>1, FitSeen DEF Readable
<1>3. SysRead(s, Target(s), request[s].size) /\ Answer(s, Len(data), "0", data)
      /\ UNCHANGED mapVars
  BY DEF handle_request_read
<1>4. Remote!ReadData(c, cd, request[s].size) = data
  BY <1>2 DEF Remote!ReadData, ReadData, Remote!Minimum, Minimum
<1>5. Remote!Answers(c, Len(data), "0", data) /\ UNCHANGED RemoteUsers
  <2>1. Remote!Answers(c, Len(data), IF Len(data) < 0 THEN "0" ELSE "0", data)
        /\ UNCHANGED RemoteUsers
    BY <1>1, <1>3, AnswerSeen, SMTT(20)
  <2> QED BY <2>1
<1>6. RemoteTables' = [RemoteTables EXCEPT ![c][cd] =
                          [RemoteTables[c][cd] EXCEPT !.pos = @ + Len(data)]]
  <2>1. PICK slot : slot = [fdt[s][Target(s)] EXCEPT !.pos = @ + Len(data)]
    OBVIOUS
  <2>2. \A g \in Fds : fdt'[s][g] = IF g = descriptor_map[s][cd] THEN slot ELSE fdt[s][g]
    BY <1>1, <1>2, <1>3, <2>1 DEF SysRead, KernelTypeOK
  <2>3. RemoteTables' = [RemoteTables EXCEPT ![c][cd] = slot]
    BY <1>2, <1>3, <2>2, SlotMoves
  <2> QED BY <1>2, <2>1, <2>3
<1>7. Remote!SysRead(c, cd, request[s].size)
  BY <1>3, <1>4, <1>5, <1>6 DEF Remote!SysRead, SysRead
<1> QED BY <1>1, <1>2, <1>4, <1>5, <1>7 DEF Remote!Read

\* handle_request_write: the bytes that fit, at the position of the descriptor.
LEMMA WriteSimulated ==
    ASSUME NEW s \in Sessions, NEW c, Serves(s, c), MappingInv, WorkerMoves(s),
           MaxDescriptor <= MaxFd, handle_request_write(s)
    PROVE  Remote!Write(c)
<1> DEFINE cd == request[s].fd
           data == request[s].data
           n == WriteCount(s, Target(s), data)
           i == fdt[s][Target(s)].ino
<1>1. /\ Remote!Pending(c, "REQUEST_WRITE") /\ Remote!Arg(c) = request[s]
      /\ wpc[s] = "handle" /\ ClientFd(s) = request[s].fd /\ IInv /\ KernelTypeOK /\ data \in Seq(Nat)
  BY PendingFacts, DescriptorFits, WorkerViews, HandlerFacts, MessageFields
     DEF handle_request_write, RequestCodes, Handles, MappingInv, SystemInv
<1>2. CASE ~Usable(s, {"WR"})
  <2>1. Remote!Fails(c, "EBADF") /\ ~Remote!Fit(c, {"WR"})
    BY <1>1, <1>2, FitSeen, FailureSeen DEF handle_request_write, AnswerEBADF
  <2> QED BY <1>1, <2>1 DEF Remote!Write
<1>3. CASE Usable(s, {"WR"})
  <2>1. /\ is_descriptor_in_map(s, cd) /\ Target(s) = descriptor_map[s][cd]
        /\ RemoteTables[c][cd] = fdt[s][Target(s)] /\ Remote!Fit(c, {"WR"})
        /\ Target(s) \in Fds /\ i \in Inodes
    BY <1>1, <1>3, FitSeen, TargetType
  <2>2. Remote!WritePos(c, cd) = WritePos(s, Target(s))
    BY <2>1 DEF Remote!WritePos, WritePos
  <2>3. Remote!WriteCount(c, cd, data) = n
    BY <2>2 DEF Remote!WriteCount, WriteCount, Remote!Minimum, Minimum
  <2>4. CASE n = 0 /\ data # << >>
    <3>1. Remote!Fails(c, "EFBIG")
      BY <1>1, <1>3, <2>4, FailureSeen DEF handle_request_write
    <3> QED BY <1>1, <2>1, <2>3, <2>4, <3>1 DEF Remote!Write
  <2>5. CASE ~(n = 0 /\ data # << >>)
    <3>1. SysWrite(s, Target(s), data) /\ Answer(s, n, "0", << >>) /\ UNCHANGED mapVars
      BY <1>3, <2>5 DEF handle_request_write
    <3>2. n \in 0..Len(data)
      BY <1>1, <2>1, <3>1, SysWriteType
    <3>3. Remote!Answers(c, n, "0", << >>) /\ UNCHANGED RemoteUsers
      <4>1. Remote!Answers(c, n, IF n < 0 THEN "0" ELSE "0", << >>) /\ UNCHANGED RemoteUsers
        BY <1>1, <3>1, AnswerSeen
      <4> QED BY <4>1
    <3>4. Remote!SysWrite(c, cd, data)
      <4>1. CASE n = 0
        <5>1. UNCHANGED <<dir, content, RemoteTables>>
          BY <3>1, <4>1, TableStays, ServedMoves, SMTT(20) DEF SysWrite, mapVars
        <5> QED BY <2>3, <3>3, <4>1, <5>1 DEF Remote!SysWrite
      <4>2. CASE n # 0
        <5>1. PICK slot : slot = [fdt[s][Target(s)] EXCEPT !.pos = WritePos(s, Target(s)) + n]
          OBVIOUS
        <5>2. /\ content' = [content EXCEPT ![i] =
                    Overwrite(@, WritePos(s, Target(s)), SubSeq(data, 1, n))]
              /\ fdt' = [fdt EXCEPT ![s][Target(s)].pos = WritePos(s, Target(s)) + n]
              /\ UNCHANGED dir
          BY <3>1, <4>2 DEF SysWrite
        <5>3. \A g \in Fds : fdt'[s][g] = IF g = descriptor_map[s][cd] THEN slot
                                          ELSE fdt[s][g]
          BY <1>1, <2>1, <5>1, <5>2 DEF KernelTypeOK
        <5>4. RemoteTables' = [RemoteTables EXCEPT ![c][cd] = slot]
          BY <2>1, <3>1, <5>3, SlotMoves, SMTT(20)
        <5>5. RemoteTables' = [RemoteTables EXCEPT ![c][cd] =
                 [RemoteTables[c][cd] EXCEPT !.pos = Remote!WritePos(c, cd) + n]]
          BY <2>1, <2>2, <5>1, <5>4
        <5>6. content' = [content EXCEPT ![i] =
                 Remote!Overwrite(@, Remote!WritePos(c, cd), SubSeq(data, 1, n))]
          BY <2>2, <5>2 DEF Remote!Overwrite, Overwrite
        <5> QED BY <2>1, <2>3, <3>3, <4>2, <5>2, <5>5, <5>6 DEF Remote!SysWrite
      <4> QED BY <4>1, <4>2
    <3>5. n > 0 \/ data = << >>
      BY <2>5, <3>2, LenProperties, <1>1
    <3> QED BY <1>1, <2>1, <2>3, <3>3, <3>4, <3>5 DEF Remote!Write
  <2> QED BY <2>4, <2>5
<1> QED BY <1>2, <1>3

\* handle_request_lseek: to that very position, as long as an int can hold it.
LEMMA LseekSimulated ==
    ASSUME NEW s \in Sessions, NEW c, Serves(s, c), MappingInv, WorkerMoves(s),
           MaxDescriptor <= MaxFd, MaxOffset <= IntMax, handle_request_lseek(s)
    PROVE  Remote!Lseek(c)
<1> DEFINE cd == request[s].fd
           pos == SeekTarget(s, Target(s), request[s].offset, request[s].whence)
<1>1. /\ Remote!Pending(c, "REQUEST_LSEEK") /\ Remote!Arg(c) = request[s]
      /\ wpc[s] = "handle" /\ ClientFd(s) = request[s].fd /\ IInv /\ KernelTypeOK
  BY PendingFacts, DescriptorFits, WorkerViews
     DEF handle_request_lseek, RequestCodes, Handles, MappingInv, SystemInv
<1>2. CASE ~Usable(s, {})
  <2>1. Remote!Fails(c, "EBADF") /\ ~Remote!Fit(c, {})
    BY <1>1, <1>2, FitSeen, FailureSeen DEF handle_request_lseek, AnswerEBADF
  <2> QED BY <1>1, <2>1 DEF Remote!Lseek
<1>3. CASE Usable(s, {})
  <2>1. /\ is_descriptor_in_map(s, cd) /\ Target(s) = descriptor_map[s][cd]
        /\ RemoteTables[c][cd] = fdt[s][Target(s)] /\ Remote!Fit(c, {})
        /\ Target(s) \in Fds
    BY <1>1, <1>3, FitSeen
  <2>2. Remote!Target(c) = pos
    BY <1>1, <2>1 DEF Remote!Target, Remote!SeekTarget, SeekTarget
  <2>3. CASE pos \notin 0..MaxOffset
    <3>1. Remote!Fails(c, "EINVAL")
      BY <1>1, <1>3, <2>3, FailureSeen DEF handle_request_lseek
    <3> QED BY <1>1, <2>1, <2>2, <2>3, <3>1 DEF Remote!Lseek
  <2>4. CASE pos \in 0..MaxOffset
    <3>1. PICK p : p = pos
      OBVIOUS
    <3>2. p \in Nat /\ p <= IntMax /\ ~(p < 0)
      BY <2>4, <3>1, KernelAssumption, MessagesAssumption
    <3>3. ToInt(p) = p
      BY <3>2, ToIntFits
    <3>4. /\ SysLseek(s, Target(s), p) /\ UNCHANGED mapVars
          /\ Answer(s, p, IF p = 0 THEN "0" ELSE "stale", << >>)
      BY <1>3, <2>4, <3>1, <3>3 DEF handle_request_lseek
    <3>5. Remote!Answers(c, p, "0", << >>) /\ UNCHANGED RemoteUsers
      <4>1. \A e : Answer(s, p, e, << >>) =>
                /\ Remote!Answers(c, p, IF p < 0 THEN e ELSE "0", << >>)
                /\ UNCHANGED RemoteUsers
        BY <1>1, AnswerSeen
      <4> QED BY <3>2, <3>4, <4>1
    <3>6. PICK slot : slot = [fdt[s][Target(s)] EXCEPT !.pos = p]
      OBVIOUS
    <3>7. \A g \in Fds : fdt'[s][g] = IF g = descriptor_map[s][cd] THEN slot ELSE fdt[s][g]
      BY <1>1, <2>1, <3>4, <3>6 DEF SysLseek, KernelTypeOK
    <3>8. RemoteTables' = [RemoteTables EXCEPT ![c][cd] = slot]
      BY <2>1, <3>4, <3>7, SlotMoves, SMTT(20)
    <3>9. RemoteTables' = [RemoteTables EXCEPT ![c][cd] =
             [RemoteTables[c][cd] EXCEPT !.pos = p]]
      BY <2>1, <3>6, <3>8
    <3>10. Remote!SysLseek(c, cd, p)
      BY <3>4, <3>5, <3>9 DEF Remote!SysLseek, SysLseek
    <3> QED BY <1>1, <2>1, <2>2, <2>4, <3>1, <3>5, <3>10 DEF Remote!Lseek
  <2> QED BY <2>3, <2>4
<1> QED BY <1>2, <1>3

\* handle_request_fstat: the file behind the descriptor, and its size.
LEMMA FstatSimulated ==
    ASSUME NEW s \in Sessions, NEW c, Serves(s, c), MappingInv, WorkerMoves(s),
           MaxDescriptor <= MaxFd, handle_request_fstat(s)
    PROVE  Remote!Fstat(c)
<1> DEFINE i == fdt[s][Target(s)].ino
<1>1. /\ Remote!Pending(c, "REQUEST_FSTAT") /\ Remote!Arg(c) = request[s]
      /\ wpc[s] = "handle" /\ ClientFd(s) = request[s].fd
  BY PendingFacts, DescriptorFits DEF handle_request_fstat, RequestCodes, Handles
<1>2. CASE ~Usable(s, {})
  <2>1. Remote!Fails(c, "EBADF") /\ ~Remote!Fit(c, {})
    BY <1>1, <1>2, FitSeen, FailureSeen DEF handle_request_fstat, AnswerEBADF
  <2> QED BY <1>1, <2>1 DEF Remote!Fstat
<1>3. CASE Usable(s, {})
  <2>1. RemoteTables[c][request[s].fd] = fdt[s][Target(s)] /\ Remote!Fit(c, {})
    BY <1>1, <1>3, FitSeen
  <2>2. /\ Remote!Answers(c, 0, "0", <<i, Len(content[i])>>)
        /\ UNCHANGED <<RemoteUsers, kernelVars, mapVars>>
    BY <1>1, <1>3, AnswerSeen DEF handle_request_fstat
  <2>3. UNCHANGED <<dir, content, RemoteTables>>
    BY <2>2, TableStays, ServedMoves DEF kernelVars, mapVars
  <2> QED BY <1>1, <2>1, <2>2, <2>3 DEF Remote!Fstat, Remote!kernelVars
<1> QED BY <1>2, <1>3

\* handle_request_unlink: the name goes, as far as the user may remove it.
LEMMA UnlinkSimulated ==
    ASSUME NEW s \in Sessions, NEW c, Serves(s, c), MappingInv, WorkerMoves(s),
           handle_request_unlink(s)
    PROVE  Remote!Unlink(c)
<1> DEFINE path == get_path_in_filesystem(s, request[s].path)
<1>1. /\ Remote!Pending(c, "REQUEST_UNLINK") /\ Remote!Arg(c) = request[s]
      /\ wpc[s] = "handle" /\ Handles(s, "REQUEST_UNLINK") /\ request[s] \in Calls
      /\ RemoteUsers[c] = euid[s] /\ RemoteRoots[c] = filesystem_prefix[s]
  BY PendingFacts DEF handle_request_unlink, RequestCodes, Handles
<1>2. Remote!Where(c) = path
  BY <1>1 DEF Remote!Where, get_path_in_filesystem, Remote!Resolved, Resolved
<1>3. Terminated(request[s].path)
  BY <1>1, ConnectionAssumption, MessagesAssumption DEF Terminated, Handles
<1>4. Remote!UnlinkErrors(c, path) = UnlinkErrors(s, path)
  BY <1>1 DEF Remote!UnlinkErrors, UnlinkErrors, Remote!May, May, Remote!Errnos, Errnos,
              Remote!NoInode, NoInode
<1>5. CASE \E e \in UnlinkErrors(s, path) : Answer(s, -1, e, << >>) /\ UNCHANGED <<kernelVars, mapVars>>
  <2>1. PICK e \in UnlinkErrors(s, path) :
           Answer(s, -1, e, << >>) /\ UNCHANGED <<kernelVars, mapVars>>
    BY <1>5
  <2>2. Remote!Fails(c, e)
    BY <1>1, <2>1, FailureSeen
  <2> QED BY <1>1, <1>2, <1>4, <2>2 DEF Remote!Unlink
<1>6. CASE /\ UnlinkErrors(s, path) = {} /\ SysUnlink(s, path) /\ Answer(s, 0, "0", << >>)
           /\ UNCHANGED mapVars
  <2>1. Remote!Answers(c, 0, "0", << >>) /\ UNCHANGED RemoteUsers
    BY <1>1, <1>6, AnswerSeen
  <2>2. UNCHANGED RemoteTables
    BY <1>6, TableStays, ServedMoves DEF SysUnlink, mapVars
  <2>3. Remote!SysUnlink(c, path)
    BY <1>6, <2>1, <2>2 DEF Remote!SysUnlink, SysUnlink, Remote!NoInode, NoInode
  <2> QED BY <1>1, <1>2, <1>4, <1>6, <2>1, <2>3 DEF Remote!Unlink
<1> QED BY <1>3, <1>5, <1>6 DEF handle_request_unlink

\* The entry of a new file is a descriptor that the client did not have.
LEMMA EntrySeen ==
    ASSUME NEW s \in Sessions, IInv, MaxDescriptor <= MaxFd, NEW fd \in Fds,
           IsFree(s, fd), NEW slot, next_descriptor[s] \in Descriptors,
           \A g \in Fds : fdt'[s][g] = IF g = fd THEN slot ELSE fdt[s][g],
           add_descriptor_to_map(s, fd)
    PROVE  /\ next_descriptor[s] \in Fds \ {0}
           /\ TableAt(s)[next_descriptor[s]] = FreeSlot
           /\ TableAt(s)' = [TableAt(s) EXCEPT ![next_descriptor[s]] = slot]
<1>1. PICK cd : cd = next_descriptor[s]
  OBVIOUS
<1>2. /\ WorkerTypeOK /\ cd \in Descriptors /\ cd \in Fds \ {0} /\ cd \in Nat
      /\ ~is_descriptor_in_map(s, cd) /\ fd # NoFd
  <2>1. WorkerTypeOK /\ cd \in Descriptors /\ MapAt(s)
    BY <1>1 DEF IInv, ServerTypeOK, SessionInv
  <2>2. cd \in Fds \ {0} /\ cd \in Nat /\ fd # NoFd
    BY <2>1, KernelAssumption, WorkerAssumption DEF Descriptors, Fds, NoFd
  <2>3. cd \notin Mapped(s)
    BY <1>1, <2>1, <2>2 DEF MapAt
  <2> QED BY <2>1, <2>2, <2>3 DEF Mapped, is_descriptor_in_map
<1>3. descriptor_map'[s] = [descriptor_map[s] EXCEPT ![cd] = fd]
  BY <1>1, <1>2 DEF add_descriptor_to_map, WorkerTypeOK
<1>4. ASSUME NEW ce \in Fds
      PROVE  TableAt(s)'[ce] = IF ce = cd THEN slot ELSE TableAt(s)[ce]
  <2>1. CASE ce = cd
    <3>1. is_descriptor_in_map(s, ce)' /\ descriptor_map'[s][ce] = fd
      BY <1>2, <1>3, <2>1 DEF is_descriptor_in_map, WorkerTypeOK
    <3> QED BY <2>1, <3>1 DEF TableAt, get_descriptor_from_map
  <2>2. CASE ce # cd /\ is_descriptor_in_map(s, ce)
    <3>1. /\ descriptor_map[s][ce] \in Fds /\ descriptor_map[s][ce] # fd
          /\ TableAt(s)[ce] = fdt[s][descriptor_map[s][ce]]
      BY <2>2, MapFacts DEF IsFile, IsFree
    <3>2. is_descriptor_in_map(s, ce)' /\ descriptor_map'[s][ce] = descriptor_map[s][ce]
      BY <1>2, <1>3, <2>2 DEF is_descriptor_in_map, WorkerTypeOK
    <3> QED BY <2>2, <3>1, <3>2 DEF TableAt, get_descriptor_from_map
  <2>3. CASE ce # cd /\ ~is_descriptor_in_map(s, ce)
    <3>1. ~is_descriptor_in_map(s, ce)'
      BY <1>2, <1>3, <2>3 DEF is_descriptor_in_map, WorkerTypeOK
    <3> QED BY <2>3, <3>1 DEF TableAt
  <2> QED BY <2>1, <2>2, <2>3
<1>5. TableAt(s)[cd] = FreeSlot
  BY <1>2 DEF TableAt
<1>6. TableAt(s)' = [TableAt(s) EXCEPT ![cd] = slot]
  <2>1. TableAt(s)' = [ce \in Fds |-> TableAt(s)'[ce]]
    BY DEF TableAt
  <2>2. TableAt(s) = [ce \in Fds |-> TableAt(s)[ce]]
    BY DEF TableAt
  <2> QED BY <1>4, <2>1, <2>2
<1> QED BY <1>1, <1>2, <1>5, <1>6

\* handle_request_open: the errors are those of the user on the path in the
\* directory of the session, but for the limits, of which a client is told only.
LEMMA OpenErrorsSeen ==
    ASSUME NEW s \in Sessions, NEW c, Serves(s, c), MappingInv, LeakInv,
           MaxDescriptor <= MaxFd, RemoteUsers[c] = euid[s], NEW path, NEW flags
    PROVE  /\ \A e \in OpenErrors(s, path, flags) :
                 e = "EMFILE" \/ e \in Remote!OpenErrors(c, path, flags)
           /\ OpenErrors(s, path, flags) = {} => Remote!OpenErrors(c, path, flags) = {}
<1>1. \A i : InodeInUse(i) <=> Remote!InodeInUse(i)
  BY InodeSeen
<1>2. \A r : May(s, path, r) <=> Remote!May(c, path, r)
  BY DEF May, Remote!May
<1>3. Remote!IsFree(c, 0) /\ 0 \in Remote!Fds
  <2>1. 0 \in Fds /\ ~is_descriptor_in_map(s, 0)
    BY KernelAssumption DEF Fds, is_descriptor_in_map, Descriptors
  <2>2. TableAt(s)[0] = FreeSlot /\ RemoteTables[c] = TableAt(s)
    BY <2>1, ServedFacts DEF TableAt
  <2> QED BY <2>1, <2>2 DEF Remote!IsFree, FreeSlot, EmptySlot, Remote!Fds, Fds
<1>4. ~(\A fd \in Remote!Fds : ~Remote!IsFree(c, fd))
  BY <1>3
<1> QED BY <1>1, <1>2, <1>4
        DEF OpenErrors, Remote!OpenErrors, Errnos, Remote!Errnos, NoInode, Remote!NoInode

\* handle_request_open: it fails as the user's own open would, or enters the file under
\* the next client descriptor, which is free there.
LEMMA OpenSimulated ==
    ASSUME NEW s \in Sessions, NEW c, Serves(s, c), MappingInv, LeakInv, WorkerMoves(s),
           MaxDescriptor <= MaxFd, handle_request_open(s)
    PROVE  Remote!Open(c)
<1> DEFINE path  == get_path_in_filesystem(s, request[s].path)
           flags == request[s].oflag
           full  == next_descriptor[s] \notin Descriptors
<1>1. /\ Remote!Pending(c, "REQUEST_OPEN") /\ Remote!Arg(c) = request[s]
      /\ wpc[s] = "handle" /\ Handles(s, "REQUEST_OPEN") /\ request[s] \in Calls
      /\ RemoteUsers[c] = euid[s] /\ RemoteRoots[c] = filesystem_prefix[s]
      /\ IInv /\ KernelTypeOK
  BY PendingFacts, WorkerViews
     DEF handle_request_open, RequestCodes, Handles, MappingInv, SystemInv
<1>2. Remote!Where(c) = path
  BY <1>1 DEF Remote!Where, get_path_in_filesystem, Remote!Resolved, Resolved
<1>3. Terminated(request[s].path)
  BY <1>1, ConnectionAssumption, MessagesAssumption DEF Terminated, Handles
<1>4. /\ \A e \in OpenErrors(s, path, flags) :
            e = "EMFILE" \/ e \in Remote!OpenErrors(c, path, flags)
      /\ OpenErrors(s, path, flags) = {} => Remote!OpenErrors(c, path, flags) = {}
  BY <1>1, OpenErrorsSeen
<1>5. CASE \E e \in OpenErrors(s, path, flags) \cup {"ENFILE"} :
              Answer(s, -1, e, << >>) /\ UNCHANGED <<kernelVars, mapVars>>
  <2>1. PICK e \in OpenErrors(s, path, flags) \cup {"ENFILE"} :
           Answer(s, -1, e, << >>) /\ UNCHANGED <<kernelVars, mapVars>>
    BY <1>5
  <2>2. Remote!Fails(c, e)
    BY <1>1, <2>1, FailureSeen
  <2> QED BY <1>1, <1>2, <1>4, <2>1, <2>2 DEF Remote!Open
<1>6. ASSUME ~full, NEW fd \in Fds, SysOpen(s, path, flags, fd),
             IF fd > 0 THEN /\ add_descriptor_to_map(s, fd)
                            /\ Answer(s, next_descriptor[s], "0", << >>)
                       ELSE UNCHANGED mapVars /\ Answer(s, fd, "stale", << >>)
      PROVE  Remote!Open(c)
  <2>1. IsFree(s, fd) /\ OpenErrors(s, path, flags) = {} /\ OpenAt(s, path, flags, fd)
    BY <1>6 DEF SysOpen, LowestFree
  <2>2. fd > 0
    <3>1. fdt[s][0].kind = "inherited"
      BY <1>1 DEF LeakInv, InputAt
    <3>2. fd # 0
      BY <2>1, <3>1 DEF IsFree
    <3> QED BY <3>2, KernelAssumption DEF Fds
  <2>3. PICK cd : cd = next_descriptor[s]
    OBVIOUS
  <2>4. add_descriptor_to_map(s, fd) /\ Answer(s, cd, "0", << >>)
    BY <1>6, <2>2, <2>3
  <2>5. PICK i \in Inodes :
          /\ IF dir[path] = NoInode THEN ~InodeInUse(i) ELSE i = dir[path]
          /\ dir' = [dir EXCEPT ![path] = i]
          /\ content' = IF dir[path] = NoInode \/ "TRUNC" \in flags
                        THEN [content EXCEPT ![i] = << >>] ELSE content
          /\ fdt' = [fdt EXCEPT ![s][fd] =
                        [kind |-> "file", ino |-> i, path |-> path,
                         rights |-> flags \cap {"RD", "WR"},
                         append |-> "APPEND" \in flags, pos |-> 0, lock |-> "UN"]]
    BY <2>1 DEF OpenAt
  <2>6. PICK slot : slot = [kind |-> "file", ino |-> i, path |-> path,
                            rights |-> flags \cap {"RD", "WR"},
                            append |-> "APPEND" \in flags, pos |-> 0, lock |-> "UN"]
    OBVIOUS
  <2>7. \A g \in Fds : fdt'[s][g] = IF g = fd THEN slot ELSE fdt[s][g]
    BY <1>1, <2>5, <2>6 DEF KernelTypeOK
  <2>8. /\ cd \in Fds \ {0} /\ TableAt(s)[cd] = FreeSlot
        /\ TableAt(s)' = [TableAt(s) EXCEPT ![cd] = slot]
    BY <1>1, <1>6, <2>1, <2>3, <2>4, <2>7, EntrySeen
  <2>9. /\ RemoteTables' = [RemoteTables EXCEPT ![c][cd] = slot] /\ Remote!IsFree(c, cd)
    BY <2>8, ServedMoves, ServedFacts DEF Remote!IsFree, FreeSlot, EmptySlot, Serves
  <2>10. Remote!Answers(c, cd, "0", << >>) /\ UNCHANGED RemoteUsers
    <3>1. Remote!Answers(c, cd, IF cd < 0 THEN "0" ELSE "0", << >>) /\ UNCHANGED RemoteUsers
      BY <1>1, <2>4, AnswerSeen
    <3> QED BY <3>1
  <2>11. InodeInUse(i) <=> Remote!InodeInUse(i)
    BY InodeSeen
  <2>12. Remote!OpenAt(c, path, flags, cd)
    BY <2>5, <2>6, <2>9, <2>10, <2>11
       DEF Remote!OpenAt, NoInode, Remote!NoInode
  <2>13. Remote!OpenErrors(c, path, flags) = {}
    BY <1>4, <2>1
  <2>14. cd \in Remote!Fds \ {0}
    BY <2>8 DEF Remote!Fds, Fds
  <2> QED BY <1>1, <1>2, <2>9, <2>10, <2>12, <2>13, <2>14 DEF Remote!Open
<1> QED BY <1>3, <1>5, <1>6 DEF handle_request_open

\* handle_request_flock: nothing to wait for, or the lock that is held is given up.
LEMMA FlockSimulated ==
    ASSUME NEW s \in Sessions, NEW c, Serves(s, c), MappingInv, WorkerMoves(s),
           MaxDescriptor <= MaxFd, handle_request_flock(s)
    PROVE  Remote!Flock(c)
<1> DEFINE cd == request[s].fd
           mode == request[s].operation
<1>1. /\ Remote!Pending(c, "REQUEST_FLOCK") /\ Remote!Arg(c) = request[s]
      /\ wpc[s] = "handle" /\ ClientFd(s) = request[s].fd /\ IInv /\ KernelTypeOK /\ WorkerTypeOK
  BY PendingFacts, DescriptorFits, WorkerViews
     DEF handle_request_flock, RequestCodes, Handles, MappingInv, SystemInv
<1>2. CASE ~Usable(s, {})
  <2>1. Remote!Fails(c, "EBADF") /\ ~Remote!Fit(c, {})
    BY <1>1, <1>2, FitSeen, FailureSeen DEF handle_request_flock, AnswerEBADF
  <2> QED BY <1>1, <2>1 DEF Remote!Flock
<1>3. CASE Usable(s, {})
  <2>1. /\ is_descriptor_in_map(s, cd) /\ Target(s) = descriptor_map[s][cd]
        /\ RemoteTables[c][cd] = fdt[s][Target(s)] /\ Remote!Fit(c, {})
        /\ Target(s) \in Fds
    BY <1>1, <1>3, FitSeen, SMTT(20)
  <2>2. ASSUME NEW m, SetLock(s, Target(s), m), UNCHANGED mapVars
        PROVE  RemoteTables' = [RemoteTables EXCEPT ![c][cd] =
                                   [RemoteTables[c][cd] EXCEPT !.lock = m]]
               /\ UNCHANGED <<dir, content>>
    <3>1. PICK slot : slot = [fdt[s][Target(s)] EXCEPT !.lock = m]
      OBVIOUS
    <3>2. \A g \in Fds : fdt'[s][g] = IF g = descriptor_map[s][cd] THEN slot ELSE fdt[s][g]
      BY <1>1, <2>1, <2>2, <3>1 DEF SetLock, KernelTypeOK
    <3>3. RemoteTables' = [RemoteTables EXCEPT ![c][cd] = slot]
      BY <2>1, <2>2, <3>2, SlotMoves, SMTT(20)
    <3> QED BY <2>1, <2>2, <3>1, <3>3 DEF SetLock
  <2>3. CASE /\ mode \in {fdt[s][Target(s)].lock, "UN"} /\ SetLock(s, Target(s), mode)
             /\ Answer(s, 0, "0", << >>) /\ UNCHANGED mapVars
    <3>1. Remote!Answers(c, 0, "0", << >>) /\ UNCHANGED RemoteUsers
      BY <1>1, <2>3, AnswerSeen
    <3>2. Remote!SetLock(c, cd, mode)
      BY <2>2, <2>3, <3>1, SMTT(20) DEF Remote!SetLock
    <3> QED BY <1>1, <2>1, <2>3, <3>1, <3>2 DEF Remote!Flock
  <2>4. CASE /\ mode \notin {fdt[s][Target(s)].lock, "UN"} /\ SetLock(s, Target(s), "UN")
             /\ Goto(s, "flock") /\ UNCHANGED <<messageVars, mapVars>>
    <3>1. wpc'[s] = "flock" /\ request'[s] = request[s]
      BY <1>1, <2>4 DEF Goto, messageVars, WorkerTypeOK
    <3>2. JobAt(s)' = Remote!At("locking", request[s]) /\ SessionAt(s)' = SessionAt(s)
          /\ wpc'[s] \notin Ended
      BY <1>1, <3>1 DEF JobAt, Submitted, Remote!At, SessionAt, Ended
    <3>3. /\ RemoteJobs' = [RemoteJobs EXCEPT ![c] = Remote!At("locking", request[s])]
          /\ UNCHANGED <<RemoteSessions, RemoteUsers, RemoteRoots, RemoteCalls,
                         RemoteReturns, m_errno, RemoteEnds>>
      BY <3>2, ServedMoves, WorkerViews
    <3>4. Remote!SetLock(c, cd, "UN")
      BY <2>2, <2>4, <3>3 DEF Remote!SetLock
    <3> QED BY <1>1, <2>1, <2>4, <3>3, <3>4 DEF Remote!Flock
  <2> QED BY <1>3, <2>3, <2>4 DEF handle_request_flock
<1> QED BY <1>2, <1>3

\* flock_ends: the lock is there once no other client is in the way.
LEMMA FlockEndsSimulated ==
    ASSUME NEW s \in Sessions, NEW c, Serves(s, c), MappingInv, LeakInv, WorkerMoves(s),
           MaxDescriptor <= MaxFd, flock_ends(s)
    PROVE  Remote!FlockEnds(c)
<1> DEFINE cd == request[s].fd
           mode == request[s].operation
<1>1. /\ wpc[s] = "flock" /\ IInv /\ KernelTypeOK /\ Usable(s, {})
      /\ request[s].code = "REQUEST_FLOCK"
  BY WorkerViews DEF flock_ends, MappingInv, SystemInv, SessionInv, MessagesAt
<1>2. /\ RemoteSessions[c] = "on" /\ RemoteJobs[c] = Remote!At("locking", request[s])
      /\ Remote!Arg(c) = request[s] /\ ClientFd(s) = request[s].fd
  <2>1. JobAt(s) = Remote!At("locking", request[s])
    BY <1>1 DEF JobAt, Submitted, Remote!At
  <2>2. RemoteSessions[c] = "on" /\ RemoteJobs[c] = Remote!At("locking", request[s])
    BY <1>1, <2>1, ServedFacts DEF SessionAt, Ended
  <2>3. ClientFd(s) = request[s].fd
    BY <1>1, DescriptorFits DEF RequestCodes
  <2> QED BY <2>2, <2>3 DEF Remote!Arg, Remote!At
<1>3. /\ is_descriptor_in_map(s, cd) /\ Target(s) = descriptor_map[s][cd]
      /\ RemoteTables[c][cd] = fdt[s][Target(s)] /\ Target(s) \in Fds
  BY <1>1, <1>2, FitSeen
<1>4. LockConflict(s, Target(s), mode) <=> Remote!LockConflict(c, cd, mode)
  BY <1>3, ConflictSeen
<1>5. CASE /\ LockConflict(s, Target(s), mode) /\ request[s].nb
           /\ Answer(s, -1, "EWOULDBLOCK", << >>) /\ UNCHANGED <<kernelVars, mapVars>>
  <2>1. Remote!Fails(c, "EWOULDBLOCK")
    BY <1>1, <1>5, FailureSeen
  <2> QED BY <1>2, <1>4, <1>5, <2>1 DEF Remote!FlockEnds, Remote!At
<1>6. CASE /\ ~LockConflict(s, Target(s), mode) /\ SetLock(s, Target(s), mode)
           /\ Answer(s, 0, "0", << >>) /\ UNCHANGED mapVars
  <2>1. Remote!Answers(c, 0, "0", << >>) /\ UNCHANGED RemoteUsers
    BY <1>1, <1>6, AnswerSeen
  <2>2. PICK slot : slot = [fdt[s][Target(s)] EXCEPT !.lock = mode]
    OBVIOUS
  <2>3. \A g \in Fds : fdt'[s][g] = IF g = descriptor_map[s][cd] THEN slot ELSE fdt[s][g]
    BY <1>1, <1>3, <1>6, <2>2 DEF SetLock, KernelTypeOK
  <2>4. RemoteTables' = [RemoteTables EXCEPT ![c][cd] = slot]
    BY <1>3, <1>6, <2>3, SlotMoves, SMTT(20)
  <2>5. RemoteTables' = [RemoteTables EXCEPT ![c][cd] =
                            [RemoteTables[c][cd] EXCEPT !.lock = mode]]
    BY <1>3, <2>2, <2>4
  <2>6. Remote!SetLock(c, cd, mode)
    BY <1>6, <2>1, <2>5 DEF Remote!SetLock, SetLock
  <2> QED BY <1>2, <1>4, <1>6, <2>1, <2>6 DEF Remote!FlockEnds, Remote!At
<1> QED BY <1>5, <1>6 DEF flock_ends

-----------------------------------------------------------------------------
(* The other steps of a worker that serves, or has served, a client.       *)

\* A step that changes neither files nor what is seen of the session.
LEMMA NothingSeen ==
    ASSUME NEW s \in Sessions, NEW c, Serves(s, c), MappingInv, WorkerMoves(s),
           UNCHANGED <<dir, content>>, TableAt(s)' = TableAt(s),
           SessionAt(s)' = SessionAt(s),
           (IF wpc'[s] \in Ended THEN NoJob ELSE JobAt(s)') = RemoteJobs[c]
    PROVE  UNCHANGED Remote!remoteVars
BY ServedMoves, WorkerViews DEF Remote!remoteVars, Remote!kernelVars, Remote!apiVars

\* A client whose end of the connection is closed has left (~NFSConnection).
LEMMA ClosedHasLeft ==
    ASSUME NEW s \in Sessions, NEW c, Serves(s, c), MappingInv, cend[s] # "open"
    PROVE  HasLeft(c)
<1>1. /\ c \in Clients /\ m_sockfd[c] = s /\ s # NoSock /\ cpc[c] \notin Living
      /\ cpc[c] \in ClientStages
  BY ConnectionAssumption DEF Serves, MappingInv, SystemInv, ClientsInv, ClientInv, SocketOf,
                              ConnectionTypeOK
<1> QED BY <1>1 DEF HasLeft, ClientStages, Living, Waiting

\* A worker that stops serving ends the session, which it does when the client has
\* left, or over a read that fails.
LEMMA EndSeen ==
    ASSUME NEW s \in Sessions, NEW c, Serves(s, c), MappingInv, WorkerMoves(s),
           wpc[s] \in Serving, wpc'[s] \in Ended, UNCHANGED <<dir, content>>,
           TableAt(s)' = TableAt(s),
           \/ HasLeft(c)
           \/ Remote!Pending(c, "REQUEST_READ") /\ ~Remote!Fit(c, {"RD"})
    PROVE  Remote!SessionEnds(c)
<1>1. SessionAt(s) = "on" /\ SessionAt(s)' = "over"
  BY DEF SessionAt, Serving, Ended
<1>2. HasLeft(c) => RemoteEnds[c]
  BY DEF RemoteEnds, Serves
<1>3. /\ RemoteSessions' = [RemoteSessions EXCEPT ![c] = "over"]
      /\ RemoteJobs' = [RemoteJobs EXCEPT ![c] = Remote!Idle]
      /\ RemoteSessions[c] = "on"
  BY <1>1, ServedMoves, ServedFacts DEF NoJob, Remote!Idle
<1>4. UNCHANGED <<RemoteTables, RemoteUsers, RemoteRoots, RemoteCalls, RemoteReturns,
                  m_errno, RemoteEnds>>
  BY ServedMoves, WorkerViews
<1> QED BY <1>2, <1>3, <1>4 DEF Remote!SessionEnds, Remote!kernelVars

\* The next request is pending already when the worker takes it (receive_request).
LEMMA ReceiveSimulated ==
    ASSUME NEW s \in Sessions, NEW c, Serves(s, c), MappingInv, WorkerMoves(s),
           RealUid = Root, receive_request(s)
    PROVE  UNCHANGED Remote!remoteVars
<1>1. /\ wpc[s] = "serve" /\ c2s[s] # << >> /\ WorkerTypeOK /\ TcpTypeOK /\ OneAt(s)
      /\ Head(c2s[s]) \in Calls \cup {Bare("DISCONNECT")} /\ s2c[s] = << >>
      /\ euid[s] = Root
  BY WorkerViews DEF receive_request, WorkerReceives, OneAt, ExpectedAt, ServerModeAt
<1>2. Parseable(Head(c2s[s])) /\ MaySetEuid(s, userid[s])
  <2>1. \A r \in Calls : r.code \in RequestCodes
    BY ConnectionAssumption, RequestCode
  <2>2. \A r \in Calls : r.code # "CONNECT_START"
    BY <2>1 DEF RequestCodes
  <2> QED BY <1>1, <2>2 DEF Parseable, Bare, MaySetEuid
<1>3. /\ wpc'[s] = "handle" /\ request'[s] = Head(c2s[s])
      /\ UNCHANGED <<dir, content, fdt, mapVars>>
  BY <1>1, <1>2 DEF receive_request, Goto, WorkerTypeOK
<1>4. JobAt(s)' = JobAt(s)
  <2>1. CASE Head(c2s[s]).code \in RequestCodes
    <3>1. JobAt(s) = Submitted("pending", Head(c2s[s]))
      BY <1>1, <2>1 DEF JobAt
    <3>2. JobAt(s)' = Submitted("pending", Head(c2s[s]))
      BY <1>3, <2>1 DEF JobAt
    <3> QED BY <3>1, <3>2
  <2>2. CASE Head(c2s[s]).code \notin RequestCodes
    <3>1. JobAt(s) = NoJob
      BY <1>1, <2>2 DEF JobAt
    <3>2. JobAt(s)' = NoJob
      BY <1>3, <2>2 DEF JobAt
    <3> QED BY <3>1, <3>2
  <2> QED BY <2>1, <2>2
<1>5. SessionAt(s)' = SessionAt(s) /\ RemoteJobs[c] = JobAt(s) /\ wpc'[s] \notin Ended
  BY <1>1, <1>3, ServedFacts DEF SessionAt, Ended
<1> QED BY <1>3, <1>4, <1>5, TableStays, NothingSeen DEF mapVars

\* DISCONNECT comes from a client that has left (handle_disconnect).
LEMMA DisconnectSimulated ==
    ASSUME NEW s \in Sessions, NEW c, Serves(s, c), MappingInv, WorkerMoves(s),
           handle_disconnect(s)
    PROVE  Remote!SessionEnds(c)
<1>1. /\ wpc[s] = "handle" /\ request[s].code = "DISCONNECT" /\ WorkerTypeOK
      /\ wpc'[s] = "unwind" /\ UNCHANGED <<dir, content, fdt, mapVars>>
  BY WorkerViews DEF handle_disconnect, Handles, Abandon, Returns, WorkerTypeOK
<1>2. /\ c \in Clients /\ m_access[c] /\ m_sockfd[c] = s /\ s # NoSock
      /\ cpc[c] \in ClientStages /\ TalkOf(c) /\ CredentialsOf(c) /\ ArgumentsOf(c)
  BY ConnectionAssumption DEF Serves, MappingInv, SystemInv, ClientsInv, ClientInv,
     ConnectionTypeOK, ConversationInv, RemoteInv, ClientsView
<1>3. cpc[c] # "call"
  <2> SUFFICES ASSUME cpc[c] = "call" PROVE FALSE
    OBVIOUS
  <2>1. request[s] = call[c] /\ call[c] \in Calls
    BY <1>1, <1>2 DEF TalkOf, CallTalk, ArgumentsOf
  <2>2. request[s].code \in RequestCodes
    BY <2>1, ConnectionAssumption, RequestCode
  <2> QED BY <1>1, <2>2 DEF RequestCodes
<1>4. cpc[c] \notin {"idle", "login", "verdict"}
  BY <1>1, <1>2 DEF TalkOf, IdleTalk, CredentialsOf
<1>5. HasLeft(c)
  BY <1>2, <1>3, <1>4 DEF HasLeft, ClientStages
<1> QED BY <1>1, <1>5, TableStays, EndSeen DEF Serving, Ended, mapVars

\* The answer is with the system still when it is on its way, and dropped when the
\* client has left (send_result).
LEMMA SendSimulated ==
    ASSUME NEW s \in Sessions, NEW c, Serves(s, c), MappingInv, WorkerMoves(s),
           send_result(s)
    PROVE  Simulated(c)
<1>1. /\ wpc[s] = "reply" /\ WorkerTypeOK /\ TcpTypeOK /\ c2s[s] = << >> /\ s2c[s] = << >>
      /\ UNCHANGED <<dir, content, fdt, mapVars, c2s>>
  BY WorkerViews DEF send_result, OneAt, Working, Quiet, WorkerSend
<1>2. /\ TableAt(s)' = TableAt(s) /\ RemoteJobs[c] = Answered(response[s])
      /\ RemoteSessions[c] = "on" /\ SessionAt(s) = "on"
  BY <1>1, TableStays, ServedFacts DEF mapVars, JobAt, SessionAt, Ended
<1>3. PICK outcome \in SendOutcomes(cend[s]) :
        /\ WorkerSend(s, response[s], outcome)
        /\ \/ outcome = "sent" /\ wpc'[s] = "serve"
           \/ outcome # "sent" /\ wpc'[s] \in {"unwind", "exit"} /\ cend[s] = "closed"
  BY <1>1 DEF send_result, SendOutcomes, Goto, Returns, Dies, WorkerTypeOK
<1>4. CASE wpc'[s] = "serve" /\ cend[s] # "closed"
  <2>1. s2c'[s] = Append(<< >>, response[s])
    BY <1>1, <1>3, <1>4 DEF WorkerSend, Sent, TcpTypeOK
  <2>2. s2c'[s] # << >> /\ Head(s2c'[s]) = response[s]
    <3>1. \A m : Append(<< >>, m) # << >> /\ Head(Append(<< >>, m)) = m
      OBVIOUS
    <3> QED BY <2>1, <3>1
  <2>3. JobAt(s)' = Answered(response[s])
    BY <1>4, <2>2 DEF JobAt, Answered
  <2> QED BY <1>1, <1>2, <1>4, <2>3, NothingSeen DEF SessionAt, Ended, Simulated
<1>5. CASE wpc'[s] = "serve" /\ cend[s] = "closed"
  <2>1. s2c'[s] = << >> /\ c2s'[s] = << >>
    BY <1>1, <1>3, <1>5 DEF WorkerSend, Sent, TcpTypeOK
  <2>2. JobAt(s)' = Remote!Idle
    BY <1>5, <2>1 DEF JobAt, NoJob, Remote!Idle
  <2>3. RemoteEnds[c]
    BY <1>5, ClosedHasLeft DEF RemoteEnds, Serves
  <2>4. /\ RemoteJobs' = [RemoteJobs EXCEPT ![c] = Remote!Idle]
        /\ UNCHANGED <<RemoteTables, RemoteSessions, RemoteUsers, RemoteRoots>>
    BY <1>2, <1>5, <2>2, ServedMoves DEF SessionAt, Ended
  <2>5. RemoteJobs[c].phase = "done"
    BY <1>2 DEF Answered
  <2>6. Remote!Drops(c)
    BY <1>1, <2>3, <2>4, <2>5, WorkerViews DEF Remote!Drops, Remote!kernelVars
  <2> QED BY <2>6 DEF Simulated, Remote!SystemActs
<1>6. CASE wpc'[s] # "serve"
  <2>1. HasLeft(c)
    BY <1>3, <1>6, ClosedHasLeft
  <2>2. Remote!SessionEnds(c)
    BY <1>1, <1>2, <1>3, <1>6, <2>1, EndSeen DEF Serving, Ended
  <2> QED BY <2>2 DEF Simulated, Remote!SystemActs
<1> QED BY <1>4, <1>5, <1>6

\* Nothing comes any more from a client that has left (receive_fails).
LEMMA HangupSimulated ==
    ASSUME NEW s \in Sessions, NEW c, Serves(s, c), MappingInv, WorkerMoves(s),
           receive_fails(s)
    PROVE  Remote!SessionEnds(c)
<1>1. /\ wpc[s] = "serve" /\ cend[s] = "closed" /\ wpc'[s] = "unwind"
      /\ UNCHANGED <<dir, content, fdt, mapVars>>
  BY WorkerViews, ServedFacts DEF receive_fails, WorkerHangup, Returns, WorkerTypeOK,
                                  kernelVars, Serving, Ended
<1> QED BY <1>1, ClosedHasLeft, TableStays, EndSeen DEF Serving, Ended, mapVars

\* What is left open goes with the worker (~NFSServerWorker, exit).
LEMMA ReleaseSimulated ==
    ASSUME NEW s \in Sessions, NEW c, Serves(s, c), MappingInv, WorkerMoves(s),
           destroy(s) \/ exit_process(s)
    PROVE  Remote!Releases(c)
<1>1. /\ wpc[s] \in Ended /\ wpc'[s] \in Ended /\ descriptor_map'[s] = EmptyMap
      /\ UNCHANGED <<dir, content>>
  BY WorkerViews DEF destroy, exit_process, SysClose, Goto, WorkerTypeOK, Ended
<1>2. TableAt(s)' = [fd \in Fds |-> FreeSlot]
  <2>1. \A cd : ~is_descriptor_in_map(s, cd)'
    BY <1>1 DEF is_descriptor_in_map, EmptyMap
  <2> QED BY <2>1 DEF TableAt
<1>3. SessionAt(s) = "over" /\ SessionAt(s)' = "over" /\ RemoteJobs[c] = NoJob
      /\ RemoteSessions[c] = "over"
  BY <1>1, ServedFacts DEF SessionAt
<1>4. /\ RemoteTables' = [RemoteTables EXCEPT ![c] = [fd \in Fds |-> FreeSlot]]
      /\ UNCHANGED <<RemoteSessions, RemoteJobs, RemoteUsers, RemoteRoots>>
  BY <1>1, <1>2, <1>3, ServedMoves
<1>5. Remote!SysClose(c, Remote!Fds)
  <2>1. \A T : [fd \in Fds |-> IF fd \in Fds THEN FreeSlot ELSE T[fd]]
                  = [fd \in Fds |-> FreeSlot]
    OBVIOUS
  <2> QED BY <1>1, <1>4, <2>1
          DEF Remote!SysClose, Remote!Fds, Fds, Remote!FreeSlot, FreeSlot,
              Remote!EmptySlot, EmptySlot, Remote!NoInode, NoInode, Remote!NoPath, NoPath
<1> QED BY <1>3, <1>4, <1>5, WorkerViews DEF Remote!Releases, Remote!apiVars

\* A read that can only fail is the end of the session (handle_request_read).
LEMMA ReadEndSimulated ==
    ASSUME NEW s \in Sessions, NEW c, Serves(s, c), MappingInv, WorkerMoves(s),
           MaxDescriptor <= MaxFd, handle_request_read(s), ~Readable(s)
    PROVE  Remote!SessionEnds(c)
<1>1. /\ Remote!Pending(c, "REQUEST_READ") /\ Remote!Arg(c) = request[s]
      /\ wpc[s] = "handle" /\ ClientFd(s) = request[s].fd /\ WorkerTypeOK
      /\ request[s] \in Calls /\ request[s].code = "REQUEST_READ"
  BY PendingFacts, DescriptorFits, WorkerViews DEF handle_request_read, RequestCodes, Handles
<1>2. wpc'[s] = "exit" /\ UNCHANGED <<dir, content, fdt, mapVars>>
  BY <1>1 DEF handle_request_read, Dies, Goto, WorkerTypeOK, kernelVars
<1>3. ~Usable(s, {"RD"})
  BY <1>1, SystemAssumption DEF Readable
<1>4. ~Remote!Fit(c, {"RD"})
  BY <1>1, <1>3, FitSeen
<1> QED BY <1>1, <1>2, <1>4, TableStays, EndSeen DEF Serving, Ended, mapVars

\* Whoever is served has been let in, and sends nothing but requests: the worker
\* does not authenticate again, and rejects nothing.
LEMMA NothingElse ==
    ASSUME NEW s \in Sessions, NEW c, Serves(s, c), MappingInv, WorkerMoves(s)
    PROVE  ~authenticate(s) /\ ~reject_message(s)
<1>1. ~authenticate(s)
  BY ServedFacts DEF authenticate, ask_info, receive_info, select, send_verdict,
                     Serving, Ended
<1>2. ~reject_message(s)
  <2> SUFFICES ASSUME reject_message(s) PROVE FALSE
    OBVIOUS
  <2>1. wpc[s] = "handle" /\ request[s].code \notin RequestCodes \cup {"DISCONNECT"}
    BY DEF reject_message
  <2>2. request[s] \in Calls \cup {Bare("DISCONNECT")}
    BY <2>1, WorkerViews DEF ExpectedAt
  <2>3. \A r \in Calls : r.code \in RequestCodes
    BY ConnectionAssumption, RequestCode
  <2> QED BY <2>1, <2>2, <2>3 DEF Bare
<1> QED BY <1>1, <1>2

-----------------------------------------------------------------------------
(* The theorem.                                                            *)

\* Each step of a worker is a step of the system for the client it serves.
LEMMA WorkerSimulated ==
    ASSUME NEW s \in Sessions, NEW c, Serves(s, c), MappingInv, LeakInv, WorkerMoves(s),
           MaxDescriptor <= MaxFd, MaxOffset <= IntMax, RealUid = Root
    PROVE  Simulated(c)
<1>1. CASE handle_request(s)
  <2>1. CASE handle_request_open(s) \/ handle_request_close(s) \/ handle_request_write(s)
    BY <2>1, OpenSimulated, CloseSimulated, WriteSimulated
       DEF Simulated, Remote!SystemActs, Remote!Executes
  <2>2. CASE handle_request_read(s)
    BY <2>2, ReadSimulated, ReadEndSimulated
       DEF Simulated, Remote!SystemActs, Remote!Executes
  <2>3. CASE \/ handle_request_lseek(s) \/ handle_request_fstat(s)
             \/ handle_request_unlink(s)
    BY <2>3, LseekSimulated, FstatSimulated, UnlinkSimulated
       DEF Simulated, Remote!SystemActs, Remote!Executes
  <2>4. CASE handle_request_flock(s) \/ flock_ends(s)
    BY <2>4, FlockSimulated, FlockEndsSimulated
       DEF Simulated, Remote!SystemActs, Remote!Executes
  <2>5. CASE handle_disconnect(s)
    BY <2>5, DisconnectSimulated DEF Simulated, Remote!SystemActs
  <2> QED BY <1>1, <2>1, <2>2, <2>3, <2>4, <2>5, NothingElse DEF handle_request
<1>2. CASE receive_request(s) \/ send_result(s)
  BY <1>2, ReceiveSimulated, SendSimulated DEF Simulated
<1>3. CASE receive_fails(s) \/ destroy(s) \/ exit_process(s)
  BY <1>3, HangupSimulated, ReleaseSimulated DEF Simulated, Remote!SystemActs
<1> QED BY <1>1, <1>2, <1>3, NothingElse DEF WorkerMoves, WorkerStep

\* Each step of the whole system is a step of RemoteFiles.tla, or is not seen there.
LEMMA StepSimulated ==
    ASSUME ~SignalsHandled, ~Reconnects, MaxDescriptor <= MaxFd, MaxOffset <= IntMax,
           RealUid = Root, MappingInv, LeakInv, [Next]_vars
    PROVE  [Remote!RemoteNext]_Remote!remoteVars
<1>1. ASSUME NEW c \in Clients, Simulated(c)
      PROVE  [Remote!RemoteNext]_Remote!remoteVars
  BY <1>1 DEF Simulated, Remote!RemoteNext
<1>2. ASSUME NEW s \in Sessions, WorkerMoves(s)
      PROVE  [Remote!RemoteNext]_Remote!remoteVars
  <2>1. CASE Served(s)
    <3>1. PICK c \in Clients : Serves(s, c)
      BY <2>1 DEF Served, Serves
    <3>2. Simulated(c)
      BY <1>2, <3>1, WorkerSimulated
    <3> QED BY <1>1, <3>2
  <2>2. CASE ~Served(s)
    BY <1>2, <2>2, UnservedStutters
  <2> QED BY <2>1, <2>2
<1>3. CASE ListenerStep /\ UNCHANGED connectionVars
  BY <1>3, ListenerStutters
<1>4. ASSUME NEW c \in Clients, ClientMoves(c)
      PROVE  [Remote!RemoteNext]_Remote!remoteVars
  BY <1>1, <1>4, ClientSimulated
<1>5. CASE UNCHANGED vars
  <2>1. UNCHANGED <<dir, content, m_errno, RemoteCalls, RemoteReturns, RemoteEnds>>
    BY <1>5 DEF vars, serverVars, kernelVars, connectionVars, RemoteCalls, RemoteReturns,
                RemoteEnds, HasLeft
  <2>2. \A d \in Clients : SameView(d)
    <3>1. \A t : SameSession(t)
      BY <1>5 DEF vars, serverVars, workerVars, tcpVars, kernelVars, sessionVars, mapVars,
                  messageVars, SameSession
    <3> QED BY <1>5, <3>1, ViewKept DEF vars, connectionVars
  <2>3. UNCHANGED <<RemoteTables, RemoteUsers, RemoteRoots, RemoteSessions, RemoteJobs>>
    BY <2>2, NoneViewed
  <2> QED BY <2>1, <2>3 DEF Remote!remoteVars, Remote!kernelVars, Remote!apiVars
<1> QED BY <1>2, <1>3, <1>4, <1>5 DEF Next

\* Nobody has called anything when the system starts.
LEMMA InitSeen == Init => Remote!RemoteInit
<1> SUFFICES ASSUME Init PROVE Remote!RemoteInit
  OBVIOUS
<1>1. \A c \in Clients : /\ ~m_access[c] /\ cpc[c] = "idle" /\ ret[c] = NoReturn
  BY DEF Init, ConnectionInit
<1>2. RemoteTables = [c \in Clients |-> Remote!NoTable]
  BY <1>1 DEF RemoteTables, RemoteTable, Remote!NoTable, Remote!FreeSlot, FreeSlot,
              Remote!EmptySlot, EmptySlot, Remote!Fds, Fds, Remote!NoPath, NoPath,
              Remote!NoInode, NoInode
<1>3. ASSUME NEW c \in Clients
      PROVE  RemoteSession(c) = "none" /\ RemoteJob(c) = Remote!Idle /\ ~HasLeft(c)
  <2>1. RemoteSession(c) = "none"
    BY <1>1 DEF RemoteSession
  <2>2. ~HasLeft(c)
    BY <1>1 DEF HasLeft
  <2>3. RemoteJob(c) = Remote!Idle
    BY <2>1 DEF RemoteJob, NoJob, Remote!Idle
  <2> QED BY <2>1, <2>2, <2>3
<1>4. /\ RemoteUsers = [c \in Clients |-> Root] /\ RemoteRoots = [c \in Clients |-> ""]
      /\ RemoteSessions = [c \in Clients |-> "none"]
      /\ RemoteJobs = [c \in Clients |-> Remote!Idle]
  BY <1>1, <1>3 DEF RemoteUsers, RemoteRoots, RemoteSessions, RemoteJobs, NoDir
<1>5. /\ RemoteCalls = [c \in Clients |-> Remote!NoCall]
      /\ RemoteReturns = [c \in Clients |-> Remote!NoCall]
      /\ RemoteEnds = [c \in Clients |-> FALSE]
  <2>1. \A c \in Clients : cpc[c] # "call" /\ ret[c] = Remote!NoCall
    BY <1>1 DEF Remote!NoCall, NoReturn
  <2>2. RemoteCalls = [c \in Clients |-> Remote!NoCall]
    BY <2>1 DEF RemoteCalls, Remote!NoCall, NoMessage
  <2>3. RemoteReturns = [c \in Clients |-> Remote!NoCall]
    BY <2>1 DEF RemoteReturns, Remote!NoCall, NoReturn
  <2>4. RemoteEnds = [c \in Clients |-> FALSE]
    <3>1. \A c \in Clients : HasLeft(c) = FALSE
      BY <1>3
    <3> QED BY <3>1, Zenon DEF RemoteEnds
  <2> QED BY <2>2, <2>3, <2>4
<1>6. /\ dir = InitialDir /\ content = [i \in Inodes |-> << >>]
      /\ m_errno = [c \in Clients |-> "0"]
  BY DEF Init, ServerInit, KernelInit, ConnectionInit
<1> QED
  BY <1>2, <1>3, <1>4, <1>5, <1>6 DEF Remote!RemoteInit, Remote!KernelInit

\* The clients of the library and their workers are, for the applications, local
\* processes of the server's system (README.md:445): NFSConnection's calls, as the
\* handlers of NFSServerWorker.cpp carry them out.
THEOREM SystemImplementsRemoteFiles ==
    ASSUME ~SignalsHandled, ~Reconnects, 0 \in Inherited, RealUid = Root,
           MaxDescriptor <= MaxFd, MaxOffset <= IntMax
    PROVE  Spec => ImplementsRemoteFiles
<1>1. Init => Remote!RemoteInit
  BY InitSeen
<1>2. MappingInv /\ LeakInv /\ [Next]_vars => [Remote!RemoteNext]_Remote!remoteVars
  BY StepSimulated
<1>3. Spec => []LeakInv
  BY LeakInvHolds, SystemImplementsServer, PTL DEF ImplementsServer
<1> QED BY <1>1, <1>2, <1>3, MappingInvHolds, PTL
        DEF Spec, ImplementsRemoteFiles, Remote!RemoteSpec
=============================================================================
