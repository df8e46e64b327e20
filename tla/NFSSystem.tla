----------------------------- MODULE NFSSystem -----------------------------
(***************************************************************************)
(* The whole system: the server of NFSServer.tla, with the clients of      *)
(* NFSConnection.tla in the place of its arbitrary environment.            *)
(***************************************************************************)
EXTENDS NFSServer, NFSConnection

\* All that the library ever sends.  The clients that NFSServer.tla assumes may
\* send at least that.
LibraryMessages ==
    Calls \cup {Bare("DISCONNECT")}
    \cup {[code |-> ConnectInfoCode[k], text |-> a[k]] : k \in 1..3, a \in ConnectArgs}

\* Nor do applications read more at a time than a worker has memory for.
ASSUME SystemAssumption ==
    /\ LibraryMessages \subseteq ClientMessages
    /\ \A r \in Calls : r.code = "REQUEST_READ" => r.size <= MaxAlloc

vars == <<serverVars, connectionVars>>

\* A client in connect or in a call waits on a socket it has, and for the answer
\* to what it was called with; only one with access is in a call.
WaitsForAnAnswer(c) ==
    /\ cpc[c] \in {"login", "verdict", "call"} => m_sockfd[c] # NoSock
    /\ cpc[c] = "login" => args[c] \in ConnectArgs /\ step[c] \in 1..3
    /\ cpc[c] = "call" => m_access[c] /\ call[c] \in Calls

TypeOK == /\ ServerTypeOK /\ ConnectionTypeOK
          /\ \A c \in Clients : WaitsForAnAnswer(c)

Init == ServerInit /\ ConnectionInit

\* A connection is made while the server listens.
\* Mutant: whether it listens or not.
ConnectsAnyway(c) == \E s \in Sessions, a \in ConnectArgs : connect(c, s, a)
Connects(c) ==
    /\ lpc = "listening"
    /\ \E s \in Sessions, a \in ConnectArgs : connect(c, s, a)

ClientMoves(c) ==
    /\ Connects(c) \/ ClientStep(c)
    /\ UNCHANGED <<kernelVars, workerVars, lpc>>

WorkerMoves(s) == WorkerStep(s) /\ UNCHANGED <<lpc, connectionVars>>

Next ==
    \/ \E s \in Sessions : WorkerMoves(s)
    \/ ListenerStep /\ UNCHANGED connectionVars
    \/ \E c \in Clients : ClientMoves(c)

Spec == Init /\ [][Next]_vars

\* Every process that can run does; an application need never call again, and a
\* signal need never come: a recv goes on when there is something to receive.
Fairness ==
    /\ \A s \in Sessions :
          /\ WF_vars(WorkerMoves(s))
          /\ WF_vars((accept_and_fork(s) \/ fork_fails(s))
                        /\ UNCHANGED connectionVars)
    /\ \A c \in Clients :
          /\ WF_vars(/\ ClientProgress(c)
                     /\ s2c' # s2c \/ ClientHangup(m_sockfd[c])
                     /\ UNCHANGED <<kernelVars, workerVars, lpc>>)
          /\ WF_vars(cpc[c] # "destroyed" /\ end_process(c)
                        /\ UNCHANGED <<kernelVars, workerVars, lpc>>)

FairSpec == Spec /\ Fairness

-----------------------------------------------------------------------------
(* What the system promises.                                               *)

Sock(c) == m_sockfd[c]

\* A client that has connected talks to a worker that has accepted the very
\* credentials it gave (NFSConnection.hpp:146: "true if authentication was
\* successful"), or whose process has ended.
AccessMeansAuthenticated ==
    \A c \in Clients :
        m_access[c] /\ cpc[c] \in {"idle", "call"} =>
            /\ Sock(c) # NoSock
            /\ Authorized(Sock(c)) /\ authenticated[Sock(c)]

\* Conversations are synchronous (README.md:86): at most one message is on its
\* way in the connection of a client, and none while the client is not waiting.
OneMessageAtATime ==
    \A c \in Clients :
        LET s == Sock(c)
        IN  s # NoSock /\ cend[s] = "open" =>
                /\ Len(c2s[s]) + Len(s2c[s]) <= 1
                /\ cpc[c] = "idle" /\ m_access[c] =>
                      c2s[s] = << >> /\ s2c[s] = << >>

\* An answer that a call finds is of the type it expects (README.md:269-276).
AnswersMatchCalls ==
    \A c \in Clients : cpc[c] = "call" /\ s2c[Sock(c)] # << >> =>
        Head(s2c[Sock(c)]).code = ResultCode(call[c].code)

\* "The interface of the client library allows only correct communication with
\* the server" (README.md:282): no worker ever ends over a wrong message.
OnlyCorrectCommunication ==
    \A s \in Sessions : status[s] \notin {"EBADMSG", "123"}

\* The last call of client c was of that kind, and has just returned.
HasReturned(c, code) == cpc[c] = "idle" /\ ret[c].code = code

\* What open returns as a descriptor is one that the worker knows, so that the
\* calls that follow can use it (NFSConnection.hpp:58).
OpenReturnsDescriptor ==
    \A c \in Clients :
        HasReturned(c, "REQUEST_OPEN") /\ ret[c].value >= 0
            /\ wpc[Sock(c)] = "serve" => ret[c].value \in Mapped(Sock(c))

\* A read that fails gives an errno of read(2); it does not end the session.
ReadFailsLikeRead ==
    \A c \in Clients :
        HasReturned(c, "REQUEST_READ") /\ ret[c].value = -1 =>
            m_errno[c] \notin {"EHOSTUNREACH", "EBADMSG"}

\* The library never kills the process that uses it: a send to a server that is
\* gone fails, and the destructor carries on (NFSConnection.hpp:37-40).
ClientSurvives == \A c \in Clients : cpc[c] # "sigpipe"

\* A call or a connect comes back, unless the process ends.
CallsReturn ==
    \A c \in Clients :
        cpc[c] \in {"login", "verdict", "call"} ~>
            cpc[c] \notin {"login", "verdict", "call"}

\* Client c has been given a lock: its last call was a flock that has succeeded
\* on a descriptor it still has.
Locked(c, mode) ==
    /\ HasReturned(c, "REQUEST_FLOCK") /\ ret[c].value = 0
    /\ ret[c].request.operation = mode
    /\ wpc[Sock(c)] = "serve"
    /\ is_descriptor_in_map(Sock(c), ret[c].request.fd)
LockedInode(c) ==
    fdt[Sock(c)][descriptor_map[Sock(c)][ret[c].request.fd]].ino

\* A client that flock has given the exclusive lock of a file has it alone: no
\* other client has been given a lock of the same file (NFSConnection.hpp:123).
LocksExclude ==
    \A c, d \in Clients :
        /\ c # d /\ Locked(c, "EX") /\ (Locked(d, "EX") \/ Locked(d, "SH"))
        => LockedInode(c) # LockedInode(d)

\* The library is one of the clients that the server is ready for: whatever its
\* processes do, connecting, talking, dying, is a step of ServerSpec, so that all
\* that is proved of the server holds in the system (NFSConnection.cpp).
ImplementsServer == ServerSpec

-----------------------------------------------------------------------------
(* The system implements RemoteFiles.tla: what a client sees of its worker *)
(* is a local process of the server's system.                              *)

HasLeft(c) == cpc[c] \in {"destroyed", "dying", "sigpipe", "gone"}

RemoteSession(c) ==
    IF ~m_access[c] THEN "none"
    ELSE IF wpc[Sock(c)] \in {"unwind", "exit", "zombie"} THEN "over" ELSE "on"

\* A client descriptor stands for the file descriptor in the map of the worker;
\* the instances keep MaxDescriptor within MaxFd.
RemoteTable(c) ==
    [cd \in Fds |->
        IF m_access[c] /\ is_descriptor_in_map(Sock(c), cd)
        THEN fdt[Sock(c)][get_descriptor_from_map(Sock(c), cd)] ELSE FreeSlot]

\* A call is with the system from the time its request is sent, and answered
\* from the time the worker has its answer.
NoJob == [phase |-> "idle"]
Submitted(phase, r) == [phase |-> phase, request |-> r]
Answered(m) == [phase |-> "done", value |-> m.value, data |-> m.data,
                errno |-> IF m.value < 0 THEN m.errno ELSE "0"]
JobAt(s) ==
    CASE wpc[s] = "reply"                         -> Answered(response[s])
      [] wpc[s] = "flock"                         -> Submitted("locking", request[s])
      [] wpc[s] = "handle" /\ request[s].code \in RequestCodes
                                                  -> Submitted("pending", request[s])
      [] wpc[s] = "serve" /\ s2c[s] # << >>       -> Answered(Head(s2c[s]))
      [] wpc[s] = "serve" /\ s2c[s] = << >> /\ c2s[s] # << >>
            /\ Head(c2s[s]).code \in RequestCodes -> Submitted("pending", Head(c2s[s]))
      [] OTHER                                    -> NoJob
RemoteJob(c) == IF RemoteSession(c) = "on" THEN JobAt(Sock(c)) ELSE NoJob

\* What RemoteFiles.tla knows of each client.
RemoteTables   == [c \in Clients |-> RemoteTable(c)]
RemoteUsers    == [c \in Clients |-> IF m_access[c] THEN userid[Sock(c)] ELSE Root]
RemoteRoots    == [c \in Clients |-> IF m_access[c] THEN filesystem_prefix[Sock(c)]
                                     ELSE NoDir]
RemoteSessions == [c \in Clients |-> RemoteSession(c)]
RemoteJobs     == [c \in Clients |-> RemoteJob(c)]
RemoteCalls    == [c \in Clients |-> IF cpc[c] = "call" THEN call[c] ELSE NoMessage]
RemoteReturns  == [c \in Clients |-> IF HasLeft(c) \/ ret[c].code = "CONNECT"
                                     THEN NoReturn ELSE ret[c]]
RemoteEnds     == [c \in Clients |-> HasLeft(c)]

Remote == INSTANCE RemoteFiles WITH
    Sessions <- Clients,
    Users    <- {<<UidOf[a[1]], FSPrefix[a[3]]>> : a \in {b \in ConnectArgs :
                    GoodUser(b[1], b[2]) /\ GoodFilesystem(b[3])}},
    fdt      <- RemoteTables,   euid    <- RemoteUsers,   root  <- RemoteRoots,
    session  <- RemoteSessions, job     <- RemoteJobs,    waiting <- RemoteCalls,
    ret      <- RemoteReturns,  errno   <- m_errno,       ended <- RemoteEnds

\* "The interface of the functions, their behaviour and the values they return
\* are identical to the standard implementation" (README.md:445), as far as
\* RemoteFiles.tla says: each call takes effect once and at one point (flock at
\* two), on the file its descriptor was opened for, with the rights of the user
\* who is logged in, and the application gets the values of that very call.
ImplementsRemoteFiles == Remote!RemoteSpec
=============================================================================
