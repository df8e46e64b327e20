----------------------------- MODULE NFSServer -----------------------------
(***************************************************************************)
(* The server (src/NFSServer.cpp and listen_for_connections): one process  *)
(* that accepts connections and forks a worker for each, in an environment *)
(* of clients that may send any message at any time.                       *)
(***************************************************************************)
EXTENDS NFSServerWorker

CONSTANTS
    ClientMessages, \* the messages that clients may send
    MaxProcs,       \* workers the system lets the server fork, zombies included
    SyscallsFail    \* whether accept(2) and fork(2) may fail at any time

ASSUME ServerAssumption ==
    /\ ClientMessages \subseteq MSG
    /\ MaxProcs \in Nat
    /\ SyscallsFail \in BOOLEAN

VARIABLES lpc       \* the listener: "listening" or "down"

serverVars == <<tcpVars, kernelVars, workerVars, lpc>>

ServerTypeOK ==
    /\ TcpTypeOK /\ KernelTypeOK /\ WorkerTypeOK
    /\ lpc \in {"listening", "down"}

\* NFSServer::run has checked for root and read its configuration.
ServerInit ==
    /\ TcpInit /\ KernelInit /\ WorkerInit
    /\ lpc = "listening"

-----------------------------------------------------------------------------
\* Nobody waits for a worker that has ended, so it still counts.
Processes == {s \in Sessions : wpc[s] # "none"}

\* accept, fork: the child gets the socket and starts NFSServerWorker::run.
accept_and_fork(s) ==
    /\ lpc = "listening" /\ wend[s] = "backlog"
    /\ Cardinality(Processes) < MaxProcs
    /\ wend' = [wend EXCEPT ![s] = "open"]
    /\ fdt' = [fdt EXCEPT ![s] = BornTable]
    /\ Goto(s, "ask")
    /\ UNCHANGED <<c2s, s2c, cend, dir, content, euid, lpc, sessionVars,
                   mapVars, messageVars>>

\* fork fails: its result -1 takes the branch of the parent, which closes the
\* socket.  Mutant: the socket stays open.
fork_fails_and_leaks(s) ==
    /\ lpc = "listening" /\ wend[s] = "backlog"
    /\ SyscallsFail \/ Cardinality(Processes) >= MaxProcs
    /\ UNCHANGED <<tcpVars, kernelVars, workerVars, lpc>>
fork_fails(s) ==
    /\ lpc = "listening" /\ wend[s] = "backlog"
    /\ SyscallsFail \/ Cardinality(Processes) >= MaxProcs
    /\ WorkerCloses(s)
    /\ UNCHANGED <<kernelVars, workerVars, lpc>>

\* accept fails: the loop returns, run() returns and the listening socket goes,
\* with every connection that was waiting in it.
accept_fails ==
    /\ SyscallsFail /\ lpc = "listening"
    /\ lpc' = "down"
    /\ wend' = [s \in Sessions |->
                   IF wend[s] = "backlog" THEN "closed" ELSE wend[s]]
    /\ c2s' = [s \in Sessions |->
                  IF wend[s] = "backlog" THEN << >> ELSE c2s[s]]
    /\ UNCHANGED <<s2c, cend, kernelVars, workerVars>>

ListenerStep ==
    accept_fails \/ \E s \in Sessions : accept_and_fork(s) \/ fork_fails(s)

-----------------------------------------------------------------------------
(* Clients, seen from the server: connections are made while somebody      *)
(* listens, messages of any kind are sent and received, connections close. *)

EnvConnect(s) ==
    /\ cend[s] = "unused" /\ lpc = "listening"
    /\ cend' = [cend EXCEPT ![s] = "open"]
    /\ wend' = [wend EXCEPT ![s] = "backlog"]
    /\ UNCHANGED <<c2s, s2c>>

\* The client of a session receives a message, sends message m, or both.
EnvReceives(s) == /\ s2c[s] # << >>
                  /\ s2c' = [s2c EXCEPT ![s] = Tail(@)]
EnvSends(s, m) == /\ HasRoom(c2s[s], wend[s])
                  /\ c2s' = [c2s EXCEPT ![s] = Sent(@, m, wend[s])]
EnvTalks(s, m) ==
    /\ cend[s] = "open"
    /\ \/ EnvReceives(s) /\ EnvSends(s, m)
       \/ EnvReceives(s) /\ UNCHANGED c2s
       \/ EnvSends(s, m) /\ UNCHANGED s2c
    /\ UNCHANGED <<cend, wend>>

EnvCloses(closing) ==
    /\ \A s \in closing : cend[s] = "open"
    /\ cend' = [s \in Sessions |-> IF s \in closing THEN "closed" ELSE cend[s]]
    /\ s2c' = [s \in Sessions |-> IF s \in closing THEN << >> ELSE s2c[s]]
    /\ UNCHANGED <<c2s, wend>>

\* The destructor of the library sends a last message and closes the socket.
EnvDisconnects(s) ==
    /\ cend[s] = "open"
    /\ Bare("DISCONNECT") \in ClientMessages /\ EnvSends(s, Bare("DISCONNECT"))
    /\ cend' = [cend EXCEPT ![s] = "closed"]
    /\ s2c' = [s2c EXCEPT ![s] = << >>]
    /\ UNCHANGED wend

EnvStep ==
    /\ \/ \E s \in Sessions : EnvConnect(s) \/ EnvDisconnects(s)
       \/ \E s \in Sessions, m \in ClientMessages : EnvTalks(s, m)
       \/ \E closing \in (SUBSET Sessions) \ {{}} : EnvCloses(closing)
    /\ UNCHANGED <<kernelVars, workerVars, lpc>>

ServerNext ==
    \/ \E s \in Sessions : WorkerStep(s) /\ UNCHANGED lpc
    \/ ListenerStep
    \/ EnvStep

ServerSpec == ServerInit /\ [][ServerNext]_serverVars

-----------------------------------------------------------------------------
(* What the server promises.                                               *)

Mapped(s) == {cd \in Descriptors : descriptor_map[s][cd] # NoFd}

\* The descriptor map of a worker is sound: what it has given out lies below
\* next_descriptor and stands for an open file, no two of them for the same one.
\* A wrong entry would make a later read or write reach another file, or the
\* client's own socket, once the kernel has reused the number.
DescriptorMapSound ==
    \A s \in Sessions : \A cd \in Mapped(s) :
        /\ cd < next_descriptor[s]
        /\ IsFile(s, descriptor_map[s][cd])
        /\ \A ce \in Mapped(s) :
              descriptor_map[s][ce] = descriptor_map[s][cd] => ce = cd

\* Every file a worker holds open has a client descriptor: the client can close
\* it, and ~NFSServerWorker does when the client has not (README.md:403).
NoDescriptorLeak ==
    \A s \in Sessions : \A fd \in Fds :
        IsFile(s, fd) => \E cd \in Mapped(s) : descriptor_map[s][cd] = fd

\* The user that the three credentials of a session prove, and the directory.
Authorized(s) ==
    /\ Len(info[s]) = 3
    /\ info[s][1] \in DOMAIN UidOf /\ info[s][2] = HashOf[info[s][1]]
    /\ info[s][3] \in DOMAIN FSPrefix

\* User-level rights that the credentials of session s give it on a file that
\* some path below the directory it has named leads to.
Grants(s, name, right) ==
    /\ Authorized(s)
    /\ \E text \in Strings : name = Resolved(FSPrefix[info[s][3]], text)
    /\ <<name, right>> \in Allowed[UidOf[info[s][1]]]

\* A file is open only for what the user whose password the client knows may do
\* with it, and by a path that starts at the filesystem the client has named: the
\* seteuid calls around each request (README.md:403) never let a worker open a
\* file as root or as somebody else.  These rights, and not the path, are what
\* keeps a client inside a filesystem (README.md:473-477).
FilesOpenedAsUser ==
    \A s \in Sessions : \A fd \in Fds : IsFile(s, fd) =>
        \A r \in fdt[s][fd].rights : Grants(s, fdt[s][fd].path, r)

\* The worker of session s executes its request in this step.
Acts(s) == wpc[s] = "handle" /\ wpc'[s] # "handle"

\* Session s reaches file i by name p: it names the file, or the session has the
\* file open for writing, and opened it by that name.
Reaches(s, p, i) ==
    \/ dir[p] = i
    \/ \E fd \in Fds : /\ IsFile(s, fd) /\ "WR" \in fdt[s][fd].rights
                        /\ fdt[s][fd].ino = i /\ fdt[s][fd].path = p

\* A step that creates or removes a name is a step of a worker whose client's
\* credentials permit it in that place; one that changes the bytes of a file is a
\* step of a worker that reaches this very file by a name that the credentials of
\* its client let it write.
FilesChangeAsUser ==
    [][/\ \A p \in Paths : dir'[p] # dir[p] =>
             \E s \in Sessions : Acts(s) /\ Grants(s, p, "DIR")
       /\ \A i \in Inodes : InodeInUse(i) /\ content'[i] # content[i] =>
             \E s \in Sessions, p \in Paths :
                 Acts(s) /\ Reaches(s, p, i) /\ Grants(s, p, "WR")]_serverVars

\* A client descriptor keeps standing for the open file it was given for until
\* it is closed, and is never given out again: not even when the kernel reuses
\* the number of the file descriptor behind it.
DescriptorsKeepTheirFile ==
    [][\A s \in Sessions : \A cd \in Descriptors :
          /\ cd \in Mapped(s) /\ cd \in Mapped(s)' =>
                LET old == fdt[s][descriptor_map[s][cd]]
                    new == fdt'[s][descriptor_map'[s][cd]]
                IN  old.ino = new.ino /\ old.path = new.path
          /\ cd < next_descriptor[s] =>
                /\ cd < next_descriptor'[s]
                /\ cd \in Mapped(s)' => cd \in Mapped(s)]_serverVars

\* An answer that reports a failure tells its reason: the library hands errno to
\* the application exactly when the result is negative.
FailuresHaveErrno ==
    \A s \in Sessions : wpc[s] = "reply" /\ response[s].value < 0 =>
        response[s].errno \notin {"0", "stale"}

\* When a client is gone, its worker in the end holds no file open, hence no
\* lock either (README.md:403).
FilesReleased ==
    \A s \in Sessions :
        cend[s] = "closed" ~> \A fd \in Fds : ~IsFile(s, fd)
=============================================================================
