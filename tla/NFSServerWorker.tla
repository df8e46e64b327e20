-------------------------- MODULE NFSServerWorker --------------------------
(***************************************************************************)
(* The process that serves one client (src/NFSServerWorker.cpp): it asks   *)
(* for three credentials, answers with the verdict, and then executes one  *)
(* request after another as the user it has authenticated.                 *)
(***************************************************************************)
EXTENDS Tcp, UnixKernel

CONSTANTS
    UidOf,          \* UidOf[login]: the user id of each login of the system
    HashOf,         \* HashOf[login]: the password its stored hash was made from
    NoHash,         \* a stored hash that crypt(3) rejects (a locked account)
    FSPrefix,       \* FSPrefix[name]: directory of each configured filesystem
    MaxDescriptor,  \* bound: client descriptors a worker gives out
    MaxAlloc        \* bound: largest buffer that operator new gives

ASSUME WorkerAssumption ==
    /\ DOMAIN UidOf \subseteq Strings
    /\ \A login \in DOMAIN UidOf : UidOf[login] \in Uids
    /\ DOMAIN HashOf = DOMAIN UidOf
    /\ NoHash \notin Text
    /\ DOMAIN FSPrefix \subseteq Strings
    /\ \A name \in DOMAIN FSPrefix : FSPrefix[name] \in Dirs
    /\ MaxDescriptor \in Nat /\ MaxAlloc \in Nat

NoFd  == -1
NoDir == ""
Descriptors == 1..MaxDescriptor

VARIABLES
    wpc,                \* where the worker of a session is
    info,               \* the credentials received so far
    authenticated, userid, filesystem_prefix,   \* members of the same name
    descriptor_map,     \* descriptor_map[s][cd]: a descriptor, or NoFd
    next_descriptor,
    request, response,  \* the message being handled, the answer to it
    status              \* how run() ended

workerVars == <<wpc, info, authenticated, userid, filesystem_prefix,
                descriptor_map, next_descriptor, request, response, status>>

\* "none": not forked yet; "unwind": run() has returned; "exit": the process
\* ends; "zombie": it has ended and nobody waits for it.
Stages == {"none", "ask", "await", "select", "verdict", "serve", "handle",
           "flock", "reply", "unwind", "exit", "zombie"}

WorkerTypeOK ==
    /\ wpc \in [Sessions -> Stages]
    /\ info \in [Sessions -> Seq(Strings)]
    /\ authenticated \in [Sessions -> BOOLEAN]
    /\ userid \in [Sessions -> Uids]
    /\ filesystem_prefix \in [Sessions -> Dirs \cup {NoDir}]
    /\ descriptor_map \in [Sessions -> [Descriptors -> Fds \cup {NoFd}]]
    /\ next_descriptor \in [Sessions -> 1..(MaxDescriptor + 1)]
    /\ request \in [Sessions -> MSG \cup {NoMessage}]
    /\ response \in [Sessions -> MSG \cup {NoMessage}]
    /\ status \in [Sessions -> {"none", "0", "-1", "EBADMSG", "123", "killed"}]

EmptyMap == [cd \in Descriptors |-> NoFd]

WorkerInit ==
    /\ wpc = [s \in Sessions |-> "none"]
    /\ info = [s \in Sessions |-> << >>]
    /\ authenticated = [s \in Sessions |-> FALSE]
    /\ userid = [s \in Sessions |-> Root]
    /\ filesystem_prefix = [s \in Sessions |-> NoDir]
    /\ descriptor_map = [s \in Sessions |-> EmptyMap]
    /\ next_descriptor = [s \in Sessions |-> 1]
    /\ request = [s \in Sessions |-> NoMessage]
    /\ response = [s \in Sessions |-> NoMessage]
    /\ status = [s \in Sessions |-> "none"]

-----------------------------------------------------------------------------
\* Moves of the program counter.
Goto(s, stage) == wpc' = [wpc EXCEPT ![s] = stage] /\ UNCHANGED status

\* run() returns, and the destructor is next; or the process dies at once.
Returns(s, code) == /\ wpc' = [wpc EXCEPT ![s] = "unwind"]
                    /\ status' = [status EXCEPT ![s] = code]
Dies(s, code)    == /\ wpc' = [wpc EXCEPT ![s] = "exit"]
                    /\ status' = [status EXCEPT ![s] = code]

\* send_message, then the given stage if it succeeds.
SendThen(s, m, stage) ==
    \E outcome \in SendOutcomes(cend[s]) :
        /\ WorkerSend(s, m, outcome)
        /\ \/ outcome = "sent"    /\ Goto(s, stage)
           \/ outcome = "error"   /\ Returns(s, "-1")
           \/ outcome = "sigpipe" /\ Dies(s, "killed")

sessionVars == <<info, authenticated, userid, filesystem_prefix>>
mapVars     == <<descriptor_map, next_descriptor>>
messageVars == <<request, response>>

-----------------------------------------------------------------------------
\* A C string ends in 0.  Mutant: the check is forgotten.
AnyText(x)    == TRUE
Terminated(x) == x # Unterminated

\* authenitcate_user: request_username, request_password, request_fsname.
ask_info(s) ==
    /\ wpc[s] = "ask"
    /\ SendThen(s, Bare(ProvideCode[Len(info[s]) + 1]), "await")
    /\ UNCHANGED <<kernelVars, sessionVars, mapVars, messageVars>>

receive_info(s) ==
    /\ wpc[s] = "await"
    /\ WorkerReceives(s)
    /\ LET m == Head(c2s[s])
           expected == m.code = ConnectInfoCode[Len(info[s]) + 1]
       IN  \/ /\ ~Parseable(m)
              /\ Dies(s, "123")
              /\ UNCHANGED info
           \/ /\ Parseable(m)
              /\ expected => ~Terminated(m.text)
              /\ Returns(s, "EBADMSG")
              /\ UNCHANGED info
           \/ /\ expected /\ Terminated(m.text)
              /\ info' = [info EXCEPT ![s] = Append(@, m.text)]
              /\ Goto(s, IF Len(info[s]) = 2 THEN "select" ELSE "ask")
    /\ UNCHANGED <<kernelVars, authenticated, userid, filesystem_prefix,
                   mapVars, messageVars>>

\* recv fails or returns 0: the worker gives up, whatever it was waiting for.
\* Mutant: the request loop goes on waiting.
receive_fails_at_login(s) ==
    /\ wpc[s] = "await"
    /\ WorkerHangup(s)
    /\ Returns(s, "-1")
    /\ UNCHANGED <<kernelVars, sessionVars, mapVars, messageVars>>
receive_fails(s) ==
    /\ wpc[s] \in {"await", "serve"}
    /\ WorkerHangup(s)
    /\ Returns(s, "-1")
    /\ UNCHANGED <<kernelVars, sessionVars, mapVars, messageVars>>

\* The answers of select_user and select_filesystem to the three credentials.
GoodUser(login, password) ==
    login \in DOMAIN UidOf /\ HashOf[login] = password
GoodFilesystem(name) == name \in DOMAIN FSPrefix

\* authenticated = res_user && res_fs.  Mutant: one of the two will do.
AcceptsEither(user, filesystem) == user \/ filesystem
Accepts(user, filesystem)       == user /\ filesystem

\* select_user and select_filesystem; for a hash that crypt(3) rejects it may
\* return NULL, which strcmp does not survive.
select(s) ==
    /\ wpc[s] = "select"
    /\ LET login == info[s][1]  password == info[s][2]  name == info[s][3]
           ok == Accepts(GoodUser(login, password), GoodFilesystem(name))
       IN  \/ /\ authenticated' = [authenticated EXCEPT ![s] = ok]
              /\ userid' = IF GoodUser(login, password)
                           THEN [userid EXCEPT ![s] = UidOf[login]] ELSE userid
              /\ filesystem_prefix' =
                    IF GoodFilesystem(name)
                    THEN [filesystem_prefix EXCEPT ![s] = FSPrefix[name]]
                    ELSE filesystem_prefix
              /\ Goto(s, "verdict")
           \/ /\ login \in DOMAIN UidOf /\ HashOf[login] = NoHash
              /\ Dies(s, "killed")
              /\ UNCHANGED <<authenticated, userid, filesystem_prefix>>
    /\ UNCHANGED <<tcpVars, kernelVars, info, mapVars, messageVars>>

\* AUTHORIZATION_OK and the request loop, or AUTHORIZATION_FAILED and the end.
send_verdict(s) ==
    /\ wpc[s] = "verdict"
    /\ \E outcome \in SendOutcomes(cend[s]) :
          /\ WorkerSend(s, Bare(IF authenticated[s] THEN "AUTHORIZATION_OK"
                                ELSE "AUTHORIZATION_FAILED"), outcome)
          /\ \/ outcome = "sent" /\ authenticated[s]  /\ Goto(s, "serve")
             \/ outcome = "sent" /\ ~authenticated[s] /\ Returns(s, "0")
             \/ outcome = "error"   /\ Returns(s, "-1")
             \/ outcome = "sigpipe" /\ Dies(s, "killed")
    /\ UNCHANGED <<kernelVars, sessionVars, mapVars, messageVars>>

-----------------------------------------------------------------------------
\* The two calls of seteuid; leaving user mode always succeeds, because RealUid
\* is the real user id of the process.  Mutant: the request is served as root.
stay_in_server_mode(s) == UNCHANGED euid
enter_user_mode(s) == euid' = [euid EXCEPT ![s] = userid[s]]
exit_user_mode(s)  == euid' = [euid EXCEPT ![s] = RealUid]

\* handle_requests: the next message, then enter_user_mode.
receive_request(s) ==
    /\ wpc[s] = "serve"
    /\ WorkerReceives(s)
    /\ \/ /\ ~Parseable(Head(c2s[s]))
          /\ Dies(s, "123")
          /\ UNCHANGED <<euid, request>>
       \/ /\ Parseable(Head(c2s[s])) /\ ~MaySetEuid(s, userid[s])
          /\ Returns(s, "-1")
          /\ UNCHANGED <<euid, request>>
       \/ /\ Parseable(Head(c2s[s])) /\ MaySetEuid(s, userid[s])
          /\ enter_user_mode(s)
          /\ request' = [request EXCEPT ![s] = Head(c2s[s])]
          /\ Goto(s, "handle")
    /\ UNCHANGED <<dir, content, fdt, sessionVars, mapVars, response>>

Handles(s, code) == wpc[s] = "handle" /\ request[s].code = code

\* The end of a handler that has its answer.
Answer(s, value, errno, data) ==
    /\ response' = [response EXCEPT ![s] =
          [code |-> ResultCode(request[s].code), value |-> value,
           errno |-> errno, data |-> data]]
    /\ Goto(s, "reply")
    /\ UNCHANGED <<tcpVars, sessionVars, request>>

\* The messages of one turn of the loop go out of scope at its end.
Forget(s) == /\ request'  = [request EXCEPT ![s] = NoMessage]
             /\ response' = [response EXCEPT ![s] = NoMessage]

\* The end of the request loop without an answer, back in server mode.
Abandon(s, code) ==
    /\ exit_user_mode(s)
    /\ Returns(s, code)
    /\ Forget(s)
    /\ UNCHANGED <<tcpVars, dir, content, fdt, sessionVars, mapVars>>

is_descriptor_in_map(s, cd) ==
    cd \in Descriptors /\ descriptor_map[s][cd] # NoFd
get_descriptor_from_map(s, cd) == descriptor_map[s][cd]

\* The prefix, '/' and the path of the client as it is: whether that stays below
\* the prefix is left to the system and its users' rights (README.md:473-477).
get_path_in_filesystem(s, path) == Resolved(filesystem_prefix[s], path)

\* Mutants: the entry is not made; next_descriptor is not incremented; a closed
\* descriptor is given out again.
add_no_entry(s, fd) ==
    /\ next_descriptor' = [next_descriptor EXCEPT ![s] = @ + 1]
    /\ UNCHANGED descriptor_map
add_without_increment(s, fd) ==
    /\ descriptor_map' = [descriptor_map EXCEPT ![s][next_descriptor[s]] = fd]
    /\ UNCHANGED next_descriptor
remove_and_reuse(s, cd) ==
    /\ descriptor_map' = [descriptor_map EXCEPT ![s][cd] = NoFd]
    /\ next_descriptor' = [next_descriptor EXCEPT ![s] = cd]
keep_entry(s, cd) == UNCHANGED <<descriptor_map, next_descriptor>>

add_descriptor_to_map(s, fd) ==
    /\ descriptor_map' = [descriptor_map EXCEPT ![s][next_descriptor[s]] = fd]
    /\ next_descriptor' = [next_descriptor EXCEPT ![s] = @ + 1]
remove_descriptor_from_map(s, cd) ==
    /\ descriptor_map' = [descriptor_map EXCEPT ![s][cd] = NoFd]
    /\ UNCHANGED next_descriptor

\* The functions of the map take an int, a request carries 64 bits.
ClientFd(s) == ToInt(request[s].fd)

\* The request names a mapped descriptor, and it is open with rights need.
Usable(s, need) ==
    /\ is_descriptor_in_map(s, ClientFd(s))
    /\ LET fd == get_descriptor_from_map(s, ClientFd(s))
       IN  IsFile(s, fd) /\ need \subseteq fdt[s][fd].rights

\* The descriptor the request stands for.
Target(s) == get_descriptor_from_map(s, ClientFd(s))

\* A read that comes off: there is memory for as much as it asks for.
Readable(s) == request[s].size <= MaxAlloc /\ Usable(s, {"RD"})

\* The answer to a request about a descriptor that is unmapped or unfit.
\* Mutant: errno_ keeps its initial value.
AnswerWithoutErrno(s) ==
    Answer(s, -1, "0", << >>) /\ UNCHANGED <<kernelVars, mapVars>>
AnswerEBADF(s) ==
    Answer(s, -1, "EBADF", << >>) /\ UNCHANGED <<kernelVars, mapVars>>

-----------------------------------------------------------------------------
\* The path of a request does not end in 0: no answer, and the session ends.
\* Otherwise a descriptor above 0 is put in the map; 0 itself is sent as it is.
\* ENFILE stands for the bound MaxDescriptor: a system-wide limit is hit.
handle_request_open(s) ==
    /\ Handles(s, "REQUEST_OPEN")
    /\ LET path  == get_path_in_filesystem(s, request[s].path)
           flags == request[s].oflag
           full  == next_descriptor[s] \notin Descriptors
       IN  \/ ~Terminated(request[s].path) /\ Abandon(s, "-1")
           \/ /\ Terminated(request[s].path)
              /\ \E e \in OpenErrors(s, path, flags)
                          \cup (IF full THEN {"ENFILE"} ELSE {}) :
                    Answer(s, -1, e, << >>)
              /\ UNCHANGED <<kernelVars, mapVars>>
           \/ /\ Terminated(request[s].path) /\ ~full
              /\ \E fd \in Fds :
                    /\ SysOpen(s, path, flags, fd)
                    /\ IF fd > 0
                       THEN /\ add_descriptor_to_map(s, fd)
                            /\ Answer(s, next_descriptor[s], "0", << >>)
                       ELSE /\ UNCHANGED mapVars
                            /\ Answer(s, fd, "stale", << >>)

handle_request_close(s) ==
    /\ Handles(s, "REQUEST_CLOSE")
    /\ \/ ~is_descriptor_in_map(s, ClientFd(s)) /\ AnswerEBADF(s)
       \/ /\ is_descriptor_in_map(s, ClientFd(s))
          /\ SysClose(s, {Target(s)})
          /\ remove_descriptor_from_map(s, ClientFd(s))
          /\ Answer(s, 0, "0", << >>)

\* operator new throws before the read, and nobody catches that.  A failed read
\* leaves data_size = -1, and SMSGResultRead::push_to_buffer then copies
\* 2^64 - 1 bytes from an empty buffer.  Either way the process is killed.
handle_request_read(s) ==
    /\ Handles(s, "REQUEST_READ")
    /\ \/ /\ ~Readable(s)
          /\ Dies(s, "killed")
          /\ UNCHANGED <<tcpVars, kernelVars, sessionVars, mapVars, messageVars>>
       \/ /\ Readable(s)
          /\ SysRead(s, Target(s), request[s].size)
          /\ LET data == ReadData(s, Target(s), request[s].size)
             IN  Answer(s, Len(data), "0", data)
          /\ UNCHANGED mapVars

handle_request_write(s) ==
    /\ Handles(s, "REQUEST_WRITE")
    /\ \/ ~Usable(s, {"WR"}) /\ AnswerEBADF(s)
       \/ /\ Usable(s, {"WR"})
          /\ LET n == WriteCount(s, Target(s), request[s].data)
             IN  IF n = 0 /\ request[s].data # << >>
                 THEN Answer(s, -1, "EFBIG", << >>) /\ UNCHANGED kernelVars
                 ELSE /\ SysWrite(s, Target(s), request[s].data)
                      /\ Answer(s, n, "0", << >>)
          /\ UNCHANGED mapVars

\* The new position is kept in an int, and errno is sent whenever it is not 0.
handle_request_lseek(s) ==
    /\ Handles(s, "REQUEST_LSEEK")
    /\ \/ ~Usable(s, {}) /\ AnswerEBADF(s)
       \/ /\ Usable(s, {})
          /\ LET pos == SeekTarget(s, Target(s), request[s].offset,
                                   request[s].whence)
             IN  IF pos \in 0..MaxOffset
                 THEN /\ SysLseek(s, Target(s), pos)
                      /\ Answer(s, ToInt(pos),
                                IF ToInt(pos) = 0 THEN "0" ELSE "stale", << >>)
                 ELSE Answer(s, -1, "EINVAL", << >>) /\ UNCHANGED kernelVars
          /\ UNCHANGED mapVars

handle_request_fstat(s) ==
    /\ Handles(s, "REQUEST_FSTAT")
    /\ \/ ~Usable(s, {}) /\ AnswerEBADF(s)
       \/ /\ Usable(s, {})
          /\ LET i == fdt[s][Target(s)].ino
             IN  Answer(s, 0, "0", <<i, Len(content[i])>>)
          /\ UNCHANGED <<kernelVars, mapVars>>

handle_request_unlink(s) ==
    /\ Handles(s, "REQUEST_UNLINK")
    /\ LET path == get_path_in_filesystem(s, request[s].path)
       IN  \/ ~Terminated(request[s].path) /\ Abandon(s, "-1")
           \/ /\ Terminated(request[s].path)
              /\ UNCHANGED mapVars
              /\ \/ /\ \E e \in UnlinkErrors(s, path) : Answer(s, -1, e, << >>)
                    /\ UNCHANGED kernelVars
                 \/ /\ UnlinkErrors(s, path) = {}
                    /\ SysUnlink(s, path)
                    /\ Answer(s, 0, "0", << >>)

\* flock(2) with the mode already held does nothing; otherwise the kernel first
\* gives up the lock that is held, and only then tries for the new one.
handle_request_flock(s) ==
    /\ Handles(s, "REQUEST_FLOCK")
    /\ \/ ~Usable(s, {}) /\ AnswerEBADF(s)
       \/ /\ Usable(s, {})
          /\ LET held == fdt[s][Target(s)].lock  mode == request[s].operation
             IN  \/ /\ mode = held \/ mode = "UN"
                    /\ SetLock(s, Target(s), mode)
                    /\ Answer(s, 0, "0", << >>)
                 \/ /\ mode # held /\ mode # "UN"
                    /\ SetLock(s, Target(s), "UN")
                    /\ Goto(s, "flock")
                    /\ UNCHANGED <<tcpVars, sessionVars, messageVars>>
          /\ UNCHANGED mapVars

\* ... which it gets once no other open file holds an incompatible lock, or
\* gives up at once when the call must not block.
flock_ends(s) ==
    /\ wpc[s] = "flock"
    /\ LET mode == request[s].operation
       IN  \/ /\ ~LockConflict(s, Target(s), mode)
              /\ SetLock(s, Target(s), mode)
              /\ Answer(s, 0, "0", << >>)
           \/ /\ LockConflict(s, Target(s), mode) /\ request[s].nb
              /\ Answer(s, -1, "EWOULDBLOCK", << >>)
              /\ UNCHANGED kernelVars
    /\ UNCHANGED mapVars

\* DISCONNECT ends the loop; so does a message that is not a request.  Mutant:
\* the branch of DISCONNECT does not return.
handle_disconnect(s) == Handles(s, "DISCONNECT") /\ Abandon(s, "0")
reject_disconnect_too(s) ==
    /\ wpc[s] = "handle"
    /\ request[s].code \notin RequestCodes
    /\ Abandon(s, "EBADMSG")
reject_message(s) ==
    /\ wpc[s] = "handle"
    /\ request[s].code \notin RequestCodes \cup {"DISCONNECT"}
    /\ Abandon(s, "EBADMSG")

\* The answer is sent in user mode, before exit_user_mode.
send_result(s) ==
    /\ wpc[s] = "reply"
    /\ \E outcome \in SendOutcomes(cend[s]) :
          /\ WorkerSend(s, response[s], outcome)
          /\ \/ outcome = "sent"    /\ Goto(s, "serve")     /\ exit_user_mode(s)
             \/ outcome = "error"   /\ Returns(s, "-1")     /\ exit_user_mode(s)
             \/ outcome = "sigpipe" /\ Dies(s, "killed")    /\ UNCHANGED euid
    /\ Forget(s)
    /\ UNCHANGED <<dir, content, fdt, sessionVars, mapVars>>

-----------------------------------------------------------------------------
\* ~NFSServerWorker closes what is still mapped; the map dies with the object.
destroy(s) ==
    /\ wpc[s] = "unwind"
    /\ SysClose(s, {descriptor_map[s][cd] : cd \in Descriptors})
    /\ descriptor_map' = [descriptor_map EXCEPT ![s] = EmptyMap]
    /\ Goto(s, "exit")
    /\ UNCHANGED <<tcpVars, sessionVars, next_descriptor, messageVars>>

\* exit(2), by call or by signal: the kernel closes every descriptor, and the
\* memory of the process is gone.
exit_process(s) ==
    /\ wpc[s] = "exit"
    /\ SysClose(s, Fds)
    /\ WorkerCloses(s)
    /\ Goto(s, "zombie")
    /\ descriptor_map' = [descriptor_map EXCEPT ![s] = EmptyMap]
    /\ Forget(s)
    /\ UNCHANGED <<sessionVars, next_descriptor>>

authenticate(s) == \/ ask_info(s) \/ receive_info(s) \/ select(s)
                   \/ send_verdict(s)

handle_request(s) ==
    \/ handle_request_open(s)  \/ handle_request_close(s)
    \/ handle_request_read(s)  \/ handle_request_write(s)
    \/ handle_request_lseek(s) \/ handle_request_fstat(s)
    \/ handle_request_unlink(s) \/ handle_request_flock(s) \/ flock_ends(s)
    \/ handle_disconnect(s) \/ reject_message(s)

WorkerStep(s) ==
    \/ authenticate(s)
    \/ receive_request(s) \/ handle_request(s) \/ send_result(s)
    \/ receive_fails(s) \/ destroy(s) \/ exit_process(s)
=============================================================================
