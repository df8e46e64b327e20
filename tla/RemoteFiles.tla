---------------------------- MODULE RemoteFiles ----------------------------
(***************************************************************************)
(* What the library and the server promise together: "the interface of the *)
(* functions, their behaviour and the values they return are identical to  *)
(* the standard implementation" (README.md:445).  Each client is like a    *)
(* local process of the server's system, logged in as its user, whose      *)
(* calls are the system calls of UnixKernel.tla: here Sessions names the   *)
(* clients, fdt holds their client descriptors and euid their users.       *)
(***************************************************************************)
EXTENDS UnixKernel

CONSTANTS
    Users,          \* the <<user id, directory>> that a login can give
    Calls           \* the calls applications make

VARIABLES
    session,        \* "none", "on", or "over": lost, or ended
    root,           \* the directory in which the paths of a client start
    job,            \* the call the system has of a client, or its answer
    waiting,        \* the call a client waits for
    ret, errno,     \* what the last call of a client has returned
    ended           \* whether the client is gone

apiVars == <<session, root, job, waiting, ret, errno, ended>>
remoteVars == <<kernelVars, apiVars>>

NoCall == [code |-> "NONE"]
Idle   == [phase |-> "idle"]
At(phase, r)   == [phase |-> phase, request |-> r]
Done(v, e, d)  == [phase |-> "done", value |-> v, errno |-> e, data |-> d]
Returned(r, v, d) == [code |-> r.code, request |-> r, value |-> v, data |-> d]

RemoteInit ==
    /\ KernelInit
    /\ session = [c \in Sessions |-> "none"]
    /\ root = [c \in Sessions |-> ""]
    /\ job = [c \in Sessions |-> Idle]
    /\ waiting = [c \in Sessions |-> NoCall]
    /\ ret = [c \in Sessions |-> NoCall]
    /\ errno = [c \in Sessions |-> "0"]
    /\ ended = [c \in Sessions |-> FALSE]

-----------------------------------------------------------------------------
(* The application's side of a call.                                       *)

LogIn(c, user) ==
    /\ session[c] = "none" /\ ~ended[c] /\ waiting[c] = NoCall
    /\ session' = [session EXCEPT ![c] = "on"]
    /\ euid' = [euid EXCEPT ![c] = user[1]]
    /\ root' = [root EXCEPT ![c] = user[2]]
    /\ ret' = [ret EXCEPT ![c] = NoCall]
    /\ UNCHANGED <<dir, content, fdt, job, waiting, errno, ended>>

Call(c, r) ==
    /\ session[c] # "none" /\ ~ended[c] /\ waiting[c] = NoCall
    /\ waiting' = [waiting EXCEPT ![c] = r]
    /\ job' = IF session[c] = "on" THEN [job EXCEPT ![c] = At("pending", r)]
              ELSE job
    /\ UNCHANGED <<kernelVars, session, root, ret, errno, ended>>

Return(c, r, value, data) ==
    /\ ~ended[c]
    /\ ret' = [ret EXCEPT ![c] = Returned(r, value, data)]
    /\ waiting' = [waiting EXCEPT ![c] = NoCall]
    /\ UNCHANGED <<kernelVars, session, root, ended>>

\* The answer comes back, with errno if it is a failure.
ReturnsAnswer(c) ==
    /\ waiting[c] # NoCall /\ job[c].phase = "done"
    /\ Return(c, waiting[c], job[c].value, job[c].data)
    /\ errno' = IF job[c].value < 0 THEN [errno EXCEPT ![c] = job[c].errno]
                ELSE errno
    /\ job' = [job EXCEPT ![c] = Idle]

\* Without a session there is no answer.
ReturnsFailure(c, r) ==
    /\ \/ session[c] = "none" /\ errno' = [errno EXCEPT ![c] = "EACCES"]
       \/ /\ session[c] = "over" /\ waiting[c] \in {NoCall, r}
          /\ \E e \in {"EHOSTUNREACH", "EBADMSG"} :
                errno' = [errno EXCEPT ![c] = e]
    /\ Return(c, r, -1, << >>)
    /\ UNCHANGED job

\* connect returns without a session, or the application ends.
Forgets(c) ==
    /\ waiting[c] = NoCall
    /\ ret' = [ret EXCEPT ![c] = NoCall]
    /\ UNCHANGED <<kernelVars, session, root, job, waiting, errno, ended>>
Ends(c) ==
    /\ ended' = [ended EXCEPT ![c] = TRUE]
    /\ waiting' = [waiting EXCEPT ![c] = NoCall]
    /\ ret' = [ret EXCEPT ![c] = NoCall]
    /\ UNCHANGED <<kernelVars, session, root, job, errno>>

-----------------------------------------------------------------------------
(* The system's side: each call takes effect in one step, flock in two.    *)

Pending(c, code) ==
    /\ session[c] = "on"
    /\ job[c].phase = "pending" /\ job[c].request.code = code

Answers(c, value, e, data) ==
    /\ job' = [job EXCEPT ![c] = Done(value, e, data)]
    /\ UNCHANGED <<session, root, waiting, ret, errno, ended>>
Fails(c, e) == Answers(c, -1, e, << >>) /\ UNCHANGED kernelVars

Arg(c)   == job[c].request
Where(c) == Resolved(root[c], Arg(c).path)
Fit(c, need) == /\ Arg(c).fd \in Fds /\ IsFile(c, Arg(c).fd)
                /\ need \subseteq fdt[c][Arg(c).fd].rights

\* A descriptor is any number but 0 that is not in use; the system may be short
\* of them.
Open(c) ==
    /\ Pending(c, "REQUEST_OPEN")
    /\ \/ \E e \in OpenErrors(c, Where(c), Arg(c).oflag)
                   \cup {"EMFILE", "ENFILE"} : Fails(c, e)
       \/ /\ OpenErrors(c, Where(c), Arg(c).oflag) = {}
          /\ \E fd \in Fds \ {0} :
                /\ IsFree(c, fd)
                /\ OpenAt(c, Where(c), Arg(c).oflag, fd)
                /\ Answers(c, fd, "0", << >>)

Close(c) ==
    /\ Pending(c, "REQUEST_CLOSE")
    /\ \/ ~Fit(c, {}) /\ Fails(c, "EBADF")
       \/ Fit(c, {}) /\ SysClose(c, {Arg(c).fd}) /\ Answers(c, 0, "0", << >>)

Read(c) ==
    /\ Pending(c, "REQUEST_READ") /\ Fit(c, {"RD"})
    /\ SysRead(c, Arg(c).fd, Arg(c).size)
    /\ LET data == ReadData(c, Arg(c).fd, Arg(c).size)
       IN  Answers(c, Len(data), "0", data)

Write(c) ==
    /\ Pending(c, "REQUEST_WRITE")
    /\ \/ ~Fit(c, {"WR"}) /\ Fails(c, "EBADF")
       \/ /\ Fit(c, {"WR"})
          /\ LET n == WriteCount(c, Arg(c).fd, Arg(c).data)
             IN  \/ n = 0 /\ Arg(c).data # << >> /\ Fails(c, "EFBIG")
                 \/ /\ n > 0 \/ Arg(c).data = << >>
                    /\ SysWrite(c, Arg(c).fd, Arg(c).data)
                    /\ Answers(c, n, "0", << >>)

\* Mutant: every position is taken for one from the start.
TargetFromStart(c) == Arg(c).offset
Target(c) == SeekTarget(c, Arg(c).fd, Arg(c).offset, Arg(c).whence)

Lseek(c) ==
    /\ Pending(c, "REQUEST_LSEEK")
    /\ \/ ~Fit(c, {}) /\ Fails(c, "EBADF")
       \/ /\ Fit(c, {})
          /\ \/ Target(c) \notin 0..MaxOffset /\ Fails(c, "EINVAL")
             \/ /\ Target(c) \in 0..MaxOffset
                /\ SysLseek(c, Arg(c).fd, Target(c))
                /\ Answers(c, Target(c), "0", << >>)

Fstat(c) ==
    /\ Pending(c, "REQUEST_FSTAT")
    /\ \/ ~Fit(c, {}) /\ Fails(c, "EBADF")
       \/ /\ Fit(c, {})
          /\ LET i == fdt[c][Arg(c).fd].ino
             IN  Answers(c, 0, "0", <<i, Len(content[i])>>)
          /\ UNCHANGED kernelVars

Unlink(c) ==
    /\ Pending(c, "REQUEST_UNLINK")
    /\ \/ \E e \in UnlinkErrors(c, Where(c)) : Fails(c, e)
       \/ /\ UnlinkErrors(c, Where(c)) = {}
          /\ SysUnlink(c, Where(c)) /\ Answers(c, 0, "0", << >>)

Flock(c) ==
    /\ Pending(c, "REQUEST_FLOCK")
    /\ \/ ~Fit(c, {}) /\ Fails(c, "EBADF")
       \/ /\ Fit(c, {})
          /\ LET held == fdt[c][Arg(c).fd].lock  mode == Arg(c).operation
             IN  \/ /\ mode \in {held, "UN"}
                    /\ SetLock(c, Arg(c).fd, mode) /\ Answers(c, 0, "0", << >>)
                 \/ /\ mode \notin {held, "UN"}
                    /\ SetLock(c, Arg(c).fd, "UN")
                    /\ job' = [job EXCEPT ![c] = At("locking", Arg(c))]
                    /\ UNCHANGED <<session, root, waiting, ret, errno, ended>>
FlockEnds(c) ==
    /\ session[c] = "on" /\ job[c].phase = "locking"
    /\ LET mode == Arg(c).operation
       IN  \/ /\ ~LockConflict(c, Arg(c).fd, mode)
              /\ SetLock(c, Arg(c).fd, mode) /\ Answers(c, 0, "0", << >>)
           \/ /\ LockConflict(c, Arg(c).fd, mode) /\ Arg(c).nb
              /\ Fails(c, "EWOULDBLOCK")

Executes(c) ==
    \/ Open(c) \/ Close(c) \/ Read(c) \/ Write(c) \/ Lseek(c) \/ Fstat(c)
    \/ Unlink(c) \/ Flock(c) \/ FlockEnds(c)

\* A session ends when the client is gone, or, unlike anything a local process
\* can meet, at a read that should only have failed.
SessionEnds(c) ==
    /\ session[c] = "on"
    /\ ended[c] \/ (Pending(c, "REQUEST_READ") /\ ~Fit(c, {"RD"}))
    /\ session' = [session EXCEPT ![c] = "over"]
    /\ job' = [job EXCEPT ![c] = Idle]
    /\ UNCHANGED <<kernelVars, root, waiting, ret, errno, ended>>

\* What a client leaves open is closed, and an answer for it is dropped.
Releases(c) ==
    /\ session[c] = "over"
    /\ SysClose(c, Fds)
    /\ UNCHANGED apiVars
Drops(c) ==
    /\ ended[c] /\ job[c].phase = "done"
    /\ job' = [job EXCEPT ![c] = Idle]
    /\ UNCHANGED <<kernelVars, session, root, waiting, ret, errno, ended>>

ClientActs(c) ==
    \/ \E user \in Users : LogIn(c, user)
    \/ \E r \in Calls : Call(c, r) \/ ReturnsFailure(c, r)
    \/ ReturnsAnswer(c) \/ Forgets(c) \/ Ends(c)

SystemActs(c) == Executes(c) \/ SessionEnds(c) \/ Releases(c) \/ Drops(c)

RemoteNext == \E c \in Sessions : ClientActs(c) \/ SystemActs(c)

RemoteSpec == RemoteInit /\ [][RemoteNext]_remoteVars
=============================================================================
