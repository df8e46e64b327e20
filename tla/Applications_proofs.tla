------------------------- MODULE Applications_proofs -------------------------
(***************************************************************************)
(* Proofs about the programs of Applications.tla, for every number of      *)
(* clients, files, descriptors and commands.  What each program knows of   *)
(* its file is said by the number of calls of its command that have taken  *)
(* effect (Taken), whether or not their answers have come back.            *)
(***************************************************************************)
EXTENDS Applications, UnixKernel_proofs

-----------------------------------------------------------------------------
(* The invariants.                                                         *)

\* A function of the clients.
OfClients(f) == f = [c \in Sessions |-> f[c]]

\* The types.
RemoteOK ==
    /\ session \in [Sessions -> {"none", "on", "over"}]
    /\ ended \in [Sessions -> BOOLEAN]
    /\ OfClients(root) /\ OfClients(job) /\ OfClients(waiting) /\ OfClients(ret)
    /\ OfClients(errno)
ProgramsOK ==
    /\ app \in Scenarios /\ OfClients(task) /\ saved \in [Sessions -> Seq(Nat)]
    /\ stage \in [Sessions -> {"connect", "menu", "work", "closing", "leaving", "off"}]
    /\ at \in [Sessions -> Nat] /\ left \in [Sessions -> 0..MaxTasks]
    /\ fd \in [Sessions -> -1..MaxFd] /\ size \in [Sessions -> -1..MaxOffset]
    /\ buffer \in [Sessions -> Seq(Nat)] /\ result \in [Sessions -> Int]
    /\ undisturbed \in [Sessions -> BOOLEAN]
VariablesOK == KernelTypeOK /\ RemoteOK /\ ProgramsOK

\* An open file has an inode.
FilesAt(c) == \A g \in Fds : IsFile(c, g) => fdt[c][g].ino \in Inodes

\* Where a program is in its life.
StageAt(c) ==
    /\ stage[c] = "connect" =>
           session[c] = "none" /\ at[c] = 1 /\ result[c] = 0 /\ task[c] = NoTask
    /\ stage[c] \notin {"connect", "off"} => session[c] # "none"
    /\ session[c] # "none" => root[c] \in Dirs
    /\ ended[c] <=> stage[c] = "off"
    /\ stage[c] = "work" =>
           /\ task[c] \in app[c].tasks
           /\ at[c] \in 1..Len(CallsOf(task[c], fd[c], size[c]))
           /\ task[c].kind = "download" /\ at[c] > 2 => size[c] \in Nat

\* The call that it makes, and what has become of it.
Calling(c) == IF stage[c] = "closing" THEN close_(fd[c]) ELSE NextCall(c)

\* An answer that waits is of the type that its call returns.
AnswerAt(c) ==
    /\ job[c] = Done(job[c].value, job[c].errno, job[c].data)
    /\ job[c].value \in Int /\ job[c].data \in Seq(Nat)
    /\ waiting[c].code = "REQUEST_OPEN" => job[c].value \in -1..MaxFd /\ job[c].value # 0
    /\ waiting[c].code = "REQUEST_LSEEK" => job[c].value \in -1..MaxOffset

\* The call of a program: none, lost with the session, pending, waiting for a lock, answered.
JobAt(c) ==
    \/ waiting[c] = NoCall /\ job[c] = Idle
    \/ /\ waiting[c] # NoCall /\ waiting[c] = Calling(c)
       /\ stage[c] \in {"work", "closing"}
       /\ \/ session[c] = "over" /\ job[c] = Idle
          \/ session[c] = "on" /\ job[c] = At("pending", waiting[c])
          \/ /\ session[c] = "on" /\ job[c] = At("locking", waiting[c])
             /\ waiting[c].code = "REQUEST_FLOCK" /\ Fit(c, {})
          \/ session[c] = "on" /\ AnswerAt(c)

ClientAt(c) == FilesAt(c) /\ StageAt(c) /\ JobAt(c)
ControlInv == VariablesOK /\ \A c \in Sessions : ClientAt(c)

-----------------------------------------------------------------------------
\* How many calls of its command have taken effect.
Answered(c) == job[c].phase = "done" /\ job[c].value >= 0
Refused(c)  == job[c].phase = "done" /\ job[c].value < 0
Taken(c) ==
    IF stage[c] = "work" THEN IF Answered(c) THEN at[c] ELSE at[c] - 1
    ELSE IF result[c] = -1 THEN at[c] - 1 ELSE at[c]

\* The descriptor that the last open has given it.
Current(c) ==
    IF stage[c] = "work" /\ Answered(c) /\ waiting[c].code = "REQUEST_OPEN"
    THEN job[c].value ELSE fd[c]

\* The open whose descriptor is still in use after n calls of a command.
SharedOpen(t) == open_(t.shared, {"WR", "CREAT", "APPEND"})
Opened(t, n) ==
    IF \/ t.kind = "download" /\ n \in 1..4
       \/ t.kind = "client1" /\ n \in {4, 5, 7, 8, 10, 11}
    THEN open_(t.file, {"RD"})
    ELSE IF t.kind \in {"send", "client1"} /\ n \in 1..2 THEN open_(t.file, {"WR", "CREAT"})
    ELSE IF \/ t.kind = "client1" /\ n \in 14..18
            \/ t.kind = "client2" /\ n \in 1..4
    THEN SharedOpen(t)
    ELSE NoCall

\* That descriptor names a file which has been opened so.
OpenAs(c, g, o) ==
    /\ g \in Fds \ {0} /\ IsFile(c, g)
    /\ fdt[c][g].path = Resolved(root[c], o.path)
    /\ fdt[c][g].rights = o.oflag \cap {"RD", "WR"}
    /\ fdt[c][g].append = ("APPEND" \in o.oflag)
SlotAt(c) ==
    stage[c] = "work" /\ Opened(task[c], Taken(c)) # NoCall =>
        session[c] = "on" /\ OpenAs(c, Current(c), Opened(task[c], Taken(c)))

\* A file keeps its name while the program has it open and nobody disturbs it.
NameAt(c) ==
    stage[c] = "work" /\ Opened(task[c], Taken(c)) # NoCall
        /\ (undisturbed[c] \/ app[c].kind = "test") =>
            fdt[c][Current(c)].ino = dir[Resolved(root[c], Opened(task[c], Taken(c)).path)]

SlotsInv == \A c \in Sessions : SlotAt(c) /\ NameAt(c)

-----------------------------------------------------------------------------
Position(c) == fdt[c][Current(c)].pos

\* A download, while nobody else changes a file.
SizeOf(c) == IF Answered(c) /\ at[c] = 2 THEN job[c].value ELSE size[c]
BufferOf(c) == IF Answered(c) /\ at[c] = 4 THEN job[c].data ELSE buffer[c]
DownloadAt(c) ==
    stage[c] = "work" /\ task[c].kind = "download" /\ undisturbed[c] =>
        /\ Taken(c) \in 2..3 => SizeOf(c) = Len(Bytes(c, task[c].file))
        /\ Taken(c) = 3 => Position(c) = 0
        /\ Taken(c) \in 4..5 => BufferOf(c) = Bytes(c, task[c].file)

\* A file that is sent, while nobody else changes a file.
ResultOf(c) == IF Answered(c) /\ at[c] = 2 THEN job[c].value ELSE result[c]
SendAt(c) ==
    stage[c] = "work" /\ task[c].kind = "send" /\ undisturbed[c] =>
        /\ Taken(c) = 1 => Position(c) = 0
        /\ Taken(c) \in 2..3 =>
               /\ ResultOf(c) \in Nat
               /\ SubSeq(Bytes(c, task[c].file), 1, ResultOf(c))
                      = SubSeq(task[c].data, 1, ResultOf(c))

\* What it comes to in the end (DownloadIsComplete, SentBytesAreStored).
DoneAt(c) ==
    /\ HasDone(c, "download") => saved[c] = Bytes(c, task[c].file)
    /\ HasDone(c, "send") =>
           SubSeq(Bytes(c, task[c].file), 1, result[c]) = SubSeq(task[c].data, 1, result[c])

CopyAt(c)  == DownloadAt(c) /\ SendAt(c) /\ DoneAt(c)
CopiesInv == \A c \in Sessions : CopyAt(c)

-----------------------------------------------------------------------------
(* The acceptance test.                                                    *)

\* How many of its calls have taken effect since it has begun.
Steps(c) == IF left[c] > 0 THEN 0 ELSE Taken(c)
Named(D, s) == dir[Resolved(D, s)] # NoInode
In(D, s) == content[dir[Resolved(D, s)]]

\* No inode has two names.
UniqueNames == \A p, q \in Paths : dir[p] = dir[q] /\ dir[p] # NoInode => p = q

\* A program works on a command of its own, and a byte is written or not.
TaskAt(c) ==
    /\ task[c] = NoTask \/ (task[c] \in app[c].tasks /\ session[c] # "none")
    /\ app[c].kind = "test" => left[c] \in 0..1 /\ (stage[c] = "work" => left[c] = 0)
    /\ session[c] = "none" => at[c] = 1
ByteAt(c) ==
    stage[c] = "work" /\ Answered(c) /\ waiting[c].code = "REQUEST_WRITE"
        /\ Len(waiting[c].data) = 1 => job[c].value = 1

\* What the bytes of the shared file may be when client 1 has taken n steps and
\* client 2 m; w: client 1 has not failed so far.
Holds(b, n, m, w) ==
    /\ n < 16 => b \in {<< >>, <<2>>}
    /\ m < 3 => b \in {<< >>, <<1>>, <<1, 1>>}
    /\ n = 16 => b \in {<<1>>, <<2, 1>>} /\ (w \/ Len(b) >= MaxOffset)
    /\ n > 16 => b \in {<<1, 1>>, <<2, 1, 1>>, <<1, 1, 2>>}

\* They count where the client works in that directory.
StepsIn(c, D) == IF D = root[c] THEN Steps(c) ELSE 0
Writing(c) == stage[c] = "work" /\ ~Refused(c)
SharedAt(c, d, D, s) ==
    Named(D, s) => Holds(In(D, s), StepsIn(c, D), StepsIn(d, D), Writing(c))

\* While they write they have the lock.
HasLock(c) == fdt[c][Current(c)].lock = "EX"
PairAt(c, d, s) ==
    /\ Steps(c) >= 14 => Named(root[c], s)
    /\ stage[c] = "work" /\ Steps(c) \in 15..16 => HasLock(c)
    /\ stage[d] = "work" /\ Steps(d) = 2 => HasLock(d)
    /\ \A D \in Dirs : SharedAt(c, d, D, s)

\* The invariant of the acceptance test.
TestInv ==
    /\ \A c \in Sessions : TaskAt(c) /\ ByteAt(c)
    /\ \A c, d \in Sessions : \A t \in app[c].tasks, u \in app[d].tasks :
           IsTest(app, c, d, t, u) => PairAt(c, d, t.shared)

\* With the invariants that it rests on.
LocksTogether == ControlInv /\ SlotsInv /\ LocksInv /\ UniqueNames /\ TestInv

\* What a name leads to is a path.
LEMMA NamesArePaths ==
    ASSUME NEW D \in Dirs, NEW s \in Strings
    PROVE  Resolved(D, s) \in Paths
BY KernelAssumption DEF Resolved, Paths

-----------------------------------------------------------------------------
(* The calls of a command.                                                 *)

\* Everything that a program may have to do.
Tasks == DownloadTasks \cup SendTasks \cup CommandTasks \cup Client1Tasks \cup Client2Tasks

\* A call that the library can be given.
GoodCall(r) ==
    /\ r.code \in RequestCodes
    /\ r.code = "REQUEST_OPEN" => r.path \in Strings /\ r.oflag \in OFlags
    /\ r.code = "REQUEST_READ" => r.size \in Int
    /\ r.code = "REQUEST_WRITE" => r.data \in Seq(Nat)
    /\ r.code = "REQUEST_LSEEK" => r.offset \in Int
    /\ r.code = "REQUEST_UNLINK" => r.path \in Strings
    /\ r.code = "REQUEST_FLOCK" => r.operation \in LockModes

\* The calls of a download (NFSUserApp.cpp:258-294).
LEMMA DownloadCalls ==
    ASSUME NEW t, NEW d, NEW n, t.kind = "download"
    PROVE  /\ Len(CallsOf(t, d, n)) = 5
           /\ CallsOf(t, d, n)[1] = open_(t.file, {"RD"})
           /\ CallsOf(t, d, n)[2] = lseek_(d, 0, "END")
           /\ CallsOf(t, d, n)[3] = lseek_(d, 0, "SET")
           /\ CallsOf(t, d, n)[4] = read_(d, n)
           /\ CallsOf(t, d, n)[5] = close_(d)
BY DEF CallsOf, downloadFile

\* The calls that send a file (NFSUserApp.cpp:314-335).
LEMMA SendCalls ==
    ASSUME NEW t, NEW d, NEW n, t.kind = "send"
    PROVE  /\ Len(CallsOf(t, d, n)) = 3
           /\ CallsOf(t, d, n)[1] = open_(t.file, {"WR", "CREAT"})
           /\ CallsOf(t, d, n)[2] = write_(d, t.data)
           /\ CallsOf(t, d, n)[3] = close_(d)
BY DEF CallsOf, sendFile

\* The calls of the second client of the test (acceptance_test.cpp:291-334).
LEMMA Client2Calls ==
    ASSUME NEW t, NEW d, NEW n, t.kind = "client2"
    PROVE  /\ Len(CallsOf(t, d, n)) = 5
           /\ CallsOf(t, d, n)[1] = SharedOpen(t)
           /\ CallsOf(t, d, n)[2] = flock_(d, "EX")
           /\ CallsOf(t, d, n)[3] = write_(d, <<2>>)
           /\ CallsOf(t, d, n)[4] = flock_(d, "UN")
           /\ CallsOf(t, d, n)[5] = close_(d)
BY DEF CallsOf, client2_test, SharedOpen

\* The calls of its first client (acceptance_test.cpp:43-289).
LEMMA Client1Calls ==
    ASSUME NEW t, NEW d, NEW n, t.kind = "client1"
    PROVE  /\ Len(CallsOf(t, d, n)) = 22
           /\ CallsOf(t, d, n)[1] = open_(t.file, {"WR", "CREAT"})
           /\ CallsOf(t, d, n)[2] = write_(d, t.data)
           /\ CallsOf(t, d, n)[4] = open_(t.file, {"RD"})
           /\ CallsOf(t, d, n)[7] = open_(t.file, {"RD"})
           /\ CallsOf(t, d, n)[10] = open_(t.file, {"RD"})
           /\ CallsOf(t, d, n)[3] = close_(d)
           /\ CallsOf(t, d, n)[6] = close_(d)
           /\ CallsOf(t, d, n)[9] = close_(d)
           /\ CallsOf(t, d, n)[12] = close_(d)
           /\ CallsOf(t, d, n)[19] = close_(d)
           /\ CallsOf(t, d, n)[22] = close_(d)
           /\ CallsOf(t, d, n)[5] = read_(d, Len(t.data))
           /\ CallsOf(t, d, n)[8] = lseek_(d, 0, "END")
           /\ CallsOf(t, d, n)[11] = fstat_(d)
           /\ CallsOf(t, d, n)[13] = unlink_(t.file)
           /\ CallsOf(t, d, n)[14] = SharedOpen(t)
           /\ CallsOf(t, d, n)[15] = flock_(d, "EX")
           /\ CallsOf(t, d, n)[16] = write_(d, <<1>>)
           /\ CallsOf(t, d, n)[17] = write_(d, <<1>>)
           /\ CallsOf(t, d, n)[18] = flock_(d, "UN")
           /\ CallsOf(t, d, n)[20] = open_(t.shared, {"RD"})
           /\ CallsOf(t, d, n)[21] = read_(d, 4)
BY DEF CallsOf, client1_test, SharedOpen

\* The one call of a command (NFSUserApp.cpp:192-256).
LEMMA CommandCalls ==
    ASSUME NEW t \in CommandTasks, NEW d \in Int, NEW n
    PROVE  Len(CallsOf(t, d, n)) = 1 /\ GoodCall(CallsOf(t, d, n)[1])
<1> DEFINE r == IF "fd" \in DOMAIN t.call THEN [t.call EXCEPT !.fd = d] ELSE t.call
<1>1. t.kind = "command" /\ t.call \in Request /\ ("path" \in DOMAIN t.call => t.call.path \in Strings)
  BY DEF CommandTasks
<1>2. CallsOf(t, d, n) = <<r>>
  BY <1>1 DEF CallsOf, Command
<1>3. GoodCall(r)
  <2>1. CASE t.call \in CMSGRequestOpen
    BY <1>1, <2>1 DEF CMSGRequestOpen, GoodCall, RequestCodes
  <2>2. CASE t.call \in CMSGRequestUnlink
    BY <1>1, <2>2 DEF CMSGRequestUnlink, GoodCall, RequestCodes
  <2>3. CASE t.call \in CMSGRequestClose
    BY <1>1, <2>3 DEF CMSGRequestClose, GoodCall, RequestCodes
  <2>4. CASE t.call \in CMSGRequestFstat
    BY <1>1, <2>4 DEF CMSGRequestFstat, GoodCall, RequestCodes
  <2>5. CASE t.call \in CMSGRequestRead
    BY <1>1, <2>5 DEF CMSGRequestRead, GoodCall, RequestCodes
  <2>6. CASE t.call \in CMSGRequestWrite
    BY <1>1, <2>6 DEF CMSGRequestWrite, GoodCall, RequestCodes
  <2>7. CASE t.call \in CMSGRequestLseek
    BY <1>1, <2>7 DEF CMSGRequestLseek, GoodCall, RequestCodes
  <2>8. CASE t.call \in CMSGRequestFlock
    BY <1>1, <2>8 DEF CMSGRequestFlock, GoodCall, RequestCodes
  <2> QED BY <1>1, <2>1, <2>2, <2>3, <2>4, <2>5, <2>6, <2>7, <2>8 DEF Request
<1> QED
  <2> HIDE DEF r
  <2> QED BY <1>2, <1>3

\* The calls that the programs make themselves are well formed.
LEMMA OwnCallsGood ==
    /\ \A p \in Strings :
           /\ GoodCall(open_(p, {"RD"})) /\ GoodCall(open_(p, {"WR", "CREAT"}))
           /\ GoodCall(open_(p, {"WR", "CREAT", "APPEND"})) /\ GoodCall(unlink_(p))
    /\ \A d : GoodCall(close_(d)) /\ GoodCall(fstat_(d))
    /\ \A d : \A n \in Int : GoodCall(read_(d, n))
    /\ \A d : \A bytes \in Seq(Nat) : GoodCall(write_(d, bytes))
    /\ \A d, w : \A n \in Int : GoodCall(lseek_(d, n, w))
    /\ \A d : \A mode \in LockModes : GoodCall(flock_(d, mode))
<1>1. /\ {"RD"} \in OFlags /\ {"WR", "CREAT"} \in OFlags
      /\ {"WR", "CREAT", "APPEND"} \in OFlags
  BY DEF OFlags
<1> QED BY <1>1 DEF open_, close_, read_, write_, lseek_, fstat_, unlink_, flock_,
                    GoodCall, RequestCodes

\* What a call does to the descriptor in use: an open gives it, a close ends it,
\* and every other call is made on it.
FitsIn(r, t, k, d) ==
    /\ GoodCall(r)
    /\ r.code = "REQUEST_OPEN" => Opened(t, k) \in {r, NoCall}
    /\ r.code # "REQUEST_OPEN" /\ Opened(t, k) # NoCall =>
           Opened(t, k) = Opened(t, k - 1) /\ r.code # "REQUEST_CLOSE"
    /\ Opened(t, k - 1) # NoCall =>
           /\ r.code \notin {"REQUEST_OPEN", "REQUEST_UNLINK"} /\ r.fd = d
           /\ r.code = "REQUEST_READ" => Opened(t, k - 1).oflag = {"RD"}
           /\ r.code = "REQUEST_WRITE" => "WR" \in Opened(t, k - 1).oflag
    /\ r.code = "REQUEST_UNLINK" =>
           t.kind = "command" \/ (t.kind = "client1" /\ k = 13 /\ r.path = t.file)

\* No descriptor is in use where a command begins.
LEMMA NoneOpened ==
    ASSUME NEW t
    PROVE  Opened(t, 0) = NoCall
BY DEF Opened

\* What has been opened has a name.
LEMMA OpenedPath ==
    ASSUME NEW t \in Tasks, NEW n, Opened(t, n) # NoCall
    PROVE  Opened(t, n).path \in Strings
<1>1. t.kind \in {"download", "send", "client1"} => t.file \in Strings
  BY DEF Tasks, DownloadTasks, SendTasks, CommandTasks, Client1Tasks, Client2Tasks
<1>2. t.kind \in {"client1", "client2"} => t.shared \in Strings
  BY DEF Tasks, DownloadTasks, SendTasks, CommandTasks, Client1Tasks, Client2Tasks
<1> QED BY <1>1, <1>2 DEF Opened, SharedOpen, open_

\* An open is no missing call.
LEMMA OpensAreCalls ==
    ASSUME NEW p, NEW flags
    PROVE  open_(p, flags) # NoCall
BY DEF open_, NoCall

\* Every call of every command fits in so.
LEMMA CallsFit ==
    ASSUME NEW t \in Tasks, NEW d \in Int, NEW n \in Int,
           NEW k \in 1..Len(CallsOf(t, d, n))
    PROVE  FitsIn(CallsOf(t, d, n)[k], t, k, d)
<1> PICK r : r = CallsOf(t, d, n)[k]
  OBVIOUS
<1> SUFFICES FitsIn(r, t, k, d)
  OBVIOUS
<1>1. <<1>> \in Seq(Nat) /\ <<2>> \in Seq(Nat) /\ "EX" \in LockModes /\ "UN" \in LockModes
  BY DEF LockModes
<1>2. CASE t \in DownloadTasks
  <2>1. t.kind = "download" /\ t.file \in Strings
    BY <1>2 DEF DownloadTasks
  <2>2. k \in 1..5
    BY <2>1, DownloadCalls
  <2>3. CASE k = 1
    <3>1. r = open_(t.file, {"RD"})
      BY <2>1, <2>3, DownloadCalls
    <3>2. GoodCall(r)
      BY <1>1, <2>1, <3>1, OwnCallsGood
    <3>3. r.code = "REQUEST_OPEN"
      BY <3>1 DEF open_, SharedOpen
    <3> QED BY <2>1, <2>3, <3>1, <3>2, <3>3 DEF FitsIn, Opened
  <2>4. CASE k = 2
    <3>1. r = lseek_(d, 0, "END")
      BY <2>1, <2>4, DownloadCalls
    <3>2. GoodCall(r)
      BY <1>1, <2>1, <3>1, OwnCallsGood
    <3> QED BY <2>1, <2>4, <3>1, <3>2 DEF FitsIn, Opened, NoCall, SharedOpen, lseek_, open_
  <2>5. CASE k = 3
    <3>1. r = lseek_(d, 0, "SET")
      BY <2>1, <2>5, DownloadCalls
    <3>2. GoodCall(r)
      BY <1>1, <2>1, <3>1, OwnCallsGood
    <3> QED BY <2>1, <2>5, <3>1, <3>2 DEF FitsIn, Opened, NoCall, SharedOpen, lseek_, open_
  <2>6. CASE k = 4
    <3>1. r = read_(d, n)
      BY <2>1, <2>6, DownloadCalls
    <3>2. GoodCall(r)
      BY <1>1, <2>1, <3>1, OwnCallsGood
    <3> QED BY <2>1, <2>6, <3>1, <3>2 DEF FitsIn, Opened, NoCall, SharedOpen, open_, read_
  <2>7. CASE k = 5
    <3>1. r = close_(d)
      BY <2>1, <2>7, DownloadCalls
    <3>2. GoodCall(r)
      BY <1>1, <2>1, <3>1, OwnCallsGood
    <3> QED BY <2>1, <2>7, <3>1, <3>2 DEF FitsIn, Opened, NoCall, SharedOpen, close_, open_
  <2> QED BY <2>2, <2>3, <2>4, <2>5, <2>6, <2>7
<1>3. CASE t \in SendTasks
  <2>1. t.kind = "send" /\ t.file \in Strings /\ t.data \in Seq(Nat)
    BY <1>3 DEF SendTasks
  <2>2. k \in 1..3
    BY <2>1, SendCalls
  <2>3. CASE k = 1
    <3>1. r = open_(t.file, {"WR", "CREAT"})
      BY <2>1, <2>3, SendCalls
    <3>2. GoodCall(r)
      BY <1>1, <2>1, <3>1, OwnCallsGood
    <3>3. r.code = "REQUEST_OPEN"
      BY <3>1 DEF open_, SharedOpen
    <3> QED BY <2>1, <2>3, <3>1, <3>2, <3>3 DEF FitsIn, Opened
  <2>4. CASE k = 2
    <3>1. r = write_(d, t.data)
      BY <2>1, <2>4, SendCalls
    <3>2. GoodCall(r)
      BY <1>1, <2>1, <3>1, OwnCallsGood
    <3> QED BY <2>1, <2>4, <3>1, <3>2 DEF FitsIn, Opened, NoCall, SharedOpen, open_, write_
  <2>5. CASE k = 3
    <3>1. r = close_(d)
      BY <2>1, <2>5, SendCalls
    <3>2. GoodCall(r)
      BY <1>1, <2>1, <3>1, OwnCallsGood
    <3> QED BY <2>1, <2>5, <3>1, <3>2 DEF FitsIn, Opened, NoCall, SharedOpen, close_, open_
  <2> QED BY <2>2, <2>3, <2>4, <2>5
<1>4. CASE t \in Client2Tasks
  <2>1. t.kind = "client2" /\ t.shared \in Strings
    BY <1>4 DEF Client2Tasks
  <2>2. k \in 1..5
    BY <2>1, Client2Calls
  <2>3. CASE k = 1
    <3>1. r = SharedOpen(t)
      BY <2>1, <2>3, Client2Calls
    <3>2. GoodCall(r)
      BY <1>1, <2>1, <3>1, OwnCallsGood DEF SharedOpen
    <3>3. r.code = "REQUEST_OPEN"
      BY <3>1 DEF open_, SharedOpen
    <3> QED BY <2>1, <2>3, <3>1, <3>2, <3>3 DEF FitsIn, Opened
  <2>4. CASE k = 2
    <3>1. r = flock_(d, "EX")
      BY <2>1, <2>4, Client2Calls
    <3>2. GoodCall(r)
      BY <1>1, <2>1, <3>1, OwnCallsGood
    <3> QED BY <2>1, <2>4, <3>1, <3>2 DEF FitsIn, Opened, NoCall, SharedOpen, flock_, open_
  <2>5. CASE k = 4
    <3>1. r = flock_(d, "UN")
      BY <2>1, <2>5, Client2Calls
    <3>2. GoodCall(r)
      BY <1>1, <2>1, <3>1, OwnCallsGood
    <3> QED BY <2>1, <2>5, <3>1, <3>2 DEF FitsIn, Opened, NoCall, SharedOpen, flock_, open_
  <2>6. CASE k = 3
    <3>1. r = write_(d, <<2>>)
      BY <2>1, <2>6, Client2Calls
    <3>2. GoodCall(r)
      BY <1>1, <2>1, <3>1, OwnCallsGood
    <3> QED BY <2>1, <2>6, <3>1, <3>2 DEF FitsIn, Opened, NoCall, SharedOpen, open_, write_
  <2>7. CASE k = 5
    <3>1. r = close_(d)
      BY <2>1, <2>7, Client2Calls
    <3>2. GoodCall(r)
      BY <1>1, <2>1, <3>1, OwnCallsGood
    <3> QED BY <2>1, <2>7, <3>1, <3>2 DEF FitsIn, Opened, NoCall, SharedOpen, close_, open_
  <2> QED BY <2>2, <2>3, <2>4, <2>5, <2>6, <2>7
<1>5. CASE t \in Client1Tasks
  <2>1. t.kind = "client1" /\ t.file \in Strings /\ t.data \in Seq(Nat) /\ t.shared \in Strings /\ Len(t.data) \in Nat
    BY <1>5, LenProperties DEF Client1Tasks
  <2>2. k \in 1..22
    <3>1. Len(CallsOf(t, d, n)) = 22
      BY <2>1, Client1Calls
    <3> QED BY <3>1
  <2>3. CASE k = 1
    <3>1. r = open_(t.file, {"WR", "CREAT"})
      BY <2>1, <2>3, Client1Calls
    <3>2. GoodCall(r)
      BY <1>1, <2>1, <3>1, OwnCallsGood
    <3>3. r.code = "REQUEST_OPEN"
      BY <3>1 DEF open_, SharedOpen
    <3> QED BY <2>1, <2>3, <3>1, <3>2, <3>3 DEF FitsIn, Opened
  <2>4. CASE k = 2
    <3>1. r = write_(d, t.data)
      BY <2>1, <2>4, Client1Calls
    <3>2. GoodCall(r)
      BY <1>1, <2>1, <3>1, OwnCallsGood
    <3> QED BY <2>1, <2>4, <3>1, <3>2 DEF FitsIn, Opened, NoCall, SharedOpen, open_, write_
  <2>5. CASE k \in {4, 7, 10}
    <3>1. r = open_(t.file, {"RD"})
      <4>1. /\ CallsOf(t, d, n)[4] = open_(t.file, {"RD"})
            /\ CallsOf(t, d, n)[7] = open_(t.file, {"RD"})
            /\ CallsOf(t, d, n)[10] = open_(t.file, {"RD"})
        BY <2>1, Client1Calls
      <4> QED BY <2>5, <4>1
    <3>2. GoodCall(r)
      BY <1>1, <2>1, <3>1, OwnCallsGood
    <3>3. r.code = "REQUEST_OPEN"
      BY <3>1 DEF open_, SharedOpen
    <3> QED BY <2>1, <2>5, <3>1, <3>2, <3>3 DEF FitsIn, Opened
  <2>6. CASE k \in {3, 6, 9, 12, 19, 22}
    <3>1. r = close_(d)
      <4>1. /\ CallsOf(t, d, n)[3] = close_(d)
            /\ CallsOf(t, d, n)[6] = close_(d)
            /\ CallsOf(t, d, n)[9] = close_(d)
            /\ CallsOf(t, d, n)[12] = close_(d)
            /\ CallsOf(t, d, n)[19] = close_(d)
            /\ CallsOf(t, d, n)[22] = close_(d)
        BY <2>1, Client1Calls
      <4> QED BY <2>6, <4>1
    <3>2. GoodCall(r)
      BY <1>1, <2>1, <3>1, OwnCallsGood
    <3> QED BY <2>1, <2>6, <3>1, <3>2 DEF FitsIn, Opened, NoCall, SharedOpen, close_, open_
  <2>7. CASE k = 5
    <3>1. r = read_(d, Len(t.data))
      BY <2>1, <2>7, Client1Calls
    <3>2. GoodCall(r)
      BY <1>1, <2>1, <3>1, OwnCallsGood
    <3> QED BY <2>1, <2>7, <3>1, <3>2 DEF FitsIn, Opened, NoCall, SharedOpen, open_, read_
  <2>8. CASE k = 8
    <3>1. r = lseek_(d, 0, "END")
      BY <2>1, <2>8, Client1Calls
    <3>2. GoodCall(r)
      BY <1>1, <2>1, <3>1, OwnCallsGood
    <3> QED BY <2>1, <2>8, <3>1, <3>2 DEF FitsIn, Opened, NoCall, SharedOpen, lseek_, open_
  <2>9. CASE k = 11
    <3>1. r = fstat_(d)
      BY <2>1, <2>9, Client1Calls
    <3>2. GoodCall(r)
      BY <1>1, <2>1, <3>1, OwnCallsGood
    <3> QED BY <2>1, <2>9, <3>1, <3>2 DEF FitsIn, Opened, NoCall, SharedOpen, fstat_, open_
  <2>10. CASE k = 13
    <3>1. r = unlink_(t.file)
      BY <2>1, <2>10, Client1Calls
    <3>2. GoodCall(r)
      BY <1>1, <2>1, <3>1, OwnCallsGood
    <3> QED BY <2>1, <2>10, <3>1, <3>2 DEF FitsIn, Opened, NoCall, SharedOpen, open_, unlink_
  <2>11. CASE k = 14
    <3>1. r = SharedOpen(t)
      BY <2>1, <2>11, Client1Calls
    <3>2. GoodCall(r)
      BY <1>1, <2>1, <3>1, OwnCallsGood DEF SharedOpen
    <3>3. r.code = "REQUEST_OPEN"
      BY <3>1 DEF open_, SharedOpen
    <3> QED BY <2>1, <2>11, <3>1, <3>2, <3>3 DEF FitsIn, Opened
  <2>12. CASE k = 15
    <3>1. r = flock_(d, "EX")
      BY <2>1, <2>12, Client1Calls
    <3>2. GoodCall(r)
      BY <1>1, <2>1, <3>1, OwnCallsGood
    <3> QED BY <2>1, <2>12, <3>1, <3>2 DEF FitsIn, Opened, NoCall, SharedOpen, flock_, open_
  <2>13. CASE k = 18
    <3>1. r = flock_(d, "UN")
      BY <2>1, <2>13, Client1Calls
    <3>2. GoodCall(r)
      BY <1>1, <2>1, <3>1, OwnCallsGood
    <3> QED BY <2>1, <2>13, <3>1, <3>2 DEF FitsIn, Opened, NoCall, SharedOpen, flock_, open_
  <2>14. CASE k \in {16, 17}
    <3>1. r = write_(d, <<1>>)
      <4>1. /\ CallsOf(t, d, n)[16] = write_(d, <<1>>)
            /\ CallsOf(t, d, n)[17] = write_(d, <<1>>)
        BY <2>1, Client1Calls
      <4> QED BY <2>14, <4>1
    <3>2. GoodCall(r)
      BY <1>1, <2>1, <3>1, OwnCallsGood
    <3> QED BY <2>1, <2>14, <3>1, <3>2 DEF FitsIn, Opened, NoCall, SharedOpen, open_, write_
  <2>15. CASE k = 20
    <3>1. r = open_(t.shared, {"RD"})
      BY <2>1, <2>15, Client1Calls
    <3>2. GoodCall(r)
      BY <1>1, <2>1, <3>1, OwnCallsGood
    <3>3. r.code = "REQUEST_OPEN"
      BY <3>1 DEF open_, SharedOpen
    <3> QED BY <2>1, <2>15, <3>1, <3>2, <3>3 DEF FitsIn, Opened
  <2>16. CASE k = 21
    <3>1. r = read_(d, 4)
      BY <2>1, <2>16, Client1Calls
    <3>2. GoodCall(r)
      BY <1>1, <2>1, <3>1, OwnCallsGood
    <3> QED BY <2>1, <2>16, <3>1, <3>2 DEF FitsIn, Opened, NoCall, SharedOpen, open_, read_
  <2> QED BY <2>2, <2>3, <2>4, <2>5, <2>6, <2>7, <2>8, <2>9, <2>10, <2>11, <2>12, <2>13, <2>14, <2>15, <2>16
<1>6. CASE t \in CommandTasks
  <2>1. GoodCall(r) /\ t.kind = "command"
    BY <1>6, CommandCalls DEF CommandTasks
  <2> QED BY <2>1 DEF FitsIn, Opened
<1> QED BY <1>2, <1>3, <1>4, <1>5, <1>6 DEF Tasks

\* The calls that the programs make themselves are calls of the library.
LEMMA OwnRequests ==
    /\ \A p \in Strings :
           /\ open_(p, {"RD"}) \in Request /\ open_(p, {"WR", "CREAT"}) \in Request
           /\ open_(p, {"WR", "CREAT", "APPEND"}) \in Request /\ unlink_(p) \in Request
    /\ \A d \in Int :
           /\ close_(d) \in Request /\ fstat_(d) \in Request
           /\ \A n \in Nat : read_(d, n) \in Request
           /\ \A bytes \in Seq(Nat) : write_(d, bytes) \in Request
           /\ lseek_(d, 0, "SET") \in Request /\ lseek_(d, 0, "END") \in Request
           /\ \A mode \in LockModes : flock_(d, mode) \in Request
<1>1. \A p \in Strings :
          /\ open_(p, {"RD"}) \in CMSGRequestOpen
          /\ open_(p, {"WR", "CREAT"}) \in CMSGRequestOpen
          /\ open_(p, {"WR", "CREAT", "APPEND"}) \in CMSGRequestOpen
          /\ unlink_(p) \in CMSGRequestUnlink
  <2>1. {"RD"} \in OFlags /\ {"WR", "CREAT"} \in OFlags /\ {"WR", "CREAT", "APPEND"} \in OFlags
    BY DEF OFlags
  <2> QED BY <2>1 DEF open_, unlink_, CMSGRequestOpen, CMSGRequestUnlink, Text
<1>2. \A d \in Int : close_(d) \in CMSGRequestClose /\ fstat_(d) \in CMSGRequestFstat
  BY DEF close_, fstat_, CMSGRequestClose, CMSGRequestFstat
<1>3. \A d \in Int :
          /\ \A n \in Nat : read_(d, n) \in CMSGRequestRead
          /\ \A bytes \in Seq(Nat) : write_(d, bytes) \in CMSGRequestWrite
          /\ lseek_(d, 0, "SET") \in CMSGRequestLseek /\ lseek_(d, 0, "END") \in CMSGRequestLseek
          /\ \A mode \in LockModes : flock_(d, mode) \in CMSGRequestFlock
  BY DEF read_, write_, lseek_, flock_, CMSGRequestRead, CMSGRequestWrite, CMSGRequestLseek,
         CMSGRequestFlock
<1> QED BY <1>1, <1>2, <1>3 DEF Request

\* Every call of every command is one, if the download has a size to read.
LEMMA CallsAreRequests ==
    ASSUME NEW t \in Tasks, NEW d \in Int, NEW n \in Int,
           NEW k \in 1..Len(CallsOf(t, d, n)), t.kind = "download" /\ k > 2 => n \in Nat
    PROVE  CallsOf(t, d, n)[k] \in Request
<1>1. CASE t \in DownloadTasks
  <2>1. t.kind = "download" /\ t.file \in Strings
    BY <1>1 DEF DownloadTasks
  <2>2. k \in 1..5
    BY <2>1, DownloadCalls
  <2> QED BY <2>1, <2>2, DownloadCalls, OwnRequests
<1>2. CASE t \in SendTasks
  <2>1. t.kind = "send" /\ t.file \in Strings /\ t.data \in Seq(Nat)
    BY <1>2 DEF SendTasks
  <2>2. k \in 1..3
    BY <2>1, SendCalls
  <2>3. CallsOf(t, d, n)[k] \in {open_(t.file, {"WR", "CREAT"}), write_(d, t.data), close_(d)}
    BY <2>1, <2>2, SendCalls
  <2> QED BY <2>1, <2>3, OwnRequests
<1>3. <<1>> \in Seq(Nat) /\ <<2>> \in Seq(Nat) /\ "EX" \in LockModes /\ "UN" \in LockModes
  BY DEF LockModes
<1>4. CASE t \in Client2Tasks
  <2>1. t.kind = "client2" /\ t.shared \in Strings
    BY <1>4 DEF Client2Tasks
  <2>2. k \in 1..5
    BY <2>1, Client2Calls
  <2>3. CallsOf(t, d, n)[k] \in {SharedOpen(t), flock_(d, "EX"), write_(d, <<2>>), flock_(d, "UN"),
                               close_(d)}
    BY <2>1, <2>2, Client2Calls
  <2>4. SharedOpen(t) \in Request
    BY <2>1, OwnRequests DEF SharedOpen
  <2> QED BY <1>3, <2>3, <2>4, OwnRequests
<1>5. CASE t \in Client1Tasks
  <2>1. t.kind = "client1" /\ t.shared \in Strings /\ t.file \in Strings /\ t.data \in Seq(Nat)
    BY <1>5 DEF Client1Tasks
  <2>2. k \in 1..22
    <3>1. Len(CallsOf(t, d, n)) = 22
      BY <2>1, Client1Calls
    <3> QED BY <3>1
  <2> PICK f : f = CallsOf(t, d, n)
    OBVIOUS
  <2>3. CASE k \in {1, 4, 7, 10, 13, 14, 20}
    <3>1. /\ f[1] = open_(t.file, {"WR", "CREAT"}) /\ f[4] = open_(t.file, {"RD"})
          /\ f[7] = open_(t.file, {"RD"}) /\ f[10] = open_(t.file, {"RD"})
          /\ f[13] = unlink_(t.file) /\ f[14] = SharedOpen(t) /\ f[20] = open_(t.shared, {"RD"})
      BY <2>1, Client1Calls
    <3>2. SharedOpen(t) \in Request
      BY <2>1, OwnRequests DEF SharedOpen
    <3> QED BY <2>1, <2>3, <3>1, <3>2, OwnRequests
  <2>4. CASE k \in {3, 6, 9, 12, 19, 22}
    <3>1. /\ f[3] = close_(d) /\ f[6] = close_(d) /\ f[9] = close_(d)
          /\ f[12] = close_(d) /\ f[19] = close_(d) /\ f[22] = close_(d)
      BY <2>1, Client1Calls
    <3> QED BY <2>4, <3>1, OwnRequests
  <2>5. CASE k \in {2, 5, 8, 11}
    <3>1. f[2] = write_(d, t.data)
      BY <2>1, Client1Calls
    <3>2. f[5] = read_(d, Len(t.data))
      BY <2>1, Client1Calls
    <3>3. f[8] = lseek_(d, 0, "END")
      BY <2>1, Client1Calls
    <3>4. f[11] = fstat_(d)
      BY <2>1, Client1Calls
    <3>5. Len(t.data) \in Nat
      BY <2>1
    <3> QED BY <2>1, <2>5, <3>1, <3>2, <3>3, <3>4, <3>5, OwnRequests
  <2>6. CASE k \in {15, 16, 17, 18, 21}
    <3>1. f[15] = flock_(d, "EX")
      <4>1. CallsOf(t, d, n)[15] = flock_(d, "EX")
        BY <2>1, Client1Calls
      <4> QED BY <4>1
    <3>2. f[16] = write_(d, <<1>>)
      BY <2>1, Client1Calls
    <3>3. f[17] = write_(d, <<1>>)
      BY <2>1, Client1Calls
    <3>4. f[18] = flock_(d, "UN")
      BY <2>1, Client1Calls
    <3>5. f[21] = read_(d, 4)
      BY <2>1, Client1Calls
    <3> QED BY <1>3, <2>6, <3>1, <3>2, <3>3, <3>4, <3>5, OwnRequests
  <2>7. k \in {1, 4, 7, 10, 13, 14, 20} \cup {3, 6, 9, 12, 19, 22} \cup {2, 5, 8, 11}
             \cup {15, 16, 17, 18, 21}
    BY <2>2
  <2> QED BY <2>3, <2>4, <2>5, <2>6, <2>7
<1>6. CASE t \in CommandTasks
  <2>1. t.call \in Request
    BY <1>6 DEF CommandTasks
  <2>2. ASSUME "fd" \in DOMAIN t.call PROVE [t.call EXCEPT !.fd = d] \in Request
    BY <2>1, <2>2 DEF Request, CMSGRequestOpen, CMSGRequestUnlink, CMSGRequestClose,
                      CMSGRequestFstat, CMSGRequestRead, CMSGRequestWrite, CMSGRequestLseek,
                      CMSGRequestFlock
  <2>3. Len(CallsOf(t, d, n)) = 1
    BY <1>6, CommandCalls
  <2>4. CallsOf(t, d, n)[1] \in Request
    <3>1. t.kind = "command"
      BY <1>6 DEF CommandTasks
    <3> QED BY <2>1, <2>2, <3>1 DEF CallsOf, Command
  <2> QED BY <2>3, <2>4
<1> QED BY <1>1, <1>2, <1>4, <1>5, <1>6 DEF Tasks

\* Every command has a call.
LEMMA CallsExist ==
    ASSUME NEW t \in Tasks, NEW d \in Int, NEW n \in Int
    PROVE  Len(CallsOf(t, d, n)) \in Nat /\ 1 \in 1..Len(CallsOf(t, d, n))
<1>1. CASE t \in DownloadTasks
  <2>1. Len(CallsOf(t, d, n)) = 5
    BY <1>1, DownloadCalls DEF DownloadTasks
  <2> QED BY <2>1
<1>2. CASE t \in SendTasks
  <2>1. Len(CallsOf(t, d, n)) = 3
    BY <1>2, SendCalls DEF SendTasks
  <2> QED BY <2>1
<1>3. CASE t \in Client2Tasks
  <2>1. Len(CallsOf(t, d, n)) = 5
    BY <1>3, Client2Calls DEF Client2Tasks
  <2> QED BY <2>1
<1>4. CASE t \in Client1Tasks
  <2>1. Len(CallsOf(t, d, n)) = 22
    BY <1>4, Client1Calls DEF Client1Tasks
  <2> QED BY <2>1
<1>5. CASE t \in CommandTasks
  <2>1. Len(CallsOf(t, d, n)) = 1
    BY <1>5, CommandCalls
  <2> QED BY <2>1
<1> QED BY <1>1, <1>2, <1>3, <1>4, <1>5 DEF Tasks

-----------------------------------------------------------------------------
(* The control of the programs.                                            *)

\* What the programs are given to do are commands.
LEMMA TasksGiven ==
    ASSUME NEW c \in Sessions, ProgramsOK
    PROVE  /\ app[c].tasks \subseteq Tasks
           /\ fd[c] \in Int /\ size[c] \in Int
<1>1. app[c] \in Programs
  BY ApplicationsAssumption DEF ProgramsOK
<1>2. app[c].tasks \subseteq Tasks
  BY <1>1 DEF Programs, Tasks
<1> QED BY <1>2, KernelAssumption DEF ProgramsOK

\* The call that a program makes fits in with its command.
LEMMA NextFits ==
    ASSUME NEW c \in Sessions, ProgramsOK, StageAt(c), stage[c] = "work"
    PROVE  /\ task[c] \in Tasks /\ FitsIn(NextCall(c), task[c], at[c], fd[c])
           /\ at[c] \in 1..Len(CallsOf(task[c], fd[c], size[c]))
BY TasksGiven, CallsFit DEF StageAt, NextCall

\* A program calls the library with what it can be given.
LEMMA CallingGood ==
    ASSUME NEW c \in Sessions, ProgramsOK, StageAt(c), stage[c] \in {"work", "closing"}
    PROVE  GoodCall(Calling(c)) /\ Calling(c) # NoCall
<1>1. GoodCall(Calling(c))
  BY NextFits, OwnCallsGood DEF Calling, FitsIn
<1> QED BY <1>1 DEF GoodCall, RequestCodes, NoCall

\* What a step of another client leaves alone.
SameRemote(d) ==
    /\ fdt'[d] = fdt[d] /\ euid'[d] = euid[d] /\ session'[d] = session[d]
    /\ root'[d] = root[d] /\ job'[d] = job[d] /\ waiting'[d] = waiting[d]
    /\ ret'[d] = ret[d] /\ errno'[d] = errno[d] /\ ended'[d] = ended[d]
SameProgram(d) ==
    /\ app' = app /\ stage'[d] = stage[d] /\ task'[d] = task[d] /\ at'[d] = at[d]
    /\ left'[d] = left[d] /\ fd'[d] = fd[d] /\ size'[d] = size[d]
    /\ buffer'[d] = buffer[d] /\ saved'[d] = saved[d] /\ result'[d] = result[d]
SameClient(d) == SameRemote(d) /\ SameProgram(d)

\* A client that is left alone stays what it is.
LEMMA ClientKept ==
    ASSUME NEW d \in Sessions, SameClient(d), ClientAt(d)
    PROVE  ClientAt(d)'
<1>1. FilesAt(d)' /\ StageAt(d)'
  BY DEF SameClient, SameRemote, SameProgram, ClientAt, FilesAt, StageAt, IsFile
<1>2. Calling(d)' = Calling(d)
  BY DEF SameClient, SameProgram, Calling, NextCall
<1>3. Fit(d, {})' <=> Fit(d, {})
  BY DEF SameClient, SameRemote, Fit, Arg, IsFile
<1>4. AnswerAt(d)' <=> AnswerAt(d)
  BY DEF SameClient, SameRemote, AnswerAt
<1>5. JobAt(d)'
  BY <1>2, <1>3, <1>4 DEF SameClient, SameRemote, SameProgram, ClientAt, JobAt
<1> QED BY <1>1, <1>5 DEF ClientAt

\* What every step of client c does.
StepOK(c) ==
    VariablesOK' /\ ClientAt(c)' /\ \A d \in Sessions \ {c} : SameClient(d)

\* It keeps the invariant of control.
LEMMA StepKeepsControl ==
    ASSUME NEW c \in Sessions, ControlInv, StepOK(c)
    PROVE  ControlInv'
BY ClientKept DEF ControlInv, StepOK

\* A program logs in.
LEMMA ConnectsOK ==
    ASSUME NEW c \in Sessions, ControlInv, connects(c)
    PROVE  StepOK(c)
<1> USE DEF ControlInv, VariablesOK
<1>1. PICK user \in Users : LogIn(c, user)
  BY DEF connects
<1>2. user[1] \in Uids /\ user[2] \in Dirs
  BY ApplicationsAssumption
<1>3. ClientAt(c) /\ stage[c] = "connect"
  BY DEF connects
<1>4. KernelTypeOK'
  BY <1>1, <1>2 DEF LogIn, KernelTypeOK
<1>5. RemoteOK'
  BY <1>1 DEF LogIn, RemoteOK, OfClients
<1>6. ProgramsOK'
  BY DEF connects, GoTo, ProgramsOK
<1>7. \A d \in Sessions \ {c} : SameClient(d)
  <2>1. \A d \in Sessions \ {c} : SameRemote(d)
    BY <1>1 DEF LogIn, SameRemote, RemoteOK, OfClients, KernelTypeOK
  <2>2. \A d \in Sessions \ {c} : SameProgram(d)
    BY DEF connects, GoTo, SameProgram, ProgramsOK
  <2> QED BY <2>1, <2>2 DEF SameClient
<1>8. stage'[c] = "menu"
  BY DEF connects, GoTo, ProgramsOK
<1>9. session'[c] = "on" /\ root'[c] = user[2] /\ ended' = ended /\ fdt' = fdt /\ job' = job /\ waiting' = waiting
  BY <1>1 DEF LogIn, RemoteOK, OfClients
<1>10. FilesAt(c)'
  BY <1>3, <1>9 DEF ClientAt, FilesAt, IsFile
<1>11. StageAt(c)'
  BY <1>2, <1>3, <1>8, <1>9 DEF ClientAt, StageAt
<1>12. waiting[c] = NoCall /\ job[c] = Idle
  BY <1>3 DEF ClientAt, JobAt
<1>13. JobAt(c)'
  BY <1>9, <1>12 DEF JobAt
<1> QED BY <1>4, <1>5, <1>6, <1>7, <1>10, <1>11, <1>13 DEF StepOK, ClientAt

\* A program begins a command.
LEMMA BeginsOK ==
    ASSUME NEW c \in Sessions, ControlInv, begins(c)
    PROVE  StepOK(c)
<1> USE DEF ControlInv, VariablesOK
<1>1. PICK t \in app[c].tasks : task' = [task EXCEPT ![c] = t]
  BY DEF begins
<1>2. ClientAt(c) /\ stage[c] = "menu" /\ UNCHANGED remoteVars /\ left[c] > 0
  BY DEF begins
<1>3. KernelTypeOK' /\ RemoteOK' /\ \A d \in Sessions : SameRemote(d)
  BY <1>2 DEF remoteVars, kernelVars, apiVars, KernelTypeOK, RemoteOK, OfClients, SameRemote
<1>4. ProgramsOK'
  <2>1. left'[c] \in 0..MaxTasks /\ 0 \in -1..MaxOffset /\ << >> \in Seq(Nat)
    BY <1>2, KernelAssumption, ApplicationsAssumption DEF begins, ProgramsOK
  <2>2. left' \in [Sessions -> 0..MaxTasks]
    BY <2>1 DEF begins, ProgramsOK
  <2>3. /\ size' \in [Sessions -> -1..MaxOffset] /\ buffer' \in [Sessions -> Seq(Nat)]
        /\ result' \in [Sessions -> Int] /\ undisturbed' \in [Sessions -> BOOLEAN]
    BY <2>1 DEF begins, ProgramsOK
  <2>4. /\ OfClients(task)' /\ at' \in [Sessions -> Nat]
        /\ stage' \in [Sessions -> {"connect", "menu", "work", "closing", "leaving", "off"}]
    BY <1>1 DEF begins, GoTo, ProgramsOK, OfClients
  <2> QED BY <2>2, <2>3, <2>4 DEF begins, ProgramsOK, OfClients
<1>5. \A d \in Sessions \ {c} : SameClient(d)
  BY <1>1, <1>3 DEF begins, GoTo, SameProgram, ProgramsOK, OfClients, SameClient
<1>6. stage'[c] = "work" /\ task'[c] = t /\ at'[c] = 1 /\ app' = app /\ fd' = fd
  BY <1>1 DEF begins, GoTo, ProgramsOK, OfClients
<1>7. FilesAt(c)'
  BY <1>2, <1>3 DEF SameRemote, ClientAt, FilesAt, IsFile
<1>8. 1 \in 1..Len(CallsOf(task[c], fd[c], size[c]))'
  <2>1. t \in Tasks
    BY TasksGiven
  <2>2. fd'[c] \in Int /\ size'[c] \in Int
    BY <1>4, KernelAssumption DEF ProgramsOK
  <2> QED BY <1>6, <2>1, <2>2, CallsExist
<1>9. StageAt(c)'
  BY <1>2, <1>3, <1>6, <1>8 DEF ClientAt, StageAt, SameRemote
<1>10. JobAt(c)'
  <2>1. waiting[c] = NoCall /\ job[c] = Idle
    BY <1>2 DEF ClientAt, JobAt
  <2> QED BY <1>3, <2>1 DEF SameRemote, JobAt
<1> QED BY <1>3, <1>4, <1>5, <1>7, <1>9, <1>10 DEF StepOK, ClientAt

\* A program calls the library.
LEMMA CallsOK ==
    ASSUME NEW c \in Sessions, ControlInv, calls(c)
    PROVE  StepOK(c)
<1> USE DEF ControlInv, VariablesOK
<1>1. ClientAt(c) /\ stage[c] \in {"work", "closing"} /\ Call(c, Calling(c)) /\ UNCHANGED appVars
  BY DEF calls, Calling
<1>2. Calling(c) # NoCall /\ Calling(c)' = Calling(c)
  BY <1>1, CallingGood DEF ClientAt, appVars, Calling, NextCall
<1>3. KernelTypeOK' /\ RemoteOK'
  BY <1>1 DEF Call, kernelVars, KernelTypeOK, RemoteOK, OfClients
<1>4. ProgramsOK'
  BY <1>1 DEF appVars, ProgramsOK, OfClients
<1>5. \A d \in Sessions \ {c} : SameClient(d)
  BY <1>1 DEF Call, kernelVars, RemoteOK, OfClients, SameRemote, SameProgram, SameClient, appVars
<1>6. FilesAt(c)' /\ StageAt(c)'
  BY <1>1 DEF Call, kernelVars, ClientAt, FilesAt, StageAt, IsFile, appVars
<1>7. /\ waiting[c] = NoCall /\ job[c] = Idle /\ waiting'[c] = Calling(c)
      /\ session[c] \in {"on", "over"}
      /\ session[c] = "on" => job'[c] = At("pending", Calling(c))
      /\ session[c] = "over" => job'[c] = Idle
      /\ session' = session /\ stage' = stage
  BY <1>1 DEF Call, ClientAt, JobAt, RemoteOK, OfClients, appVars
<1>8. JobAt(c)'
  BY <1>1, <1>2, <1>7 DEF JobAt
<1> QED BY <1>3, <1>4, <1>5, <1>6, <1>8 DEF StepOK, ClientAt

\* A program stops, and closes what it still has open.
LEMMA ExitsOK ==
    ASSUME NEW c \in Sessions, ControlInv, exits(c)
    PROVE  StepOK(c)
<1> USE DEF ControlInv, VariablesOK
<1>1. ClientAt(c) /\ stage[c] = "menu" /\ UNCHANGED remoteVars
  BY DEF exits
<1>2. KernelTypeOK' /\ RemoteOK' /\ \A d \in Sessions : SameRemote(d)
  BY <1>1 DEF remoteVars, kernelVars, apiVars, KernelTypeOK, RemoteOK, OfClients, SameRemote
<1>3. ProgramsOK' /\ stage'[c] \in {"closing", "leaving"}
  BY DEF exits, GoTo, ProgramsOK, OfClients
<1>4. \A d \in Sessions \ {c} : SameClient(d)
  BY <1>2 DEF exits, GoTo, SameProgram, ProgramsOK, SameClient
<1>5. FilesAt(c)'
  BY <1>1, <1>2 DEF SameRemote, ClientAt, FilesAt, IsFile
<1>6. StageAt(c)'
  BY <1>1, <1>2, <1>3 DEF ClientAt, StageAt, SameRemote
<1>7. JobAt(c)'
  <2>1. waiting[c] = NoCall /\ job[c] = Idle
    BY <1>1 DEF ClientAt, JobAt
  <2> QED BY <1>2, <2>1 DEF SameRemote, JobAt
<1> QED BY <1>2, <1>3, <1>4, <1>5, <1>6, <1>7 DEF StepOK, ClientAt

\* A program is gone.
LEMMA EndsOK ==
    ASSUME NEW c \in Sessions, ControlInv, ends(c)
    PROVE  StepOK(c)
<1> USE DEF ControlInv, VariablesOK
<1>1. ClientAt(c) /\ stage[c] \in {"connect", "leaving"} /\ Ends(c)
  BY DEF ends
<1>2. KernelTypeOK' /\ RemoteOK' /\ \A d \in Sessions \ {c} : SameRemote(d)
  BY <1>1 DEF Ends, kernelVars, KernelTypeOK, RemoteOK, OfClients, SameRemote
<1>3. ProgramsOK' /\ stage'[c] = "off"
  BY DEF ends, GoTo, ProgramsOK, OfClients
<1>4. \A d \in Sessions \ {c} : SameClient(d)
  BY <1>2 DEF ends, GoTo, SameProgram, ProgramsOK, SameClient
<1>5. /\ ended'[c] = TRUE /\ waiting'[c] = NoCall /\ job' = job /\ session' = session
      /\ root' = root /\ fdt' = fdt
  BY <1>1 DEF Ends, kernelVars, RemoteOK, OfClients
<1>6. FilesAt(c)'
  BY <1>1, <1>5 DEF ClientAt, FilesAt, IsFile
<1>7. StageAt(c)'
  BY <1>1, <1>3, <1>5 DEF ClientAt, StageAt
<1>8. JobAt(c)'
  <2>1. job[c] = Idle
    BY <1>1 DEF ClientAt, JobAt
  <2> QED BY <1>5, <2>1 DEF JobAt
<1> QED BY <1>2, <1>3, <1>4, <1>6, <1>7, <1>8 DEF StepOK, ClientAt

\* How a call comes back: with its answer, or without one when the session is over.
Outcome(c) ==
    \/ /\ session[c] = "on" /\ AnswerAt(c) /\ job[c].phase = "done"
       /\ ret'[c].value = job[c].value /\ ret'[c].data = job[c].data
       /\ job[c].value < 0 => errno'[c] = job[c].errno
    \/ /\ session[c] = "over" /\ job[c] = Idle
       /\ ret'[c].value = -1 /\ ret'[c].data = << >>

\* What a call that comes back leaves behind.
BackAgain(c) ==
    /\ KernelTypeOK' /\ RemoteOK' /\ \A d \in Sessions \ {c} : SameRemote(d)
    /\ UNCHANGED <<dir, content, fdt, session, root, ended>>
    /\ job'[c] = Idle /\ waiting'[c] = NoCall

\* A call comes back (NFSConnection.cpp, every call).
LEMMA CallComesBack ==
    ASSUME NEW c \in Sessions, ControlInv, stage[c] \in {"work", "closing"}, ComesBack(c)
    PROVE  Outcome(c) /\ BackAgain(c) /\ waiting[c] = Calling(c)
<1> USE DEF ControlInv, VariablesOK
<1>1. waiting[c] # NoCall /\ ClientAt(c)
  BY DEF ComesBack, ReturnsAnswer
<1>2. waiting[c] = Calling(c) /\ session[c] # "none"
  BY <1>1 DEF ClientAt, JobAt, StageAt
<1>3. CASE ReturnsAnswer(c)
  <2>1. job[c].phase = "done" /\ session[c] = "on" /\ AnswerAt(c)
    BY <1>1, <1>3 DEF ReturnsAnswer, ClientAt, JobAt, At, Idle
  <2>2. ret'[c] = Returned(waiting[c], job[c].value, job[c].data)
    BY <1>3 DEF ReturnsAnswer, Return, RemoteOK, OfClients
  <2>3. job[c].value < 0 => errno'[c] = job[c].errno
    BY <1>3 DEF ReturnsAnswer, RemoteOK, OfClients
  <2>4. Outcome(c)
    BY <2>1, <2>2, <2>3 DEF Outcome, Returned
  <2>5. BackAgain(c)
    BY <1>3 DEF ReturnsAnswer, Return, kernelVars, BackAgain, KernelTypeOK, RemoteOK, OfClients,
                SameRemote
  <2> QED BY <1>2, <2>4, <2>5
<1>4. CASE ReturnsFailure(c, waiting[c])
  <2>1. session[c] = "over" /\ job[c] = Idle
    BY <1>1, <1>2, <1>4 DEF ReturnsFailure, ClientAt, JobAt
  <2>2. ret'[c] = Returned(waiting[c], -1, << >>)
    BY <1>4 DEF ReturnsFailure, Return, RemoteOK, OfClients
  <2>3. Outcome(c)
    BY <2>1, <2>2 DEF Outcome, Returned
  <2>4. PICK e : errno' = [errno EXCEPT ![c] = e]
    BY <1>4 DEF ReturnsFailure
  <2>5. BackAgain(c)
    BY <1>4, <2>1, <2>4 DEF ReturnsFailure, Return, kernelVars, BackAgain, KernelTypeOK, RemoteOK,
                OfClients, SameRemote
  <2> QED BY <1>2, <2>3, <2>5
<1> QED BY <1>3, <1>4 DEF ComesBack

\* What comes back is a number and bytes.
LEMMA OutcomeType ==
    ASSUME NEW c \in Sessions, Outcome(c)
    PROVE  /\ ret'[c].value \in Int /\ ret'[c].data \in Seq(Nat)
           /\ waiting[c].code = "REQUEST_OPEN" =>
                  ret'[c].value \in -1..MaxFd /\ ret'[c].value # 0
           /\ waiting[c].code = "REQUEST_LSEEK" => ret'[c].value \in -1..MaxOffset
<1>1. CASE session[c] = "on" /\ AnswerAt(c) /\ ret'[c].value = job[c].value
           /\ ret'[c].data = job[c].data
  BY <1>1 DEF AnswerAt
<1>2. CASE ret'[c].value = -1 /\ ret'[c].data = << >>
  BY <1>2, KernelAssumption
<1> QED BY <1>1, <1>2 DEF Outcome

\* The destructor's close comes back.
LEMMA ClosedOK ==
    ASSUME NEW c \in Sessions, ControlInv, closed(c)
    PROVE  StepOK(c)
<1> USE DEF ControlInv, VariablesOK
<1>1. BackAgain(c) /\ ClientAt(c) /\ stage[c] = "closing"
  BY CallComesBack DEF closed
<1>2. ProgramsOK' /\ stage'[c] = "leaving"
  BY DEF closed, GoTo, ProgramsOK, OfClients
<1>3. \A d \in Sessions \ {c} : SameClient(d)
  BY <1>1 DEF closed, GoTo, BackAgain, SameProgram, ProgramsOK, SameClient
<1>4. FilesAt(c)'
  BY <1>1 DEF BackAgain, ClientAt, FilesAt, IsFile
<1>5. StageAt(c)'
  BY <1>1, <1>2 DEF BackAgain, ClientAt, StageAt
<1>6. JobAt(c)'
  BY <1>1 DEF BackAgain, JobAt
<1> QED BY <1>1, <1>2, <1>3, <1>4, <1>5, <1>6 DEF StepOK, ClientAt, BackAgain

\* What a program remembers of an answer.
Remembers(c) ==
    /\ fd' = IF waiting[c].code = "REQUEST_OPEN" THEN [fd EXCEPT ![c] = ret'[c].value] ELSE fd
    /\ size' = IF waiting[c].code = "REQUEST_LSEEK" /\ waiting[c].whence = "END"
               THEN [size EXCEPT ![c] = ret'[c].value] ELSE size
    /\ buffer' = IF waiting[c].code = "REQUEST_READ" THEN [buffer EXCEPT ![c] = ret'[c].data]
                 ELSE buffer
    /\ UNCHANGED <<app, task, left, undisturbed>>

\* Whether it takes the answer for success.
Succeeded(c) == Succeeds(c, waiting[c], ret'[c].value, ret'[c].data)
ResultOfCall(c) ==
    IF ~Succeeded(c) THEN -1
    ELSE IF waiting[c].code = "REQUEST_WRITE" THEN ret'[c].value ELSE result[c]

GoesOn(c) ==
    /\ Succeeded(c) /\ ~IsLast(c) /\ at' = [at EXCEPT ![c] = @ + 1]
    /\ UNCHANGED <<stage, saved>>
Completes(c) ==
    /\ Succeeded(c) /\ IsLast(c) /\ GoTo(c, "menu") /\ UNCHANGED at
    /\ saved' = IF task[c].kind = "download" THEN [saved EXCEPT ![c] = buffer[c]] ELSE saved
GivesUp(c) == ~Succeeded(c) /\ GoTo(c, "menu") /\ UNCHANGED <<at, saved>>

\* The three ways in which a call of a command comes back.
LEMMA ReturnsParts ==
    ASSUME NEW c \in Sessions, ControlInv, returns(c)
    PROVE  /\ stage[c] = "work" /\ Remembers(c)
           /\ result' = [result EXCEPT ![c] = ResultOfCall(c)]
           /\ GoesOn(c) \/ Completes(c) \/ GivesUp(c)
<1>1. stage[c] = "work" /\ Remembers(c)
  BY DEF returns, Remembers
<1>2. GoesOn(c) \/ Completes(c) \/ GivesUp(c)
  BY DEF returns, GoesOn, Completes, GivesUp, Succeeded
<1>3. result' = IF ~Succeeded(c) THEN [result EXCEPT ![c] = -1]
                ELSE IF waiting[c].code = "REQUEST_WRITE"
                     THEN [result EXCEPT ![c] = ret'[c].value] ELSE result
  BY DEF returns, Succeeded
<1>4. result' = [result EXCEPT ![c] = ResultOfCall(c)]
  <2> HIDE DEF Succeeded
  <2>1. result \in [Sessions -> Int]
    BY DEF ControlInv, VariablesOK, ProgramsOK
  <2> QED BY <1>3, <2>1 DEF ResultOfCall
<1> QED BY <1>1, <1>2, <1>4

\* How many calls a command makes does not depend on what it gets for them.
LEMMA LengthFixed ==
    ASSUME NEW t \in Tasks, NEW d \in Int, NEW n \in Int, NEW e \in Int, NEW m \in Int
    PROVE  Len(CallsOf(t, d, n)) = Len(CallsOf(t, e, m))
<1>1. CASE t \in DownloadTasks
  BY <1>1, DownloadCalls DEF DownloadTasks
<1>2. CASE t \in SendTasks
  BY <1>2, SendCalls DEF SendTasks
<1>3. CASE t \in Client2Tasks
  BY <1>3, Client2Calls DEF Client2Tasks
<1>4. CASE t \in Client1Tasks
  <2>1. Len(CallsOf(t, d, n)) = 22
    BY <1>4, Client1Calls DEF Client1Tasks
  <2>2. Len(CallsOf(t, e, m)) = 22
    BY <1>4, Client1Calls DEF Client1Tasks
  <2> QED BY <2>1, <2>2
<1>5. CASE t \in CommandTasks
  BY <1>5, CommandCalls
<1> QED BY <1>1, <1>2, <1>3, <1>4, <1>5 DEF Tasks

\* A call of a command comes back (NFSUserApp.cpp:192-335).
LEMMA ReturnsOK ==
    ASSUME NEW c \in Sessions, ControlInv, returns(c)
    PROVE  StepOK(c)
<1> USE DEF ControlInv, VariablesOK
<1>1. /\ BackAgain(c) /\ Outcome(c) /\ ClientAt(c) /\ stage[c] = "work" /\ Remembers(c)
      /\ waiting[c] = Calling(c) /\ result' = [result EXCEPT ![c] = ResultOfCall(c)]
      /\ GoesOn(c) \/ Completes(c) \/ GivesUp(c)
  <2>1. stage[c] = "work" /\ ComesBack(c)
    BY DEF returns
  <2> QED BY <2>1, CallComesBack, ReturnsParts
<1>2. GoodCall(Calling(c))
  BY <1>1, CallingGood DEF ClientAt
<1>3. ResultOfCall(c) \in Int
  BY <1>1, OutcomeType DEF ResultOfCall, ProgramsOK
<1>4. ProgramsOK'
  <2>1. fd' \in [Sessions -> -1..MaxFd]
    BY <1>1, OutcomeType DEF Remembers, ProgramsOK
  <2>2. size' \in [Sessions -> -1..MaxOffset]
    BY <1>1, OutcomeType DEF Remembers, ProgramsOK
  <2>3. buffer' \in [Sessions -> Seq(Nat)] /\ result' \in [Sessions -> Int]
    BY <1>1, <1>3, OutcomeType DEF Remembers, ProgramsOK
  <2>4. /\ at' \in [Sessions -> Nat] /\ saved' \in [Sessions -> Seq(Nat)]
        /\ stage' \in [Sessions -> {"connect", "menu", "work", "closing", "leaving", "off"}]
    <3>1. CASE GoesOn(c)
      BY <3>1 DEF GoesOn, ProgramsOK, OfClients
    <3>2. CASE Completes(c)
      BY <3>2 DEF Completes, GoTo, ProgramsOK, OfClients
    <3>3. CASE GivesUp(c)
      BY <3>3 DEF GivesUp, GoTo, ProgramsOK, OfClients
    <3> QED BY <1>1, <3>1, <3>2, <3>3
  <2>5. OfClients(task)' /\ undisturbed' \in [Sessions -> BOOLEAN] /\ app' \in Scenarios
        /\ left' \in [Sessions -> 0..MaxTasks]
    BY <1>1 DEF Remembers, ProgramsOK, OfClients
  <2> QED BY <2>1, <2>2, <2>3, <2>4, <2>5 DEF ProgramsOK
<1>5. ASSUME NEW d \in Sessions \ {c} PROVE SameClient(d)
  <2>1. fd'[d] = fd[d] /\ size'[d] = size[d] /\ buffer'[d] = buffer[d] /\ result'[d] = result[d]
    BY <1>1, <1>5 DEF Remembers, ProgramsOK
  <2>2. at'[d] = at[d] /\ saved'[d] = saved[d] /\ stage'[d] = stage[d]
    <3>1. CASE GoesOn(c)
      BY <3>1 DEF GoesOn, ProgramsOK, OfClients
    <3>2. CASE Completes(c)
      BY <3>2 DEF Completes, GoTo, ProgramsOK, OfClients
    <3>3. CASE GivesUp(c)
      BY <3>3 DEF GivesUp, GoTo, ProgramsOK, OfClients
    <3> QED BY <1>1, <3>1, <3>2, <3>3
  <2> QED BY <1>1, <2>1, <2>2 DEF Remembers, BackAgain, SameProgram, SameClient
<1>6. FilesAt(c)'
  BY <1>1 DEF BackAgain, ClientAt, FilesAt, IsFile
<1>7. StageAt(c)'
  <2>1. session'[c] # "none" /\ root'[c] \in Dirs /\ ~ended'[c]
    BY <1>1 DEF BackAgain, ClientAt, StageAt
  <2>2. CASE GoesOn(c)
    <3>1. stage'[c] = "work" /\ at'[c] = at[c] + 1 /\ at[c] # Len(CallsOf(task[c], fd[c], size[c]))
          /\ task'[c] = task[c] /\ app' = app /\ task[c] \in app[c].tasks
          /\ at[c] \in 1..Len(CallsOf(task[c], fd[c], size[c]))
      BY <1>1, <2>2 DEF GoesOn, IsLast, ProgramsOK, Remembers, ClientAt, StageAt
    <3>2. task[c] \in Tasks /\ fd[c] \in Int /\ size[c] \in Int
      BY <3>1, TasksGiven
    <3>3. fd'[c] \in Int /\ size'[c] \in Int
      BY <1>4, KernelAssumption DEF ProgramsOK
    <3>4. Len(CallsOf(task[c], fd'[c], size'[c])) = Len(CallsOf(task[c], fd[c], size[c]))
          /\ Len(CallsOf(task[c], fd[c], size[c])) \in Nat
      BY <3>2, <3>3, LengthFixed, CallsExist
    <3>5. at'[c] \in 1..Len(CallsOf(task[c], fd[c], size[c]))
      BY <3>1, <3>4
    <3>6. ASSUME task[c].kind = "download", at[c] >= 2 PROVE size'[c] \in Nat
      <4>1. Calling(c) = CallsOf(task[c], fd[c], size[c])[at[c]] /\ at[c] \in 2..5
        BY <1>1, <3>1, <3>6, DownloadCalls DEF Calling, NextCall
      <4>2. CASE at[c] = 2
        <5>1. waiting[c].code = "REQUEST_LSEEK" /\ waiting[c].whence = "END"
          <6>1. waiting[c] = lseek_(fd[c], 0, "END")
            BY <1>1, <3>6, <4>1, <4>2, DownloadCalls
          <6> QED BY <6>1 DEF lseek_
        <5>2. app[c].kind # "test"
          <6>1. app[c] \in Programs
            BY ApplicationsAssumption DEF ProgramsOK
          <6>2. task[c] \notin Client1Tasks \cup Client2Tasks
            BY <3>6 DEF Client1Tasks, Client2Tasks
          <6> QED BY <3>1, <6>1, <6>2 DEF Programs
        <5>3. ret'[c].value >= 0
          BY <2>2, <3>6, <5>1, <5>2 DEF GoesOn, Succeeded, Succeeds, Unchecked
        <5> QED BY <1>1, <5>1, <5>3, OutcomeType DEF Remembers, ProgramsOK
      <4>3. CASE at[c] # 2
        <5>1. size[c] \in Nat
          BY <1>1, <3>6, <4>1, <4>3 DEF ClientAt, StageAt
        <5>2. ~(waiting[c].code = "REQUEST_LSEEK" /\ waiting[c].whence = "END")
          <6>1. waiting[c] \in {lseek_(fd[c], 0, "SET"), read_(fd[c], size[c]), close_(fd[c])}
            <7>1. at[c] \in {3, 4, 5}
              BY <4>1, <4>3
            <7> QED BY <1>1, <3>6, <4>1, <7>1, DownloadCalls
          <6> QED BY <6>1 DEF lseek_, read_, close_
        <5> QED BY <1>1, <5>1, <5>2 DEF Remembers
      <4> QED BY <4>2, <4>3
    <3> QED BY <2>1, <3>1, <3>4, <3>5, <3>6 DEF StageAt
  <2>3. CASE Completes(c) \/ GivesUp(c)
    <3>1. stage'[c] = "menu"
      BY <2>3 DEF Completes, GivesUp, GoTo, ProgramsOK
    <3> QED BY <2>1, <3>1 DEF StageAt
  <2> QED BY <1>1, <2>2, <2>3
<1>8. JobAt(c)'
  BY <1>1 DEF BackAgain, JobAt
<1> QED BY <1>1, <1>4, <1>5, <1>6, <1>7, <1>8 DEF StepOK, ClientAt, BackAgain

-----------------------------------------------------------------------------
(* The control of the programs, while the system carries a call out.       *)

\* What becomes of the call: it has an answer, or it waits for a lock.
GoodJob(c, j) ==
    \/ /\ j = At("locking", waiting[c]) /\ waiting[c].code = "REQUEST_FLOCK"
       /\ waiting[c].fd \in Fds /\ IsFile(c, waiting[c].fd)'
    \/ /\ j = Done(j.value, j.errno, j.data) /\ j.value \in Int /\ j.data \in Seq(Nat)
       /\ waiting[c].code = "REQUEST_OPEN" => j.value \in -1..MaxFd /\ j.value # 0
       /\ waiting[c].code = "REQUEST_LSEEK" => j.value \in -1..MaxOffset

\* What carrying out a call does.
Executed(c) ==
    /\ KernelTypeOK' /\ FilesAt(c)'
    /\ (\A d \in Sessions \ {c} : fdt'[d] = fdt[d]) /\ UNCHANGED euid
    /\ UNCHANGED <<session, root, waiting, ret, errno, ended>>
    /\ \E j : job' = [job EXCEPT ![c] = j] /\ GoodJob(c, j)

\* A call that the system has to carry out.
LEMMA PendingFacts ==
    ASSUME NEW c \in Sessions, ControlInv, session[c] = "on", job[c].phase = "pending"
    PROVE  /\ job[c] = At("pending", waiting[c]) /\ Arg(c) = waiting[c]
           /\ waiting[c] = Calling(c) /\ GoodCall(waiting[c]) /\ stage[c] \in {"work", "closing"}
           /\ root[c] \in Dirs /\ waiting[c] # NoCall
<1>1. ClientAt(c) /\ ProgramsOK
  BY DEF ControlInv, VariablesOK
<1>2. job[c] = At("pending", waiting[c]) /\ waiting[c] = Calling(c) /\ waiting[c] # NoCall
      /\ stage[c] \in {"work", "closing"}
  <2>1. job[c] # Idle /\ job[c] # At("locking", waiting[c]) /\ ~AnswerAt(c)
    BY DEF Idle, At, AnswerAt, Done
  <2> QED BY <1>1, <2>1 DEF ClientAt, JobAt
<1>3. root[c] \in Dirs
  BY <1>1 DEF ClientAt, StageAt
<1>4. GoodCall(waiting[c])
  BY <1>1, <1>2, CallingGood DEF ClientAt
<1> QED BY <1>2, <1>3, <1>4 DEF Arg, At

\* A failure is an answer.
LEMMA FailsExecuted ==
    ASSUME NEW c \in Sessions, NEW e, ControlInv, session[c] = "on", Fails(c, e)
    PROVE  Executed(c)
<1>1. GoodJob(c, Done(-1, e, << >>))
  BY KernelAssumption DEF GoodJob, Done
<1>2. KernelTypeOK' /\ FilesAt(c)' /\ fdt' = fdt /\ euid' = euid
  BY DEF Fails, kernelVars, ControlInv, VariablesOK, KernelTypeOK, ClientAt, FilesAt, IsFile
<1>3. job' = [job EXCEPT ![c] = Done(-1, e, << >>)]
      /\ UNCHANGED <<session, root, waiting, ret, errno, ended>>
  BY DEF Fails, Answers
<1> QED BY <1>1, <1>2, <1>3 DEF Executed

\* An answer to a call that is no open and no lseek.
LEMMA AnswerGood ==
    ASSUME NEW c \in Sessions, NEW v \in Int, NEW e, NEW data \in Seq(Nat),
           waiting[c].code \notin {"REQUEST_OPEN", "REQUEST_LSEEK"},
           Answers(c, v, e, data)
    PROVE  \E j : job' = [job EXCEPT ![c] = j] /\ GoodJob(c, j)
<1>1. GoodJob(c, Done(v, e, data))
  BY DEF GoodJob, Done
<1> QED BY <1>1 DEF Answers

\* open
LEMMA OpenExecuted ==
    ASSUME NEW c \in Sessions, ControlInv, Open(c)
    PROVE  Executed(c)
<1>1. session[c] = "on" /\ job[c].phase = "pending" /\ Arg(c).code = "REQUEST_OPEN"
  BY DEF Open, Pending, Arg
<1>2. /\ Arg(c) = waiting[c] /\ Where(c) \in Paths /\ Arg(c).oflag \in OFlags /\ KernelTypeOK
      /\ FilesAt(c)
  BY <1>1, PendingFacts, NamesArePaths DEF GoodCall, Where, ControlInv, VariablesOK, ClientAt
<1>3. CASE \E e : Fails(c, e)
  BY <1>1, <1>3, FailsExecuted
<1>4. ASSUME NEW h \in Fds \ {0}, OpenAt(c, Where(c), Arg(c).oflag, h), Answers(c, h, "0", << >>)
      PROVE  Executed(c)
  <2>1. KernelTypeOK' /\ UNCHANGED euid
    <3>1. KernelTypeOK'
      BY <1>2, <1>4, OpenAtType
    <3> QED BY <1>4, <3>1 DEF OpenAt
  <2>2. /\ \A t \in Sessions \ {c} : fdt'[t] = fdt[t]
        /\ \A g \in Fds \ {h} : fdt'[c][g] = fdt[c][g]
        /\ fdt'[c][h].ino \in Inodes
    BY <1>2, <1>4, FileOpened
  <2>3. FilesAt(c)'
    BY <1>2, <2>2 DEF FilesAt, IsFile
  <2>4. h \in Int /\ h \in -1..MaxFd /\ h # 0
    BY KernelAssumption DEF Fds
  <2>5. \E j : job' = [job EXCEPT ![c] = j] /\ GoodJob(c, j)
    <3>1. GoodJob(c, Done(h, "0", << >>))
      BY <1>1, <1>2, <2>4 DEF GoodJob, Done
    <3> QED BY <1>4, <3>1 DEF Answers
  <2> QED BY <1>4, <2>1, <2>2, <2>3, <2>5 DEF Executed, Answers
<1> QED BY <1>3, <1>4 DEF Open

\* close
LEMMA CloseExecuted ==
    ASSUME NEW c \in Sessions, ControlInv, Close(c)
    PROVE  Executed(c)
<1>1. session[c] = "on" /\ job[c].phase = "pending" /\ Arg(c).code = "REQUEST_CLOSE"
  BY DEF Close, Pending, Arg
<1>2. Arg(c) = waiting[c] /\ KernelTypeOK /\ FilesAt(c)
  BY <1>1, PendingFacts DEF ControlInv, VariablesOK, ClientAt
<1>3. CASE Fails(c, "EBADF")
  BY <1>1, <1>3, FailsExecuted
<1>4. CASE SysClose(c, {Arg(c).fd}) /\ Answers(c, 0, "0", << >>)
  <2>1. KernelTypeOK' /\ UNCHANGED euid
    BY <1>2, <1>4, SysCloseType DEF SysClose
  <2>2. /\ \A t \in Sessions \ {c} : fdt'[t] = fdt[t]
        /\ \A g \in Fds \ {Arg(c).fd} : fdt'[c][g] = fdt[c][g]
        /\ \A g \in Fds : IsFile(c, g)' => g \notin {Arg(c).fd}
    BY <1>2, <1>4, FilesClosed
  <2>3. FilesAt(c)'
    BY <1>2, <2>2 DEF FilesAt, IsFile
  <2>4. \E j : job' = [job EXCEPT ![c] = j] /\ GoodJob(c, j)
    <3>1. << >> \in Seq(Nat) /\ 0 \in Int
      OBVIOUS
    <3> QED BY <1>1, <1>2, <1>4, <3>1, AnswerGood
  <2> QED BY <1>4, <2>1, <2>2, <2>3, <2>4 DEF Executed, Answers
<1> QED BY <1>3, <1>4 DEF Close

\* read
LEMMA ReadExecuted ==
    ASSUME NEW c \in Sessions, ControlInv, Read(c)
    PROVE  Executed(c)
<1> DEFINE h == Arg(c).fd
           data == ReadData(c, h, Arg(c).size)
<1>1. session[c] = "on" /\ job[c].phase = "pending" /\ Arg(c).code = "REQUEST_READ"
  BY DEF Read, Pending, Arg
<1>2. /\ Arg(c) = waiting[c] /\ Arg(c).size \in Int /\ KernelTypeOK /\ FilesAt(c)
      /\ h \in Fds /\ IsFile(c, h)
  BY <1>1, PendingFacts DEF GoodCall, ControlInv, VariablesOK, ClientAt, Read, Fit
<1>3. data \in Seq(Nat) /\ Len(data) \in Int
  BY <1>2, ReadDataType, LenProperties DEF FilesAt
<1>4. KernelTypeOK' /\ UNCHANGED euid
  BY <1>2, <1>3, SysReadType DEF Read, SysRead
<1>5. /\ \A t \in Sessions \ {c} : fdt'[t] = fdt[t]
      /\ \A g \in Fds \ {h} : fdt'[c][g] = fdt[c][g]
      /\ fdt'[c][h].ino = fdt[c][h].ino
  <2>1. PICK n : fdt' = [fdt EXCEPT ![c][h].pos = n]
    BY DEF Read, SysRead
  <2> QED BY <1>2, <2>1, PositionSet
<1>6. FilesAt(c)'
  BY <1>2, <1>5 DEF FilesAt, IsFile
<1>7. \E j : job' = [job EXCEPT ![c] = j] /\ GoodJob(c, j)
  <2>1. Answers(c, Len(data), "0", data)
    BY DEF Read
  <2> HIDE DEF data
  <2> QED BY <1>1, <1>2, <1>3, <2>1, AnswerGood
<1> QED BY <1>4, <1>5, <1>6, <1>7 DEF Executed, Read, Answers

\* write
LEMMA WriteExecuted ==
    ASSUME NEW c \in Sessions, ControlInv, Write(c)
    PROVE  Executed(c)
<1> DEFINE h == Arg(c).fd
           n == WriteCount(c, h, Arg(c).data)
<1>1. session[c] = "on" /\ job[c].phase = "pending" /\ Arg(c).code = "REQUEST_WRITE"
  BY DEF Write, Pending, Arg
<1>2. Arg(c) = waiting[c] /\ Arg(c).data \in Seq(Nat) /\ KernelTypeOK /\ FilesAt(c)
  BY <1>1, PendingFacts DEF GoodCall, ControlInv, VariablesOK, ClientAt
<1>3. CASE \E e : Fails(c, e)
  BY <1>1, <1>3, FailsExecuted
<1>4. CASE Fit(c, {"WR"}) /\ SysWrite(c, h, Arg(c).data) /\ Answers(c, n, "0", << >>)
  <2>1. h \in Fds /\ IsFile(c, h) /\ fdt[c][h].ino \in Inodes
    BY <1>2, <1>4 DEF Fit, FilesAt
  <2>2. KernelTypeOK' /\ n \in 0..Len(Arg(c).data) /\ UNCHANGED euid
    BY <1>2, <1>4, <2>1, SysWriteType DEF SysWrite
  <2>3. /\ \A t \in Sessions \ {c} : fdt'[t] = fdt[t]
        /\ \A g \in Fds \ {h} : fdt'[c][g] = fdt[c][g]
        /\ fdt'[c][h].ino = fdt[c][h].ino
    <3>1. CASE fdt' = fdt
      BY <3>1
    <3>2. CASE fdt' = [fdt EXCEPT ![c][h].pos = WritePos(c, h) + n]
      BY <1>2, <2>1, <3>2, PositionSet
    <3> QED BY <1>4, <3>1, <3>2 DEF SysWrite
  <2>4. FilesAt(c)'
    BY <1>2, <2>1, <2>3 DEF FilesAt, IsFile
  <2>5. \E j : job' = [job EXCEPT ![c] = j] /\ GoodJob(c, j)
    <3>1. n \in Int /\ << >> \in Seq(Nat)
      BY <1>2, <2>2, LenProperties
    <3> HIDE DEF n
    <3> QED BY <1>1, <1>2, <1>4, <3>1, AnswerGood
  <2> QED BY <1>4, <2>2, <2>3, <2>4, <2>5 DEF Executed, Answers
<1> QED BY <1>3, <1>4 DEF Write

\* lseek
LEMMA LseekExecuted ==
    ASSUME NEW c \in Sessions, ControlInv, Lseek(c)
    PROVE  Executed(c)
<1> DEFINE h == Arg(c).fd
<1>1. session[c] = "on" /\ job[c].phase = "pending" /\ Arg(c).code = "REQUEST_LSEEK"
  BY DEF Lseek, Pending, Arg
<1>2. Arg(c) = waiting[c] /\ KernelTypeOK /\ FilesAt(c)
  BY <1>1, PendingFacts DEF ControlInv, VariablesOK, ClientAt
<1>3. CASE \E e : Fails(c, e)
  BY <1>1, <1>3, FailsExecuted
<1>4. CASE /\ Fit(c, {}) /\ Target(c) \in 0..MaxOffset
           /\ SysLseek(c, h, Target(c)) /\ Answers(c, Target(c), "0", << >>)
  <2>1. h \in Fds /\ IsFile(c, h) /\ Target(c) \in Nat /\ Target(c) \in -1..MaxOffset
    BY <1>4, KernelAssumption DEF Fit
  <2>2. KernelTypeOK'
    BY <1>2, <1>4, <2>1, SysLseekType
  <2>3. fdt' = [fdt EXCEPT ![c][h].pos = Target(c)] /\ UNCHANGED euid
    BY <1>4 DEF SysLseek
  <2>4. /\ \A t \in Sessions \ {c} : fdt'[t] = fdt[t]
        /\ \A g \in Fds \ {h} : fdt'[c][g] = fdt[c][g]
        /\ fdt'[c][h].ino = fdt[c][h].ino
    BY <1>2, <2>1, <2>3, PositionSet
  <2>5. FilesAt(c)'
    BY <1>2, <2>1, <2>4 DEF FilesAt, IsFile
  <2>6. \E j : job' = [job EXCEPT ![c] = j] /\ GoodJob(c, j)
    <3>1. GoodJob(c, Done(Target(c), "0", << >>))
      BY <1>1, <1>2, <2>1 DEF GoodJob, Done
    <3> QED BY <1>4, <3>1 DEF Answers
  <2> QED BY <1>4, <2>2, <2>3, <2>4, <2>5, <2>6 DEF Executed, Answers
<1> QED BY <1>3, <1>4 DEF Lseek

\* fstat
LEMMA FstatExecuted ==
    ASSUME NEW c \in Sessions, ControlInv, Fstat(c)
    PROVE  Executed(c)
<1> DEFINE i == fdt[c][Arg(c).fd].ino
<1>1. session[c] = "on" /\ job[c].phase = "pending" /\ Arg(c).code = "REQUEST_FSTAT"
  BY DEF Fstat, Pending, Arg
<1>2. Arg(c) = waiting[c] /\ KernelTypeOK /\ FilesAt(c)
  BY <1>1, PendingFacts DEF ControlInv, VariablesOK, ClientAt
<1>3. CASE Fails(c, "EBADF")
  BY <1>1, <1>3, FailsExecuted
<1>4. CASE Fit(c, {}) /\ Answers(c, 0, "0", <<i, Len(content[i])>>) /\ UNCHANGED kernelVars
  <2>1. <<i, Len(content[i])>> \in Seq(Nat)
    <3>1. i \in Inodes /\ i \in Nat
      BY <1>2, <1>4, KernelAssumption DEF Fit, FilesAt
    <3>2. content[i] \in Seq(Nat)
      BY <1>2, <3>1 DEF KernelTypeOK
    <3>3. Len(content[i]) \in Nat
      BY <3>2, LenProperties
    <3> QED BY <3>1, <3>3
  <2>2. KernelTypeOK' /\ FilesAt(c)' /\ fdt' = fdt /\ UNCHANGED euid
    BY <1>2, <1>4 DEF kernelVars, KernelTypeOK, FilesAt, IsFile
  <2>3. \E j : job' = [job EXCEPT ![c] = j] /\ GoodJob(c, j)
    <3> HIDE DEF i
    <3>1. 0 \in Int
      OBVIOUS
    <3> QED BY <1>1, <1>2, <1>4, <2>1, <3>1, AnswerGood
  <2> QED BY <1>4, <2>2, <2>3 DEF Executed, Answers
<1> QED BY <1>3, <1>4 DEF Fstat

\* unlink
LEMMA UnlinkExecuted ==
    ASSUME NEW c \in Sessions, ControlInv, Unlink(c)
    PROVE  Executed(c)
<1>1. session[c] = "on" /\ job[c].phase = "pending" /\ Arg(c).code = "REQUEST_UNLINK"
  BY DEF Unlink, Pending, Arg
<1>2. Arg(c) = waiting[c] /\ KernelTypeOK /\ FilesAt(c) /\ Where(c) \in Paths
  BY <1>1, PendingFacts, NamesArePaths DEF GoodCall, Where, ControlInv, VariablesOK, ClientAt
<1>3. CASE \E e : Fails(c, e)
  BY <1>1, <1>3, FailsExecuted
<1>4. CASE SysUnlink(c, Where(c)) /\ Answers(c, 0, "0", << >>)
  <2>1. KernelTypeOK'
    BY <1>2, <1>4, SysUnlinkType
  <2>2. fdt' = fdt /\ FilesAt(c)' /\ UNCHANGED euid
    BY <1>2, <1>4 DEF SysUnlink, FilesAt, IsFile
  <2>3. \E j : job' = [job EXCEPT ![c] = j] /\ GoodJob(c, j)
    <3>1. << >> \in Seq(Nat) /\ 0 \in Int
      OBVIOUS
    <3> QED BY <1>1, <1>2, <1>4, <3>1, AnswerGood
  <2> QED BY <1>4, <2>1, <2>2, <2>3 DEF Executed, Answers
<1> QED BY <1>3, <1>4 DEF Unlink

\* The lock of one file changes.
LEMMA LockExecuted ==
    ASSUME NEW c \in Sessions, NEW h \in Fds, NEW mode \in LockModes, ControlInv,
           IsFile(c, h), SetLock(c, h, mode)
    PROVE  /\ KernelTypeOK' /\ FilesAt(c)' /\ IsFile(c, h)' /\ UNCHANGED euid
           /\ \A d \in Sessions \ {c} : fdt'[d] = fdt[d]
<1>1. KernelTypeOK /\ FilesAt(c)
  BY DEF ControlInv, VariablesOK, ClientAt
<1>2. KernelTypeOK'
  BY <1>1, SetLockType
<1>3. fdt' = [fdt EXCEPT ![c][h].lock = mode] /\ UNCHANGED euid
  BY DEF SetLock
<1>4. /\ \A t \in Sessions \ {c} : fdt'[t] = fdt[t]
      /\ \A g \in Fds \ {h} : fdt'[c][g] = fdt[c][g]
      /\ fdt'[c][h].ino = fdt[c][h].ino /\ fdt'[c][h].kind = fdt[c][h].kind
  BY <1>1, <1>3, LockSet
<1>5. FilesAt(c)' /\ IsFile(c, h)'
  BY <1>1, <1>4 DEF FilesAt, IsFile
<1> QED BY <1>2, <1>3, <1>4, <1>5

\* flock, as far as it gives an old lock up
LEMMA FlockExecuted ==
    ASSUME NEW c \in Sessions, ControlInv, Flock(c)
    PROVE  Executed(c)
<1> DEFINE h == Arg(c).fd
           mode == Arg(c).operation
<1>1. session[c] = "on" /\ job[c].phase = "pending" /\ Arg(c).code = "REQUEST_FLOCK"
  BY DEF Flock, Pending, Arg
<1>2. Arg(c) = waiting[c] /\ mode \in LockModes /\ "UN" \in LockModes
  BY <1>1, PendingFacts DEF GoodCall, LockModes
<1>3. CASE Fails(c, "EBADF")
  BY <1>1, <1>3, FailsExecuted
<1>4. CASE Fit(c, {}) /\ SetLock(c, h, mode) /\ Answers(c, 0, "0", << >>)
  <2>1. /\ KernelTypeOK' /\ FilesAt(c)' /\ UNCHANGED euid
        /\ \A d \in Sessions \ {c} : fdt'[d] = fdt[d]
    BY <1>2, <1>4, LockExecuted DEF Fit
  <2>2. \E j : job' = [job EXCEPT ![c] = j] /\ GoodJob(c, j)
    <3>1. << >> \in Seq(Nat) /\ 0 \in Int
      OBVIOUS
    <3> QED BY <1>1, <1>2, <1>4, <3>1, AnswerGood
  <2> QED BY <1>4, <2>1, <2>2 DEF Executed, Answers
<1>5. CASE /\ Fit(c, {}) /\ SetLock(c, h, "UN") /\ job' = [job EXCEPT ![c] = At("locking", Arg(c))]
           /\ UNCHANGED <<session, root, waiting, ret, errno, ended>>
  <2> PICK g : g = h
    OBVIOUS
  <2>1. /\ KernelTypeOK' /\ FilesAt(c)' /\ UNCHANGED euid /\ IsFile(c, g)' /\ g \in Fds
        /\ \A d \in Sessions \ {c} : fdt'[d] = fdt[d]
    BY <1>2, <1>5, LockExecuted DEF Fit
  <2>2. GoodJob(c, At("locking", Arg(c)))
    BY <1>1, <1>2, <1>5, <2>1 DEF GoodJob, IsFile
  <2> QED BY <1>5, <2>1, <2>2 DEF Executed
<1> QED BY <1>3, <1>4, <1>5 DEF Flock

\* A call that waits for a lock.
LEMMA LockingFacts ==
    ASSUME NEW c \in Sessions, ControlInv, session[c] = "on", job[c].phase = "locking"
    PROVE  /\ job[c] = At("locking", waiting[c]) /\ Arg(c) = waiting[c] /\ waiting[c] = Calling(c)
           /\ GoodCall(waiting[c]) /\ waiting[c].code = "REQUEST_FLOCK" /\ waiting[c] # NoCall
           /\ stage[c] \in {"work", "closing"} /\ Fit(c, {})
<1>1. ClientAt(c) /\ ProgramsOK
  BY DEF ControlInv, VariablesOK
<1>2. job[c] = At("locking", waiting[c]) /\ waiting[c] = Calling(c) /\ waiting[c] # NoCall
      /\ stage[c] \in {"work", "closing"} /\ waiting[c].code = "REQUEST_FLOCK" /\ Fit(c, {})
  <2>1. job[c] # Idle /\ job[c] # At("pending", waiting[c]) /\ ~AnswerAt(c)
    BY DEF Idle, At, AnswerAt, Done
  <2> QED BY <1>1, <2>1 DEF ClientAt, JobAt
<1>3. GoodCall(waiting[c])
  BY <1>1, <1>2, CallingGood DEF ClientAt
<1> QED BY <1>2, <1>3 DEF Arg, At

\* flock, as far as it takes a new lock
LEMMA FlockEndsExecuted ==
    ASSUME NEW c \in Sessions, ControlInv, FlockEnds(c)
    PROVE  Executed(c)
<1> DEFINE h == Arg(c).fd
           mode == Arg(c).operation
<1>1. session[c] = "on" /\ job[c].phase = "locking"
  BY DEF FlockEnds
<1>2. Arg(c) = waiting[c] /\ mode \in LockModes /\ Fit(c, {}) /\ waiting[c].code = "REQUEST_FLOCK"
  BY <1>1, LockingFacts DEF GoodCall
<1>3. CASE Fails(c, "EWOULDBLOCK")
  BY <1>1, <1>3, FailsExecuted
<1>4. CASE SetLock(c, h, mode) /\ Answers(c, 0, "0", << >>)
  <2>1. /\ KernelTypeOK' /\ FilesAt(c)' /\ UNCHANGED euid
        /\ \A d \in Sessions \ {c} : fdt'[d] = fdt[d]
    BY <1>2, <1>4, LockExecuted DEF Fit
  <2>2. \E j : job' = [job EXCEPT ![c] = j] /\ GoodJob(c, j)
    <3>1. << >> \in Seq(Nat) /\ 0 \in Int
      OBVIOUS
    <3> QED BY <1>1, <1>2, <1>4, <3>1, AnswerGood
  <2> QED BY <1>4, <2>1, <2>2 DEF Executed, Answers
<1> QED BY <1>3, <1>4 DEF FlockEnds

\* What the system does leaves the programs alone.
SameApps == UNCHANGED <<app, stage, task, at, left, fd, size, buffer, saved, result>>

\* A step of the server keeps every program where it is.
LEMMA AppsKept ==
    ASSUME NEW c \in Sessions, ControlInv, ServerActs(c)
    PROVE  SameApps /\ ProgramsOK' /\ \A d \in Sessions : SameProgram(d)
<1>1. SameApps
  BY DEF ServerActs, SameApps
<1>2. undisturbed' \in [Sessions -> BOOLEAN]
  BY DEF ServerActs, ControlInv, VariablesOK, ProgramsOK
<1>3. ProgramsOK'
  BY <1>1, <1>2 DEF SameApps, ControlInv, VariablesOK, ProgramsOK, OfClients
<1> QED BY <1>1, <1>3 DEF SameApps, SameProgram

\* The system carries out a call.
LEMMA ExecutesOK ==
    ASSUME NEW c \in Sessions, ControlInv, ServerActs(c), Executes(c)
    PROVE  StepOK(c)
<1> USE DEF ControlInv, VariablesOK
<1>1. Executed(c)
  BY OpenExecuted, CloseExecuted, ReadExecuted, WriteExecuted, LseekExecuted, FstatExecuted,
     UnlinkExecuted, FlockExecuted, FlockEndsExecuted DEF Executes
<1>2. ClientAt(c) /\ session[c] = "on" /\ waiting[c] # NoCall /\ waiting[c] = Calling(c)
      /\ stage[c] \in {"work", "closing"}
  <2>1. session[c] = "on" /\ job[c].phase \in {"pending", "locking"}
    BY DEF Executes, Open, Close, Read, Write, Lseek, Fstat, Unlink, Flock, FlockEnds, Pending
  <2> QED BY <2>1, PendingFacts, LockingFacts
<1>3. SameApps /\ ProgramsOK' /\ \A d \in Sessions : SameProgram(d)
  BY AppsKept
<1>4. PICK j : job' = [job EXCEPT ![c] = j] /\ GoodJob(c, j)
  BY <1>1 DEF Executed
<1>5. RemoteOK'
  BY <1>1, <1>4 DEF Executed, RemoteOK, OfClients
<1>6. \A d \in Sessions \ {c} : SameClient(d)
  BY <1>1, <1>3, <1>4 DEF Executed, RemoteOK, OfClients, SameRemote, SameClient
<1>7. StageAt(c)'
  BY <1>1, <1>2, <1>3 DEF Executed, ClientAt, StageAt, SameApps
<1>8. job'[c] = j /\ waiting' = waiting /\ session' = session /\ Calling(c)' = Calling(c)
      /\ stage' = stage
  BY <1>1, <1>3, <1>4 DEF Executed, RemoteOK, OfClients, SameApps, Calling, NextCall
<1>9. JobAt(c)'
  <2>1. CASE j = At("locking", waiting[c]) /\ waiting[c].code = "REQUEST_FLOCK"
             /\ waiting[c].fd \in Fds /\ IsFile(c, waiting[c].fd)'
    <3>1. Fit(c, {})'
      BY <1>8, <2>1 DEF Fit, Arg, At, IsFile
    <3> QED BY <1>2, <1>8, <2>1, <3>1 DEF JobAt
  <2>2. CASE ~(j = At("locking", waiting[c]) /\ waiting[c].code = "REQUEST_FLOCK"
             /\ waiting[c].fd \in Fds /\ IsFile(c, waiting[c].fd)')
    <3>1. AnswerAt(c)'
      BY <1>4, <1>8, <2>2 DEF GoodJob, AnswerAt
    <3> QED BY <1>2, <1>8, <3>1 DEF JobAt
  <2> QED BY <2>1, <2>2
<1> QED BY <1>1, <1>3, <1>5, <1>6, <1>7, <1>9 DEF StepOK, ClientAt, Executed

\* A session ends, or what it leaves behind goes.
LEMMA SessionStepsOK ==
    ASSUME NEW c \in Sessions, ControlInv, ServerActs(c),
           SessionEnds(c) \/ Releases(c) \/ Drops(c)
    PROVE  StepOK(c)
<1> USE DEF ControlInv, VariablesOK
<1>1. SameApps /\ ProgramsOK' /\ \A d \in Sessions : SameProgram(d)
  BY AppsKept
<1>2. ClientAt(c)
  OBVIOUS
<1>3. CASE SessionEnds(c)
  <2>1. KernelTypeOK' /\ RemoteOK' /\ FilesAt(c)' /\ \A d \in Sessions \ {c} : SameRemote(d)
    BY <1>3 DEF SessionEnds, kernelVars, KernelTypeOK, RemoteOK, OfClients, FilesAt, IsFile,
                SameRemote, ClientAt
  <2>2. session'[c] = "over" /\ job'[c] = Idle /\ UNCHANGED <<root, waiting, ended>>
    BY <1>3 DEF SessionEnds, RemoteOK, OfClients
  <2>3. Calling(c)' = Calling(c) /\ stage' = stage
    BY <1>1 DEF SameApps, Calling, NextCall
  <2>4. StageAt(c)'
    <3>1. session[c] = "on"
      BY <1>3 DEF SessionEnds
    <3> QED BY <1>1, <2>2, <3>1 DEF ClientAt, StageAt, SameApps
  <2>5. JobAt(c)'
    BY <2>2, <2>3 DEF ClientAt, JobAt
  <2> QED BY <1>1, <2>1, <2>4, <2>5 DEF StepOK, ClientAt, SameClient
<1>4. CASE Releases(c)
  <2>1. SysClose(c, Fds) /\ UNCHANGED apiVars /\ session[c] = "over"
    BY <1>4 DEF Releases
  <2>2. KernelTypeOK' /\ UNCHANGED euid
    BY <2>1, SysCloseType DEF SysClose
  <2>3. /\ \A t \in Sessions \ {c} : fdt'[t] = fdt[t]
        /\ \A g \in Fds : IsFile(c, g)' => g \notin Fds
    BY <2>1, FilesClosed
  <2>4. RemoteOK' /\ FilesAt(c)' /\ \A d \in Sessions \ {c} : SameRemote(d)
    BY <2>1, <2>2, <2>3 DEF apiVars, RemoteOK, OfClients, FilesAt, SameRemote
  <2>5. Calling(c)' = Calling(c) /\ StageAt(c)'
    BY <1>1, <2>1 DEF SameApps, Calling, NextCall, apiVars, ClientAt, StageAt
  <2>6. JobAt(c)'
    BY <1>1, <2>1, <2>5 DEF ClientAt, JobAt, apiVars, SameApps, AnswerAt
  <2> QED BY <1>1, <2>2, <2>4, <2>5, <2>6 DEF StepOK, ClientAt, SameClient
<1>5. CASE Drops(c)
  <2>1. KernelTypeOK' /\ RemoteOK' /\ FilesAt(c)' /\ \A d \in Sessions \ {c} : SameRemote(d)
    BY <1>5 DEF Drops, kernelVars, KernelTypeOK, RemoteOK, OfClients, FilesAt, IsFile,
                SameRemote, ClientAt
  <2>2. ended[c] /\ stage[c] = "off"
    BY <1>5 DEF Drops, ClientAt, StageAt
  <2>3. waiting[c] = NoCall
    BY <2>2 DEF ClientAt, JobAt
  <2>4. job'[c] = Idle /\ UNCHANGED <<session, root, waiting, ended>>
    BY <1>5 DEF Drops, RemoteOK, OfClients
  <2>5. StageAt(c)' /\ JobAt(c)'
    BY <1>1, <2>2, <2>3, <2>4 DEF SameApps, ClientAt, StageAt, JobAt
  <2> QED BY <1>1, <2>1, <2>5 DEF StepOK, ClientAt, SameClient
<1> QED BY <1>3, <1>4, <1>5

\* Every step keeps the programs and the calls in order.
LEMMA NextControl ==
    ASSUME NEW c \in Sessions, ControlInv, ApplicationActs(c) \/ ServerActs(c)
    PROVE  StepOK(c) /\ ControlInv'
<1>1. ApplicationActs(c) => StepOK(c)
  BY ConnectsOK, BeginsOK, CallsOK, ReturnsOK, ExitsOK, ClosedOK, EndsOK
     DEF ApplicationActs
<1>2. ServerActs(c) => StepOK(c)
  BY ExecutesOK, SessionStepsOK DEF ServerActs, SystemActs
<1>3. StepOK(c)
  BY <1>1, <1>2
<1> QED BY <1>3, StepKeepsControl

\* A step that changes nothing keeps all that is said of the state.
LEMMA StutterControl ==
    ASSUME ControlInv, UNCHANGED applicationVars
    PROVE  ControlInv'
<1> USE DEF applicationVars, remoteVars, kernelVars, apiVars, appVars
<1>1. VariablesOK'
  BY DEF ControlInv, VariablesOK, KernelTypeOK, RemoteOK, ProgramsOK, OfClients
<1>2. \A c \in Sessions : ClientAt(c)'
  <2>1. \A c \in Sessions : SameClient(c)
    BY DEF SameClient, SameRemote, SameProgram
  <2> QED BY <2>1, ClientKept DEF ControlInv
<1> QED BY <1>1, <1>2 DEF ControlInv

\* The programs start like that.
LEMMA InitControl ==
    ASSUME ApplicationsInit
    PROVE  ControlInv
<1>1. KernelTypeOK
  <2>1. NoTable \in [Fds -> Slot]
    BY EmptySlotType DEF NoTable, FreeSlot
  <2>2. dir = InitialDir /\ content = [i \in Inodes |-> << >>]
        /\ fdt = [s \in Sessions |-> NoTable] /\ euid = [s \in Sessions |-> Root]
    BY DEF ApplicationsInit, RemoteInit, KernelInit
  <2> QED BY <2>1, <2>2, KernelAssumption DEF KernelTypeOK
<1>2. RemoteOK
  BY DEF RemoteOK, OfClients, ApplicationsInit, RemoteInit
<1>3. ProgramsOK
  <2>1. left \in [Sessions -> 0..MaxTasks]
    <3>1. 1 \in 0..MaxTasks /\ MaxTasks \in 0..MaxTasks
      BY ApplicationsAssumption
    <3> QED BY <3>1 DEF ApplicationsInit
  <2>2. fd \in [Sessions -> -1..MaxFd] /\ size \in [Sessions -> -1..MaxOffset]
    <3>1. -1 \in -1..MaxFd /\ 0 \in -1..MaxOffset
      BY KernelAssumption
    <3> QED BY <3>1 DEF ApplicationsInit
  <2>3. buffer \in [Sessions -> Seq(Nat)] /\ result \in [Sessions -> Int]
    <3>1. << >> \in Seq(Nat) /\ 0 \in Int
      OBVIOUS
    <3> QED BY <3>1 DEF ApplicationsInit
  <2> QED BY <2>1, <2>2, <2>3 DEF ProgramsOK, OfClients, ApplicationsInit
<1>4. ASSUME NEW c \in Sessions PROVE ClientAt(c)
  <2>1. FilesAt(c)
    BY DEF FilesAt, IsFile, NoTable, FreeSlot, EmptySlot, ApplicationsInit, RemoteInit, KernelInit
  <2>2. StageAt(c) /\ JobAt(c)
    BY DEF StageAt, JobAt, ApplicationsInit, RemoteInit
  <2> QED BY <2>1, <2>2 DEF ClientAt
<1> QED BY <1>1, <1>2, <1>3, <1>4 DEF ControlInv, VariablesOK

\* The calls and the commands are always in order.
LEMMA ControlAlways == ApplicationsSpec => []ControlInv
<1>1. ApplicationsInit => ControlInv
  BY InitControl
<1>2. ControlInv /\ [ApplicationsNext]_applicationVars => ControlInv'
  BY NextControl, StutterControl DEF ApplicationsNext
<1> QED BY <1>1, <1>2, PTL DEF ApplicationsSpec

\* The variables of the programs and of the system have their types, what a
\* program asks the library for is always a call that it may make, and it waits
\* for a call only at work or while it closes (NFSUserApp.cpp:192-294,
\* acceptance_test.cpp:43-334, the copy programs).
THEOREM ApplicationsTypesHold == ApplicationsSpec => []ApplicationsTypeOK
<1>1. ControlInv => ApplicationsTypeOK
  <2> SUFFICES ASSUME ControlInv, NEW c \in Sessions, stage[c] = "work"
               PROVE  NextCall(c) \in Request
    BY DEF ControlInv, VariablesOK, ProgramsOK, ClientAt, StageAt, JobAt, ApplicationsTypeOK
  <2>1. /\ at[c] \in 1..Len(CallsOf(task[c], fd[c], size[c])) /\ task[c] \in Tasks
        /\ fd[c] \in Int /\ size[c] \in Int
        /\ task[c].kind = "download" /\ at[c] > 2 => size[c] \in Nat
    BY TasksGiven DEF ControlInv, VariablesOK, ClientAt, StageAt
  <2> QED BY <2>1, CallsAreRequests DEF NextCall
<1> QED BY <1>1, ControlAlways, PTL

-----------------------------------------------------------------------------
(* Locks, and the names of files.                                          *)

\* A step of a client gives locks up, or takes one that nobody excludes.
LEMMA NextLocks ==
    ASSUME NEW c \in Sessions, ControlInv, LocksInv, ApplicationActs(c) \/ ServerActs(c)
    PROVE  LocksInv'
<1>1. KernelTypeOK /\ \A d \in Sessions \ {c} : fdt'[d] = fdt[d]
  BY NextControl DEF ControlInv, VariablesOK, StepOK, SameClient, SameRemote
<1>2. WeakensLocks(c) => LocksInv'
  BY <1>1, WeakerLocks
<1>3. TakesLock(c) => LocksInv'
  BY <1>1, LockTaken
<1>4. fdt' = fdt => WeakensLocks(c)
  BY DEF WeakensLocks, IsFile
<1>5. ApplicationActs(c) => fdt' = fdt
  BY DEF ApplicationActs, connects, LogIn, begins, calls, Call, returns, ComesBack, ReturnsAnswer,
         ReturnsFailure, Return, exits, closed, ends, Ends, remoteVars, kernelVars
<1>6. Open(c) => fdt' = fdt \/ WeakensLocks(c)
  <2>1. (\E e : Fails(c, e)) => fdt' = fdt
    BY DEF Fails, kernelVars
  <2>2. ASSUME NEW h \in Fds, OpenAt(c, Where(c), Arg(c).oflag, h) PROVE WeakensLocks(c)
    BY <1>1, <2>2, OpenWeakens
  <2> QED BY <2>1, <2>2 DEF Open
<1>7. Close(c) \/ Releases(c) => fdt' = fdt \/ WeakensLocks(c)
  <2>1. (\E e : Fails(c, e)) => fdt' = fdt
    BY DEF Fails, kernelVars
  <2>2. ASSUME NEW fds, SysClose(c, fds) PROVE WeakensLocks(c)
    BY <1>1, <2>2, CloseWeakens
  <2> QED BY <2>1, <2>2 DEF Close, Releases
<1>8. Read(c) \/ Write(c) \/ Lseek(c) => fdt' = fdt \/ WeakensLocks(c)
  <2>1. (\E e : Fails(c, e)) => fdt' = fdt
    BY DEF Fails, kernelVars
  <2>2. ASSUME NEW h \in Fds, NEW n, fdt' = [fdt EXCEPT ![c][h].pos = n] PROVE WeakensLocks(c)
    BY <1>1, <2>2, PositionWeakens
  <2>3. ASSUME Read(c) PROVE WeakensLocks(c)
    BY <2>2, <2>3 DEF Read, SysRead, Fit
  <2>4. ASSUME Lseek(c) PROVE fdt' = fdt \/ WeakensLocks(c)
    BY <2>1, <2>2, <2>4 DEF Lseek, SysLseek, Fit
  <2>5. ASSUME Write(c) PROVE fdt' = fdt \/ WeakensLocks(c)
    BY <2>1, <2>2, <2>5 DEF Write, SysWrite, Fit
  <2> QED BY <2>3, <2>4, <2>5
<1>9. Fstat(c) \/ Unlink(c) \/ SessionEnds(c) \/ Drops(c) => fdt' = fdt
  BY DEF Fstat, Unlink, SessionEnds, Drops, Fails, kernelVars, SysUnlink
<1>10. Flock(c) => fdt' = fdt \/ WeakensLocks(c)
  <2>1. (\E e : Fails(c, e)) => fdt' = fdt
    BY DEF Fails, kernelVars
  <2>2. ASSUME NEW h \in Fds, NEW mode, IsFile(c, h), mode \in {fdt[c][h].lock, "UN"},
               SetLock(c, h, mode)
        PROVE  WeakensLocks(c)
    BY <1>1, <2>2, LockWeakens DEF SetLock
  <2> QED BY <2>1, <2>2 DEF Flock, Fit
<1>11. FlockEnds(c) => fdt' = fdt \/ TakesLock(c)
  <2>1. (\E e : Fails(c, e)) => fdt' = fdt
    BY DEF Fails, kernelVars
  <2>2. ASSUME FlockEnds(c), ~LockConflict(c, Arg(c).fd, Arg(c).operation),
               SetLock(c, Arg(c).fd, Arg(c).operation)
        PROVE  TakesLock(c)
    <3>1. Fit(c, {}) /\ Arg(c).operation \in LockModes
      BY <2>2, LockingFacts DEF FlockEnds, GoodCall
    <3> QED BY <2>2, <3>1 DEF TakesLock, SetLock, Fit
  <2> QED BY <2>1, <2>2 DEF FlockEnds
<1> QED BY <1>2, <1>3, <1>4, <1>5, <1>6, <1>7, <1>8, <1>9, <1>10, <1>11
        DEF ServerActs, SystemActs, Executes

\* What a step does to the names of files: it may give one to a new file, or
\* remove one.
NamesStep ==
    \/ dir' = dir
    \/ \E p \in Paths : dir[p] = NoInode /\ ~InodeInUse(dir'[p]) /\ dir' = [dir EXCEPT ![p] = dir'[p]]
    \/ \E p \in Paths : dir' = [dir EXCEPT ![p] = NoInode]

\* No step gives an inode a second name.
LEMMA NextNames ==
    ASSUME NEW c \in Sessions, ControlInv, UniqueNames, ApplicationActs(c) \/ ServerActs(c)
    PROVE  UniqueNames'
<1>1. KernelTypeOK
  BY DEF ControlInv, VariablesOK
<1>2. dir \in [Paths -> Inodes \cup {NoInode}]
  BY <1>1 DEF KernelTypeOK
<1>3. NamesStep
  <2>1. ApplicationActs(c) => dir' = dir
    BY DEF ApplicationActs, connects, LogIn, begins, calls, Call, returns, ComesBack, ReturnsAnswer,
           ReturnsFailure, Return, exits, closed, ends, Ends, remoteVars, kernelVars
  <2>2. Open(c) => NamesStep
    <3>1. (\E e : Fails(c, e)) => dir' = dir
      BY DEF Fails, kernelVars
    <3>2. ASSUME Open(c), NEW h \in Fds, OpenAt(c, Where(c), Arg(c).oflag, h) PROVE NamesStep
      <4>1. Where(c) \in Paths
        BY <3>2, PendingFacts, NamesArePaths DEF Open, Pending, Where, GoodCall, Arg
      <4>2. \/ dir' = dir
            \/ /\ dir[Where(c)] = NoInode /\ ~InodeInUse(dir'[Where(c)])
               /\ dir' = [dir EXCEPT ![Where(c)] = dir'[Where(c)]]
        BY <1>1, <3>2, <4>1, FileOpened
      <4> QED BY <4>1, <4>2 DEF NamesStep
    <3> QED BY <3>1, <3>2 DEF Open, NamesStep
  <2>3. Unlink(c) => NamesStep
    <3>1. ASSUME Unlink(c) PROVE Where(c) \in Paths
      BY <3>1, PendingFacts, NamesArePaths DEF Unlink, Pending, Where, GoodCall, Arg
    <3> QED BY <3>1 DEF Unlink, Fails, kernelVars, SysUnlink, NamesStep
  <2>4. Close(c) \/ Read(c) \/ Write(c) \/ Lseek(c) \/ Fstat(c) \/ Flock(c) \/ FlockEnds(c)
        \/ SessionEnds(c) \/ Releases(c) \/ Drops(c) => dir' = dir
    BY DEF Close, Read, Write, Lseek, Fstat, Flock, FlockEnds, SessionEnds, Releases, Drops, Fails,
           kernelVars, SysClose, SysRead, SysWrite, SysLseek, SetLock
  <2> QED BY <2>1, <2>2, <2>3, <2>4 DEF ServerActs, SystemActs, Executes, NamesStep
<1>4. CASE dir' = dir
  BY <1>4 DEF UniqueNames
<1>5. ASSUME NEW p \in Paths, dir[p] = NoInode, ~InodeInUse(dir'[p]),
             dir' = [dir EXCEPT ![p] = dir'[p]]
      PROVE  UniqueNames'
  <2>1. \A q \in Paths : q # p => dir'[q] = dir[q] /\ dir[q] # dir'[p]
    BY <1>2, <1>5 DEF InodeInUse
  <2> QED BY <2>1 DEF UniqueNames
<1>6. ASSUME NEW p \in Paths, dir' = [dir EXCEPT ![p] = NoInode] PROVE UniqueNames'
  BY <1>2, <1>6 DEF UniqueNames
<1> QED BY <1>3, <1>4, <1>5, <1>6 DEF NamesStep

-----------------------------------------------------------------------------
(* The descriptor in use.                                                  *)

\* The ways in which the system carries out a call r of client c.
Failed(c) == UNCHANGED kernelVars /\ \E e : job'[c] = Done(-1, e, << >>)
OpenDone(c, r) ==
    /\ r.code = "REQUEST_OPEN" /\ OpenErrors(c, Resolved(root[c], r.path), r.oflag) = {}
    /\ \E g \in Fds \ {0} :
          IsFree(c, g) /\ OpenAt(c, Resolved(root[c], r.path), r.oflag, g) /\ job'[c] = Done(g, "0", << >>)
CloseDone(c, r) ==
    r.code = "REQUEST_CLOSE" /\ Fit(c, {}) /\ SysClose(c, {r.fd}) /\ job'[c] = Done(0, "0", << >>)
ReadDone(c, r) ==
    /\ r.code = "REQUEST_READ" /\ Fit(c, {"RD"}) /\ SysRead(c, r.fd, r.size)
    /\ job'[c] = Done(Len(ReadData(c, r.fd, r.size)), "0", ReadData(c, r.fd, r.size))
WriteDone(c, r) ==
    /\ r.code = "REQUEST_WRITE" /\ Fit(c, {"WR"}) /\ SysWrite(c, r.fd, r.data)
    /\ WriteCount(c, r.fd, r.data) > 0 \/ r.data = << >>
    /\ job'[c] = Done(WriteCount(c, r.fd, r.data), "0", << >>)
LseekDone(c, r) ==
    /\ r.code = "REQUEST_LSEEK" /\ Fit(c, {}) /\ Target(c) \in 0..MaxOffset
    /\ SysLseek(c, r.fd, Target(c)) /\ job'[c] = Done(Target(c), "0", << >>)
FstatDone(c, r) ==
    /\ r.code = "REQUEST_FSTAT" /\ Fit(c, {}) /\ UNCHANGED kernelVars
    /\ \E data : job'[c] = Done(0, "0", data)
UnlinkDone(c, r) ==
    /\ r.code = "REQUEST_UNLINK" /\ UnlinkErrors(c, Resolved(root[c], r.path)) = {}
    /\ SysUnlink(c, Resolved(root[c], r.path)) /\ job'[c] = Done(0, "0", << >>)
FlockDone(c, r) ==
    /\ r.code = "REQUEST_FLOCK" /\ Fit(c, {}) /\ SetLock(c, r.fd, r.operation)
    /\ job'[c] = Done(0, "0", << >>)
FlockWaits(c, r) ==
    /\ r.code = "REQUEST_FLOCK" /\ Fit(c, {}) /\ SetLock(c, r.fd, "UN")
    /\ job'[c] = At("locking", r)

\* One of them.
CarriedOut(c, r) ==
    \/ Failed(c) \/ OpenDone(c, r) \/ CloseDone(c, r) \/ ReadDone(c, r) \/ WriteDone(c, r)
    \/ LseekDone(c, r) \/ FstatDone(c, r) \/ UnlinkDone(c, r) \/ FlockDone(c, r) \/ FlockWaits(c, r)

\* A call that takes effect is carried out in one of these ways.
LEMMA ExecutesCases ==
    ASSUME NEW c \in Sessions, ControlInv, Executes(c)
    PROVE  /\ session[c] = "on" /\ session' = session /\ waiting' = waiting /\ root' = root
           /\ waiting[c] = Calling(c) /\ GoodCall(waiting[c]) /\ Arg(c) = waiting[c]
           /\ root[c] \in Dirs /\ job[c].phase \in {"pending", "locking"}
           /\ stage[c] \in {"work", "closing"}
           /\ CarriedOut(c, waiting[c])
<1>1. session[c] = "on" /\ job[c].phase \in {"pending", "locking"}
  BY DEF Executes, Open, Close, Read, Write, Lseek, Fstat, Unlink, Flock, FlockEnds, Pending
<1>2. /\ waiting[c] = Calling(c) /\ GoodCall(waiting[c]) /\ Arg(c) = waiting[c]
      /\ stage[c] \in {"work", "closing"}
  BY <1>1, PendingFacts, LockingFacts
<1>3. root[c] \in Dirs
  BY <1>1 DEF ControlInv, ClientAt, StageAt
<1>4. \A v, e, data : Answers(c, v, e, data) =>
        job'[c] = Done(v, e, data) /\ UNCHANGED <<session, root, waiting>>
  BY DEF Answers, ControlInv, VariablesOK, RemoteOK, OfClients
<1>5. \A e : Fails(c, e) => Failed(c) /\ UNCHANGED <<session, root, waiting>>
  BY <1>4 DEF Fails, Failed
<1>6. \A code : Pending(c, code) => waiting[c].code = code
  BY <1>2 DEF Pending, Arg
<1> PICK r : r = waiting[c]
  OBVIOUS
<1>7. Open(c) => (Failed(c) \/ OpenDone(c, r)) /\ UNCHANGED <<session, root, waiting>>
  BY <1>2, <1>4, <1>5, <1>6 DEF Open, OpenDone, Where
<1>8. Close(c) => (Failed(c) \/ CloseDone(c, r)) /\ UNCHANGED <<session, root, waiting>>
  BY <1>2, <1>4, <1>5, <1>6 DEF Close, CloseDone
<1>9. Read(c) => ReadDone(c, r) /\ UNCHANGED <<session, root, waiting>>
  BY <1>2, <1>4, <1>5, <1>6 DEF Read, ReadDone
<1>10. Write(c) => (Failed(c) \/ WriteDone(c, r)) /\ UNCHANGED <<session, root, waiting>>
  BY <1>2, <1>4, <1>5, <1>6 DEF Write, WriteDone
<1>11. Lseek(c) => (Failed(c) \/ LseekDone(c, r)) /\ UNCHANGED <<session, root, waiting>>
  BY <1>2, <1>4, <1>5, <1>6 DEF Lseek, LseekDone
<1>12. Fstat(c) => (Failed(c) \/ FstatDone(c, r)) /\ UNCHANGED <<session, root, waiting>>
  BY <1>2, <1>4, <1>5, <1>6 DEF Fstat, FstatDone
<1>13. Unlink(c) => (Failed(c) \/ UnlinkDone(c, r)) /\ UNCHANGED <<session, root, waiting>>
  BY <1>2, <1>4, <1>5, <1>6 DEF Unlink, UnlinkDone, Where
<1>14. Flock(c) => (Failed(c) \/ FlockDone(c, r) \/ FlockWaits(c, r)) /\ UNCHANGED <<session, root, waiting>>
  BY <1>2, <1>4, <1>5, <1>6
     DEF Flock, FlockDone, FlockWaits, ControlInv, VariablesOK, RemoteOK, OfClients
<1>15. FlockEnds(c) => (Failed(c) \/ FlockDone(c, r)) /\ UNCHANGED <<session, root, waiting>>
  BY <1>1, <1>2, <1>4, <1>5, LockingFacts DEF FlockEnds, FlockDone
<1>16. CarriedOut(c, r) /\ UNCHANGED <<session, root, waiting>>
  <2> HIDE DEF Open, Close, Read, Write, Lseek, Fstat, Unlink, Flock, FlockEnds
  <2> QED BY <1>7, <1>8, <1>9, <1>10, <1>11, <1>12, <1>13, <1>14, <1>15 DEF Executes, CarriedOut
<1> QED BY <1>1, <1>2, <1>3, <1>16

\* Every file that a client has open stays open, under its name.
KeepsFiles(c) ==
    \A g \in Fds : IsFile(c, g) =>
        /\ IsFile(c, g)' /\ fdt'[c][g].ino = fdt[c][g].ino /\ fdt'[c][g].path = fdt[c][g].path
        /\ fdt'[c][g].rights = fdt[c][g].rights /\ fdt'[c][g].append = fdt[c][g].append

\* A call on a descriptor that is no close keeps the file open.
LEMMA CallKeepsFiles ==
    ASSUME NEW c \in Sessions, NEW r, KernelTypeOK, Arg(c) = r,
           \/ ReadDone(c, r) \/ WriteDone(c, r) \/ LseekDone(c, r) \/ FstatDone(c, r)
           \/ FlockDone(c, r) \/ FlockWaits(c, r) \/ Failed(c)
    PROVE  KeepsFiles(c) /\ dir' = dir
<1>1. fdt' = fdt => KeepsFiles(c)
  BY DEF KeepsFiles, IsFile
<1>2. ASSUME NEW h \in Fds, NEW n, fdt' = [fdt EXCEPT ![c][h].pos = n] PROVE KeepsFiles(c)
  BY <1>2, PositionSet DEF KeepsFiles, IsFile
<1>3. ASSUME NEW h \in Fds, NEW mode, fdt' = [fdt EXCEPT ![c][h].lock = mode]
      PROVE  KeepsFiles(c)
  BY <1>3, LockSet DEF KeepsFiles, IsFile
<1>4. ASSUME ReadDone(c, r) \/ LseekDone(c, r) \/ WriteDone(c, r)
      PROVE  KeepsFiles(c) /\ dir' = dir
  <2>1. r.fd \in Fds
    BY <1>4 DEF ReadDone, LseekDone, WriteDone, Fit
  <2>2. fdt' = fdt \/ \E h : \E n : fdt' = [fdt EXCEPT ![c][h].pos = n] /\ h = r.fd
    BY <1>4 DEF ReadDone, LseekDone, WriteDone, SysRead, SysLseek, SysWrite
  <2>3. dir' = dir
    BY <1>4 DEF ReadDone, LseekDone, WriteDone, SysRead, SysLseek, SysWrite
  <2> QED BY <1>1, <1>2, <2>1, <2>2, <2>3
<1>5. ASSUME FlockDone(c, r) \/ FlockWaits(c, r) PROVE KeepsFiles(c) /\ dir' = dir
  BY <1>3, <1>5 DEF FlockDone, FlockWaits, SetLock, Fit
<1>6. ASSUME FstatDone(c, r) \/ Failed(c) PROVE KeepsFiles(c) /\ dir' = dir
  BY <1>1, <1>6 DEF FstatDone, Failed, kernelVars
<1> QED BY <1>4, <1>5, <1>6

\* How far a command is before the system carries out its call ...
LEMMA BeforeCall ==
    ASSUME NEW c \in Sessions, ControlInv, Executes(c), stage[c] = "work"
    PROVE  /\ Taken(c) = at[c] - 1 /\ Current(c) = fd[c] /\ at[c] \in Nat
           /\ ~Answered(c) /\ ~Refused(c)
           /\ waiting[c] = NextCall(c)
           /\ FitsIn(waiting[c], task[c], at[c], fd[c])
<1>1. job[c].phase # "done" /\ waiting[c] = Calling(c)
  BY ExecutesCases
<1>2. ProgramsOK /\ StageAt(c)
  BY DEF ControlInv, VariablesOK, ClientAt
<1>3. FitsIn(NextCall(c), task[c], at[c], fd[c])
  BY <1>2, NextFits
<1> QED BY <1>1, <1>2, <1>3 DEF Taken, Current, Answered, Refused, Calling, ProgramsOK

\* ... and afterwards.
LEMMA AfterCall ==
    ASSUME NEW c \in Sessions, ControlInv, ServerActs(c), Executes(c), stage[c] = "work"
    PROVE  /\ Failed(c) \/ FlockWaits(c, waiting[c]) =>
                  Taken(c)' = at[c] - 1 /\ Current(c)' = fd[c] /\ ~Answered(c)'
           /\ Refused(c)' <=> Failed(c)
           /\ ~Failed(c) /\ ~FlockWaits(c, waiting[c]) => Taken(c)' = at[c] /\ Answered(c)'
           /\ waiting[c].code # "REQUEST_OPEN" => Current(c)' = fd[c]
           /\ waiting[c].code = "REQUEST_OPEN" /\ ~Failed(c) => Current(c)' = job'[c].value
<1>1. stage'[c] = "work" /\ at' = at /\ fd' = fd /\ waiting' = waiting
  BY AppsKept, ExecutesCases DEF SameApps
<1> PICK r : r = waiting[c]
  OBVIOUS
<1>2. CarriedOut(c, r)
  BY ExecutesCases
<1>3. CASE Failed(c)
  <2>1. PICK e : job'[c] = Done(-1, e, << >>)
    BY <1>3 DEF Failed
  <2>2. job'[c].value = -1 /\ ~Answered(c)' /\ Refused(c)'
    BY <2>1 DEF Done, Answered, Refused
  <2> QED BY <1>1, <1>3, <2>2 DEF Taken, Current
<1>4. CASE FlockWaits(c, r)
  <2>1. job'[c] = At("locking", r)
    BY <1>4 DEF FlockWaits
  <2>2. job'[c].phase = "locking"
    BY <2>1 DEF At
  <2>3. ~Failed(c)
    <3>1. Failed(c) => job'[c].phase = "done"
      BY DEF Failed, Done
    <3> QED BY <2>2, <3>1
  <2>4. ~Answered(c)' /\ ~Refused(c)'
    BY <2>2 DEF Answered, Refused
  <2> QED BY <1>1, <1>4, <2>3, <2>4 DEF Taken, Current, FlockWaits
<1>5. CASE ~Failed(c) /\ ~FlockWaits(c, r)
  <2>1. \E v \in Nat : \E data : job'[c] = Done(v, "0", data)
    <3>1. OpenDone(c, r) => \E v \in Nat : job'[c] = Done(v, "0", << >>)
      BY KernelAssumption DEF OpenDone, Fds
    <3>2. ReadDone(c, r) => Len(ReadData(c, r.fd, r.size)) \in Nat
      <4>1. ASSUME ReadDone(c, r) PROVE ReadData(c, r.fd, r.size) \in Seq(Nat)
        <5>1. r.fd \in Fds /\ r.size \in Int /\ IsFile(c, r.fd)
          BY <4>1, ExecutesCases DEF ReadDone, Fit, GoodCall
        <5>2. KernelTypeOK /\ fdt[c][r.fd].ino \in Inodes
          BY <5>1 DEF ControlInv, VariablesOK, ClientAt, FilesAt
        <5> QED BY <5>1, <5>2, ReadDataType
      <4> QED BY <4>1, LenProperties
    <3>3. WriteDone(c, r) => WriteCount(c, r.fd, r.data) \in Nat
      <4>1. ASSUME WriteDone(c, r) PROVE WriteCount(c, r.fd, r.data) \in Nat
        <5>1. r.fd \in Fds /\ r.data \in Seq(Nat) /\ IsFile(c, r.fd)
          BY <4>1, ExecutesCases DEF WriteDone, Fit, GoodCall
        <5>2. KernelTypeOK /\ fdt[c][r.fd].ino \in Inodes /\ SysWrite(c, r.fd, r.data)
          BY <4>1, <5>1 DEF ControlInv, VariablesOK, ClientAt, FilesAt, WriteDone
        <5>3. WriteCount(c, r.fd, r.data) \in 0..Len(r.data)
          BY <5>1, <5>2, SysWriteType
        <5> QED BY <5>1, <5>3, LenProperties
      <4> QED BY <4>1
    <3>4. LseekDone(c, r) => Target(c) \in Nat
      BY KernelAssumption DEF LseekDone
    <3> HIDE DEF Target
    <3>5. OpenDone(c, r) \/ ReadDone(c, r) => \E v \in Nat : \E data : job'[c] = Done(v, "0", data)
      BY <3>1, <3>2 DEF ReadDone
    <3>6. WriteDone(c, r) \/ LseekDone(c, r) => \E v \in Nat : \E data : job'[c] = Done(v, "0", data)
      BY <3>3, <3>4 DEF WriteDone, LseekDone
    <3>7. CloseDone(c, r) \/ FstatDone(c, r) \/ UnlinkDone(c, r) \/ FlockDone(c, r) =>
              \E v \in Nat : \E data : job'[c] = Done(v, "0", data)
      BY DEF CloseDone, FstatDone, UnlinkDone, FlockDone
    <3> QED BY <1>2, <1>5, <3>5, <3>6, <3>7 DEF CarriedOut
  <2>2. job'[c].value \in Nat /\ job'[c].phase = "done" /\ Answered(c)' /\ ~Refused(c)'
    BY <2>1 DEF Done, Answered, Refused
  <2> QED BY <1>1, <1>5, <2>2 DEF Taken, Current
<1> QED BY <1>3, <1>4, <1>5

\* What SlotAt and NameAt say of a descriptor g, opened by o.
InUse(c, g, o) ==
    /\ session[c] = "on" /\ OpenAs(c, g, o)
    /\ undisturbed[c] \/ app[c].kind = "test" => fdt[c][g].ino = dir[Resolved(root[c], o.path)]

\* What SlotsInv says of a client, in one formula.
LEMMA SlotsInUse ==
    ASSUME NEW c \in Sessions
    PROVE  SlotAt(c) /\ NameAt(c) <=>
             (stage[c] = "work" /\ Opened(task[c], Taken(c)) # NoCall =>
                  InUse(c, Current(c), Opened(task[c], Taken(c))))
BY DEF SlotAt, NameAt, InUse

\* The same in the next state.
InUseNext(c, g, o) ==
    /\ session'[c] = "on" /\ g \in Fds \ {0} /\ IsFile(c, g)'
    /\ fdt'[c][g].path = Resolved(root'[c], o.path)
    /\ fdt'[c][g].rights = o.oflag \cap {"RD", "WR"}
    /\ fdt'[c][g].append = ("APPEND" \in o.oflag)
    /\ undisturbed'[c] \/ app'[c].kind = "test" =>
           fdt'[c][g].ino = dir'[Resolved(root'[c], o.path)]

\* It holds in the next state if the descriptor of the open in use is in use then.
LEMMA SlotsInUseNext ==
    ASSUME NEW c \in Sessions, NEW g, NEW n, NEW o, g = Current(c)', n = Taken(c)',
           Opened(task'[c], n) # NoCall => Opened(task'[c], n) = o /\ InUseNext(c, g, o)
    PROVE  SlotAt(c)' /\ NameAt(c)'
<1>1. Opened(task[c], Taken(c))' = Opened(task'[c], n)
  BY DEF Opened, SharedOpen, open_, NoCall
<1>2. CASE Opened(task'[c], n) = NoCall
  BY <1>1, <1>2 DEF SlotAt, NameAt
<1>3. CASE Opened(task'[c], n) = o /\ InUseNext(c, g, o)
  <2>1. Opened(task[c], Taken(c))' = o
    BY <1>1, <1>3
  <2>2. SlotAt(c)'
    BY <1>3, <2>1, Zenon DEF InUseNext, SlotAt, OpenAs, IsFile
  <2>3. NameAt(c)'
    BY <1>3, <2>1, Zenon DEF InUseNext, NameAt
  <2> QED BY <2>2, <2>3
<1> QED BY <1>2, <1>3

\* The system's part of a call keeps what is said of the descriptor in use.
LEMMA ExecutesSlots ==
    ASSUME NEW c \in Sessions, ControlInv, SlotAt(c), NameAt(c), ServerActs(c), Executes(c)
    PROVE  SlotAt(c)' /\ NameAt(c)'
<1>1. SameApps /\ KernelTypeOK
  BY AppsKept DEF ControlInv, VariablesOK
<1>2. CASE stage[c] # "work"
  BY <1>1, <1>2 DEF SameApps, SlotAt, NameAt
<1>3. CASE stage[c] = "work"
  <2>1. /\ session'[c] = "on" /\ root' = root /\ root[c] \in Dirs
        /\ Arg(c) = waiting[c] /\ GoodCall(waiting[c])
    BY ExecutesCases
  <2>2. undisturbed'[c] = undisturbed[c]
    BY DEF ServerActs, ControlInv, VariablesOK, ProgramsOK
  <2> PICK r : r = waiting[c]
    OBVIOUS
  <2> PICK t, k : t = task[c] /\ k = at[c]
    OBVIOUS
  <2>3. Taken(c) = k - 1 /\ Current(c) = fd[c] /\ FitsIn(r, t, k, fd[c])
    BY <1>3, BeforeCall
  <2>4. CASE Opened(t, Taken(c)') = NoCall
    BY <1>1, <2>4, SlotsInUseNext DEF SameApps
  <2>5. CASE \/ Failed(c) \/ FlockWaits(c, r) \/ ReadDone(c, r) \/ WriteDone(c, r)
             \/ LseekDone(c, r) \/ FstatDone(c, r) \/ FlockDone(c, r)
    <3> PICK o : o = Opened(t, k - 1)
      OBVIOUS
    <3>1. KeepsFiles(c) /\ dir' = dir
      BY <1>1, <2>1, <2>5, CallKeepsFiles
    <3>2. Current(c)' = fd[c]
      BY <1>3, <2>5, AfterCall DEF FlockWaits, ReadDone, WriteDone, LseekDone, FstatDone, FlockDone
    <3>3. Opened(t, Taken(c)') # NoCall => Opened(t, Taken(c)') = o
      <4>1. CASE Failed(c) \/ FlockWaits(c, r)
        BY <1>3, <4>1, AfterCall
      <4>2. CASE ~(Failed(c) \/ FlockWaits(c, r))
        <5>1. Taken(c)' = k /\ r.code # "REQUEST_OPEN"
          BY <1>3, <2>5, <4>2, AfterCall DEF ReadDone, WriteDone, LseekDone, FstatDone, FlockDone
        <5> QED BY <2>3, <5>1 DEF FitsIn
      <4> QED BY <4>1, <4>2
    <3> PICK g : g = fd[c]
      OBVIOUS
    <3>4. o # NoCall => InUse(c, g, o)
      BY <1>3, <2>3, SlotsInUse
    <3>5. o # NoCall => InUseNext(c, g, o)
      BY <1>1, <2>1, <2>2, <3>1, <3>4 DEF KeepsFiles, InUse, OpenAs, SameApps, InUseNext
    <3>6. PICK n : n = Taken(c)'
      OBVIOUS
    <3>7. task'[c] = t
      BY <1>1 DEF SameApps
    <3> QED BY <3>2, <3>3, <3>5, <3>6, <3>7, SlotsInUseNext
  <2>6. CASE OpenDone(c, r)
    <3>1. PICK g \in Fds \ {0} : OpenAt(c, Resolved(root[c], r.path), r.oflag, g)
                                 /\ job'[c] = Done(g, "0", << >>)
      BY <2>6 DEF OpenDone
    <3>2. r.code = "REQUEST_OPEN" /\ ~FlockWaits(c, r) /\ Resolved(root[c], r.path) \in Paths
      BY <2>1, <2>6, NamesArePaths DEF OpenDone, FlockWaits, GoodCall
    <3>3. ~Failed(c)
      <4>1. job'[c].value = g
        BY <3>1 DEF Done
      <4>2. Failed(c) => job'[c].value = -1
        BY DEF Failed, Done
      <4> QED BY <4>1, <4>2 DEF Fds
    <3>4. Current(c)' = g /\ Taken(c)' = k
      BY <1>3, <3>1, <3>2, <3>3, AfterCall DEF Done
    <3>5. Opened(t, k) \in {r, NoCall}
      BY <2>3, <3>2 DEF FitsIn
    <3>6. /\ IsFile(c, g)' /\ fdt'[c][g].ino = dir'[Resolved(root[c], r.path)]
          /\ fdt'[c][g].path = Resolved(root[c], r.path)
          /\ fdt'[c][g].rights = r.oflag \cap {"RD", "WR"}
          /\ fdt'[c][g].append = ("APPEND" \in r.oflag)
      BY <1>1, <3>1, <3>2, FileOpened
    <3>7. PICK n : n = Taken(c)'
      OBVIOUS
    <3>8. task'[c] = t
      BY <1>1 DEF SameApps
    <3>9. InUseNext(c, g, r)
      BY <2>1, <3>6 DEF InUseNext
    <3> QED BY <3>4, <3>5, <3>7, <3>8, <3>9, SlotsInUseNext
  <2>7. CASE CloseDone(c, r) \/ UnlinkDone(c, r)
    <3>1. ~Failed(c) /\ ~FlockWaits(c, r) /\ r.code \in {"REQUEST_CLOSE", "REQUEST_UNLINK"}
      <4>1. job'[c].value = 0
        BY <2>7 DEF CloseDone, UnlinkDone, Done
      <4>2. Failed(c) => job'[c].value = -1
        BY DEF Failed, Done
      <4>3. r.code \in {"REQUEST_CLOSE", "REQUEST_UNLINK"}
        BY <2>7 DEF CloseDone, UnlinkDone
      <4> QED BY <4>1, <4>2, <4>3 DEF FlockWaits
    <3>2. Taken(c)' = k
      BY <1>3, <3>1, AfterCall
    <3>3. Opened(t, k) = NoCall
      BY <2>3, <3>1 DEF FitsIn
    <3> QED BY <2>4, <3>2, <3>3
  <2> QED BY <2>5, <2>6, <2>7, ExecutesCases DEF CarriedOut
<1> QED BY <1>2, <1>3

\* What all parts of a call that comes back say together.
LEMMA ReturnFacts ==
    ASSUME NEW c \in Sessions, ControlInv, returns(c)
    PROVE  /\ stage[c] = "work" /\ Outcome(c) /\ BackAgain(c) /\ Remembers(c)
           /\ result' = [result EXCEPT ![c] = ResultOfCall(c)]
           /\ GoesOn(c) \/ Completes(c) \/ GivesUp(c)
           /\ waiting[c] = NextCall(c) /\ FitsIn(waiting[c], task[c], at[c], fd[c])
           /\ at[c] \in 1..Len(CallsOf(task[c], fd[c], size[c])) /\ task[c] \in Tasks
           /\ at[c] \in Nat
<1>1. stage[c] = "work" /\ ComesBack(c)
  BY DEF returns
<1>2. Outcome(c) /\ BackAgain(c) /\ waiting[c] = NextCall(c)
  BY <1>1, CallComesBack DEF Calling
<1>3. ProgramsOK /\ StageAt(c)
  BY DEF ControlInv, VariablesOK, ClientAt
<1>4. FitsIn(NextCall(c), task[c], at[c], fd[c]) /\ task[c] \in Tasks
      /\ at[c] \in 1..Len(CallsOf(task[c], fd[c], size[c]))
  BY <1>1, <1>3, NextFits
<1> QED BY <1>1, <1>2, <1>3, <1>4, ReturnsParts DEF ProgramsOK

\* How far a command is when a call has come back.
LEMMA AfterReturn ==
    ASSUME NEW c \in Sessions, ControlInv, returns(c), GoesOn(c)
    PROVE  /\ stage'[c] = "work" /\ task'[c] = task[c] /\ at'[c] = at[c] + 1
           /\ Taken(c)' = at[c] /\ ~Answered(c)' /\ ~Refused(c)'
           /\ Taken(c) = IF Answered(c) THEN at[c] ELSE at[c] - 1
           /\ Current(c)' = fd'[c]
           /\ waiting[c].code # "REQUEST_OPEN" => fd'[c] = fd[c] /\ Current(c) = fd[c]
           /\ waiting[c].code = "REQUEST_OPEN" =>
                  \/ Answered(c) /\ fd'[c] = Current(c)
                  \/ task[c].kind = "client1" /\ at[c] = 20
<1>1. /\ stage[c] = "work" /\ Outcome(c) /\ BackAgain(c) /\ Remembers(c) /\ ProgramsOK /\ ProgramsOK'
      /\ at[c] \in Nat
  BY ReturnFacts, NextControl DEF ControlInv, VariablesOK, StepOK, ApplicationActs, ProgramsOK
<1>2. stage'[c] = "work" /\ task'[c] = task[c] /\ at'[c] = at[c] + 1
  BY <1>1 DEF GoesOn, ProgramsOK, Remembers
<1>3. ~Answered(c)' /\ ~Refused(c)'
  BY <1>1 DEF BackAgain, Answered, Refused, Idle
<1>4. Taken(c)' = at[c] /\ Current(c)' = fd'[c]
  BY <1>1, <1>2, <1>3 DEF Taken, Current
<1>5. Taken(c) = IF Answered(c) THEN at[c] ELSE at[c] - 1
  BY <1>1 DEF Taken
<1>6. waiting[c].code # "REQUEST_OPEN" => fd'[c] = fd[c] /\ Current(c) = fd[c]
  BY <1>1 DEF Remembers, Current
<1>7. ASSUME waiting[c].code = "REQUEST_OPEN", ~(task[c].kind = "client1" /\ at[c] = 20)
      PROVE  Answered(c) /\ fd'[c] = Current(c)
  <2>1. task[c].kind = "client1" => at[c] # 22
    <3>1. ASSUME task[c].kind = "client1", at[c] = 22 PROVE FALSE
      <4>1. CallsOf(task[c], fd[c], size[c])[22] = close_(fd[c])
        BY <3>1, Client1Calls
      <4>2. waiting[c] = close_(fd[c])
        BY <3>1, <4>1, ReturnFacts DEF NextCall
      <4> QED BY <1>7, <4>2 DEF close_
    <3> QED BY <3>1
  <2>2. ret'[c].value > 0
    BY <1>7, <2>1 DEF GoesOn, Succeeded, Succeeds, Unchecked, RaceStep
  <2>3. /\ ret'[c].value = job[c].value /\ job[c].phase = "done"
    BY <1>1, <2>2 DEF Outcome
  <2>4. Answered(c)
    <3>1. ret'[c].value \in Int
      BY <1>1, OutcomeType
    <3> QED BY <2>2, <2>3, <3>1 DEF Answered
  <2>5. fd'[c] = ret'[c].value
    BY <1>1, <1>7 DEF Remembers, ProgramsOK
  <2> QED BY <1>1, <1>7, <2>3, <2>4, <2>5 DEF Current
<1> QED BY <1>2, <1>3, <1>4, <1>5, <1>6, <1>7

\* What a client has open, when it goes on with the same descriptor.
LEMMA InUseKept ==
    ASSUME NEW c \in Sessions, NEW g, NEW o, InUse(c, g, o),
           UNCHANGED <<fdt, dir, root, session>>, app' = app, undisturbed'[c] => undisturbed[c]
    PROVE  InUseNext(c, g, o)
BY DEF InUse, InUseNext, OpenAs, IsFile

\* A call that comes back keeps what is said of the descriptor in use.
LEMMA ReturnsSlots ==
    ASSUME NEW c \in Sessions, ControlInv, SlotAt(c), NameAt(c), returns(c)
    PROVE  SlotAt(c)' /\ NameAt(c)'
<1>1. /\ stage[c] = "work" /\ BackAgain(c) /\ Remembers(c) /\ FitsIn(waiting[c], task[c], at[c], fd[c])
      /\ GoesOn(c) \/ Completes(c) \/ GivesUp(c)
  BY ReturnFacts
<1>2. CASE Completes(c) \/ GivesUp(c)
  <2>1. stage'[c] = "menu"
    BY <1>2 DEF Completes, GivesUp, GoTo, ControlInv, VariablesOK, ProgramsOK
  <2> QED BY <2>1 DEF SlotAt, NameAt
<1>3. CASE GoesOn(c)
  <2> PICK o : o = Opened(task[c], Taken(c))
    OBVIOUS
  <2> PICK g, n : g = Current(c)' /\ n = Taken(c)'
    OBVIOUS
  <2>1. UNCHANGED <<fdt, dir, root, session>> /\ app' = app /\ undisturbed' = undisturbed
    BY <1>1 DEF BackAgain, Remembers
  <2>2. o # NoCall => InUse(c, Current(c), o)
    BY <1>1, SlotsInUse
  <2>3. task'[c] = task[c] /\ n = at[c]
    BY <1>3, AfterReturn
  <2>4. ASSUME Opened(task[c], at[c]) # NoCall
        PROVE  Opened(task[c], at[c]) = o /\ g = Current(c)
    <3>1. CASE waiting[c].code = "REQUEST_OPEN"
      <4>1. ~(task[c].kind = "client1" /\ at[c] = 20)
        BY <2>4 DEF Opened
      <4> QED BY <1>3, <3>1, <4>1, AfterReturn
    <3>2. CASE waiting[c].code # "REQUEST_OPEN"
      <4>1. g = Current(c) /\ Taken(c) \in {at[c], at[c] - 1}
        BY <1>3, <3>2, AfterReturn
      <4>2. Opened(task[c], at[c]) = Opened(task[c], at[c] - 1)
        BY <1>1, <2>4, <3>2 DEF FitsIn
      <4> QED BY <4>1, <4>2
    <3> QED BY <3>1, <3>2
  <2>5. o # NoCall /\ g = Current(c) => InUseNext(c, g, o)
    BY <2>1, <2>2, InUseKept
  <2> QED BY <2>3, <2>4, <2>5, SlotsInUseNext
<1> QED BY <1>1, <1>2, <1>3

\* So do the other steps of a program.
LEMMA ProgramSlots ==
    ASSUME NEW c \in Sessions, ControlInv, SlotAt(c), NameAt(c), ApplicationActs(c)
    PROVE  SlotAt(c)' /\ NameAt(c)'
<1> USE DEF ControlInv, VariablesOK
<1>1. CASE connects(c) \/ exits(c) \/ closed(c) \/ ends(c)
  <2>1. stage'[c] # "work"
    BY <1>1 DEF connects, exits, closed, ends, GoTo, ProgramsOK
  <2> QED BY <2>1 DEF SlotAt, NameAt
<1>2. CASE begins(c)
  <2>1. job[c] = Idle /\ UNCHANGED remoteVars
    BY <1>2 DEF begins, ClientAt, JobAt
  <2>2. at'[c] = 1 /\ stage'[c] = "work" /\ ~Answered(c)'
    BY <1>2, <2>1 DEF begins, GoTo, ProgramsOK, remoteVars, apiVars, Answered, Idle
  <2>3. Taken(c)' = 0
    BY <2>2 DEF Taken
  <2> PICK g, n : g = Current(c)' /\ n = Taken(c)'
    OBVIOUS
  <2> QED BY <2>3, NoneOpened, SlotsInUseNext
<1>3. CASE calls(c)
  <2>1. UNCHANGED appVars /\ UNCHANGED <<fdt, dir, root, session>>
    BY <1>3 DEF calls, Call, kernelVars
  <2>2. ~Answered(c) /\ ~Answered(c)'
    <3>1. waiting[c] = NoCall
      BY <1>3 DEF calls, Call
    <3>2. job[c] = Idle
      BY <3>1 DEF ClientAt, JobAt
    <3>3. \E r : job'[c] \in {Idle, At("pending", r)}
      BY <1>3, <3>2 DEF calls, Call, RemoteOK, OfClients
    <3> QED BY <3>2, <3>3 DEF Answered, Idle, At
  <2>3. Taken(c)' = Taken(c) /\ Current(c)' = Current(c)
    BY <2>1, <2>2 DEF appVars, Taken, Current
  <2> PICK g, n, o : g = Current(c)' /\ n = Taken(c)' /\ o = Opened(task[c], Taken(c))
    OBVIOUS
  <2>4. stage[c] = "work" /\ o # NoCall => InUseNext(c, g, o)
    BY <2>1, <2>3, SlotsInUse, InUseKept DEF appVars
  <2>5. CASE stage[c] = "work"
    BY <2>1, <2>3, <2>4, <2>5, SlotsInUseNext DEF appVars
  <2>6. CASE stage[c] # "work"
    BY <2>1, <2>6 DEF appVars, SlotAt, NameAt
  <2> QED BY <2>5, <2>6
<1> QED BY <1>1, <1>2, <1>3, ReturnsSlots DEF ApplicationActs

\* The end of a session takes no descriptor that is in use.
LEMMA SessionSlots ==
    ASSUME NEW c \in Sessions, ControlInv, SlotAt(c), NameAt(c), ServerActs(c),
           SessionEnds(c) \/ Releases(c) \/ Drops(c)
    PROVE  SlotAt(c)' /\ NameAt(c)'
<1> USE DEF ControlInv, VariablesOK
<1>1. SameApps /\ ClientAt(c)
  BY AppsKept
<1>2. CASE stage[c] # "work"
  BY <1>1, <1>2 DEF SameApps, SlotAt, NameAt
<1>3. CASE stage[c] = "work"
  <2>1. ~ended[c] /\ ~Drops(c)
    BY <1>1, <1>3 DEF ClientAt, StageAt, Drops
  <2> SUFFICES Opened(task'[c], Taken(c)') = NoCall
    <3> PICK g, n : g = Current(c)' /\ n = Taken(c)'
      OBVIOUS
    <3> QED BY SlotsInUseNext
  <2>2. CASE Releases(c)
    <3>1. session[c] = "over" /\ job' = job
      BY <2>2 DEF Releases, apiVars
    <3>2. Opened(task[c], Taken(c)) = NoCall
      BY <1>3, <3>1 DEF SlotAt
    <3>3. Taken(c)' = Taken(c) /\ task' = task
      BY <1>1, <3>1 DEF SameApps, Taken, Answered
    <3> QED BY <3>2, <3>3
  <2>3. CASE SessionEnds(c)
    <3>1. session[c] = "on" /\ Pending(c, "REQUEST_READ") /\ ~Fit(c, {"RD"}) /\ job'[c] = Idle
      BY <2>1, <2>3 DEF SessionEnds, RemoteOK, OfClients
    <3>2. Arg(c) = waiting[c] /\ waiting[c] = Calling(c) /\ waiting[c].code = "REQUEST_READ"
      BY <3>1, PendingFacts DEF Pending, Arg
    <3>3. FitsIn(waiting[c], task[c], at[c], fd[c])
      BY <1>1, <1>3, <3>2, NextFits DEF ClientAt, Calling
    <3>4. Taken(c) = at[c] - 1 /\ Current(c) = fd[c] /\ Taken(c)' = at[c] - 1
      BY <1>1, <1>3, <3>1 DEF Pending, Taken, Current, Answered, Idle, SameApps
    <3>5. ASSUME Opened(task[c], at[c] - 1) # NoCall PROVE FALSE
      <4>1. Opened(task[c], at[c] - 1).oflag = {"RD"} /\ waiting[c].fd = fd[c]
        BY <3>2, <3>3, <3>5 DEF FitsIn
      <4>2. OpenAs(c, fd[c], Opened(task[c], at[c] - 1))
        BY <1>3, <3>4, <3>5 DEF SlotAt
      <4> QED BY <3>1, <3>2, <4>1, <4>2 DEF Fit, OpenAs
    <3> QED BY <1>1, <3>4, <3>5 DEF SameApps
  <2> QED BY <2>1, <2>2, <2>3
<1> QED BY <1>2, <1>3

\* What a program does itself leaves the files alone.
LEMMA ActsKeepFiles ==
    ASSUME NEW c \in Sessions, ApplicationActs(c)
    PROVE  dir' = dir /\ content' = content /\ fdt' = fdt
BY DEF ApplicationActs, connects, LogIn, begins, calls, Call, returns, ComesBack, ReturnsAnswer,
       ReturnsFailure, Return, exits, closed, ends, Ends, remoteVars, kernelVars

\* Nobody is disturbed by a step that leaves the files alone, and who is not
\* disturbed sees no file change.
LEMMA OtherUndisturbed ==
    ASSUME NEW c \in Sessions, NEW d \in Sessions \ {c}, ControlInv,
           ApplicationActs(c) \/ ServerActs(c), undisturbed'[d]
    PROVE  undisturbed[d] /\ dir' = dir /\ content' = content
<1>1. undisturbed \in [Sessions -> BOOLEAN]
  BY DEF ControlInv, VariablesOK, ProgramsOK
<1>2. CASE ApplicationActs(c)
  <2>1. undisturbed'[d] = undisturbed[d]
    BY <1>1, <1>2 DEF ApplicationActs, connects, begins, calls, returns, exits, closed, ends, appVars
  <2> QED BY <1>2, <2>1, ActsKeepFiles
<1>3. CASE ServerActs(c)
  BY <1>1, <1>3 DEF ServerActs
<1> QED BY <1>2, <1>3

\* The client itself is not disturbed by what it has the system do.
LEMMA OwnUndisturbed ==
    ASSUME NEW c \in Sessions, ControlInv, ServerActs(c) \/ returns(c) \/ calls(c)
    PROVE  undisturbed'[c] = undisturbed[c]
BY DEF ServerActs, returns, calls, appVars, ControlInv, VariablesOK, ProgramsOK

\* The acceptance test runs two clients.
LEMMA TestPair ==
    ASSUME NEW d \in Sessions, ProgramsOK, app[d].kind = "test"
    PROVE  \E a, b \in Sessions : \E t \in app[a].tasks, u \in app[b].tasks :
               IsTest(app, a, b, t, u) /\ d \in {a, b}
<1>1. PICK a, b \in Sessions : \E t \in app[a].tasks, u \in app[b].tasks : IsTest(app, a, b, t, u)
  BY ApplicationsAssumption DEF ProgramsOK
<1>2. d \in {a, b}
  BY <1>1 DEF IsTest
<1> QED BY <1>1, <1>2

\* A step changes a name in one of two ways: an open gives it to a new file, or
\* the call of an unlink removes it.
LEMMA NameStep ==
    ASSUME NEW c \in Sessions, NEW p \in Paths, ControlInv, ApplicationActs(c) \/ ServerActs(c),
           dir'[p] # dir[p]
    PROVE  /\ ServerActs(c) /\ Executes(c)
           /\ \/ dir[p] = NoInode
              \/ /\ UnlinkDone(c, waiting[c]) /\ p = Resolved(root[c], waiting[c].path)
                 /\ stage[c] = "work"
<1>1. ServerActs(c) /\ Executes(c)
  <2>1. SessionEnds(c) \/ Releases(c) \/ Drops(c) => dir' = dir
    BY DEF SessionEnds, Releases, Drops, SysClose, kernelVars
  <2> QED BY <2>1, ActsKeepFiles DEF ServerActs, SystemActs
<1> PICK r : r = waiting[c]
  OBVIOUS
<1>2. CarriedOut(c, r) /\ Arg(c) = r /\ GoodCall(r) /\ root[c] \in Dirs /\ r = Calling(c)
      /\ KernelTypeOK /\ stage[c] \in {"work", "closing"}
  BY <1>1, ExecutesCases DEF ControlInv, VariablesOK
<1>3. CASE OpenDone(c, r)
  <2>1. Resolved(root[c], r.path) \in Paths
    BY <1>2, <1>3, NamesArePaths DEF OpenDone, GoodCall
  <2>2. PICK g \in Fds : OpenAt(c, Resolved(root[c], r.path), r.oflag, g)
    BY <1>3 DEF OpenDone
  <2>3. \/ dir' = dir
        \/ /\ dir[Resolved(root[c], r.path)] = NoInode
           /\ dir' = [dir EXCEPT ![Resolved(root[c], r.path)] = dir'[Resolved(root[c], r.path)]]
    BY <1>2, <2>1, <2>2, FileOpened
  <2>4. dir \in [Paths -> Inodes \cup {NoInode}]
    BY <1>2 DEF KernelTypeOK
  <2> QED BY <1>1, <2>1, <2>3, <2>4
<1>4. CASE UnlinkDone(c, r)
  <2>1. p = Resolved(root[c], r.path)
    BY <1>2, <1>4 DEF UnlinkDone, SysUnlink, KernelTypeOK
  <2>2. stage[c] = "work"
    BY <1>2, <1>4 DEF UnlinkDone, Calling, close_
  <2> QED BY <1>1, <1>4, <2>1, <2>2
<1>5. CloseDone(c, r) => dir' = dir
  BY DEF CloseDone, SysClose
<1> QED BY <1>2, <1>3, <1>4, <1>5, CallKeepsFiles DEF CarriedOut

\* What only one of the two does: it removes a name, which is not the other's.
LEMMA TestUnlinks ==
    ASSUME NEW c \in Sessions, NEW d \in Sessions \ {c}, ControlInv, app[d].kind = "test",
           stage[c] = "work", stage[d] = "work", waiting[c].code = "REQUEST_UNLINK",
           waiting[c] = NextCall(c), NEW n, Opened(task[d], n) # NoCall
    PROVE  \A D, F \in Dirs : Resolved(D, waiting[c].path) # Resolved(F, Opened(task[d], n).path)
<1>1. ProgramsOK /\ StageAt(c) /\ StageAt(d)
  BY DEF ControlInv, VariablesOK, ClientAt
<1>2. PICK a, b \in Sessions : \E t \in app[a].tasks, u \in app[b].tasks :
          IsTest(app, a, b, t, u) /\ d \in {a, b}
  BY <1>1, TestPair
<1>3. PICK t \in app[a].tasks, u \in app[b].tasks : IsTest(app, a, b, t, u) /\ d \in {a, b}
  BY <1>2
<1>4. task[c] \in app[c].tasks /\ task[d] \in app[d].tasks
  BY <1>1 DEF StageAt
<1>5. c \in {a, b}
  BY <1>3, <1>4 DEF IsTest
<1>6. FitsIn(waiting[c], task[c], at[c], fd[c])
  BY <1>1, NextFits
<1>7. c = a /\ d = b /\ task[c] = t /\ task[d] = u /\ waiting[c].path = t.file
  BY <1>3, <1>4, <1>5, <1>6 DEF IsTest, FitsIn
<1>8. u.kind = "client2" /\ t.file # u.shared /\ IsPlain(t.file) /\ IsPlain(u.shared)
  BY <1>3 DEF IsTest
<1>9. Opened(u, n) = SharedOpen(u)
  BY <1>7, <1>8 DEF Opened
<1>10. Opened(task[d], n).path = u.shared
  BY <1>7, <1>9 DEF SharedOpen, open_
<1> QED BY <1>7, <1>8, <1>10 DEF IsPlain

\* Nobody takes the name from a file that another program has open, unless it
\* disturbs it.
LEMMA OtherSlots ==
    ASSUME NEW c \in Sessions, NEW d \in Sessions \ {c}, ControlInv, SlotAt(d), NameAt(d),
           ApplicationActs(c) \/ ServerActs(c)
    PROVE  SlotAt(d)' /\ NameAt(d)'
<1>1. SameClient(d) /\ ProgramsOK /\ KernelTypeOK /\ ClientAt(d)
  BY NextControl DEF StepOK, ControlInv, VariablesOK
<1> PICK g, n, o : g = Current(d) /\ n = Taken(d) /\ o = Opened(task[d], n)
  OBVIOUS
<1>2. Current(d)' = g /\ Taken(d)' = n /\ stage'[d] = stage[d] /\ task'[d] = task[d]
  BY <1>1 DEF SameClient, SameRemote, SameProgram, Current, Taken, Answered
<1>3. CASE stage[d] # "work"
  BY <1>2, <1>3 DEF SlotAt, NameAt
<1>4. CASE stage[d] = "work" /\ o # NoCall
  <2>1. InUse(d, g, o)
    BY <1>4, SlotsInUse
  <2>2. ASSUME undisturbed'[d] \/ app'[d].kind = "test"
        PROVE  fdt'[d][g].ino = dir'[Resolved(root'[d], o.path)]
    <3> PICK p : p = Resolved(root[d], o.path)
      OBVIOUS
    <3>1. fdt'[d] = fdt[d] /\ root'[d] = root[d] /\ app' = app
      BY <1>1 DEF SameClient, SameRemote, SameProgram
    <3>2. fdt[d][g].ino = dir[p] /\ fdt[d][g].ino \in Inodes /\ p \in Paths
      <4>1. undisturbed[d] \/ app[d].kind = "test"
        BY <2>2, <3>1, OtherUndisturbed
      <4>2. fdt[d][g].ino \in Inodes /\ fdt[d][g] \in Slot /\ fdt[d][g].path = p
        BY <1>1, <2>1 DEF InUse, OpenAs, ClientAt, FilesAt, KernelTypeOK
      <4>3. p \in Paths
        <5>1. root[d] \in Dirs /\ task[d] \in Tasks
          BY <1>1, <1>4, TasksGiven DEF ClientAt, StageAt
        <5> QED BY <1>4, <5>1, OpenedPath, NamesArePaths
      <4> QED BY <2>1, <4>1, <4>2, <4>3 DEF InUse
    <3>3. dir'[p] = dir[p]
      <4>1. CASE undisturbed'[d]
        BY <4>1, OtherUndisturbed
      <4>2. CASE app'[d].kind = "test" /\ dir'[p] # dir[p]
        <5>1. UnlinkDone(c, waiting[c]) /\ p = Resolved(root[c], waiting[c].path) /\ stage[c] = "work"
              /\ Executes(c)
          BY <3>2, <4>2, KernelAssumption, NameStep DEF NoInode
        <5>2. waiting[c] = NextCall(c) /\ waiting[c].code = "REQUEST_UNLINK"
          BY <5>1, BeforeCall DEF UnlinkDone
        <5>3. root[c] \in Dirs /\ root[d] \in Dirs
          BY <1>1, <1>4, <5>1 DEF ControlInv, ClientAt, StageAt
        <5>4. Resolved(root[c], waiting[c].path) # Resolved(root[d], o.path)
          BY <1>4, <3>1, <4>2, <5>1, <5>2, <5>3, TestUnlinks
        <5> QED BY <5>1, <5>4
      <4> QED BY <2>2, <4>1, <4>2
    <3> QED BY <3>1, <3>2, <3>3
  <2>3. InUseNext(d, g, o)
    BY <1>1, <2>1, <2>2 DEF InUse, InUseNext, OpenAs, SameClient, SameRemote, IsFile
  <2> QED BY <1>2, <2>3, SlotsInUseNext
<1>5. CASE o = NoCall
  BY <1>2, <1>5, SlotsInUseNext
<1> QED BY <1>3, <1>4, <1>5

\* Every step keeps what is said of the descriptors in use.
LEMMA NextSlots ==
    ASSUME NEW c \in Sessions, ControlInv, SlotsInv, ApplicationActs(c) \/ ServerActs(c)
    PROVE  SlotsInv'
<1>1. SlotAt(c)' /\ NameAt(c)'
  BY ProgramSlots, ExecutesSlots, SessionSlots DEF SlotsInv, ServerActs, SystemActs
<1>2. \A d \in Sessions \ {c} : SlotAt(d)' /\ NameAt(d)'
  BY OtherSlots DEF SlotsInv
<1> QED BY <1>1, <1>2 DEF SlotsInv

-----------------------------------------------------------------------------
(* Copies of files.                                                        *)

\* The programs that copy files make these calls.
LEMMA DownloadTask ==
    ASSUME NEW c \in Sessions, ControlInv, stage[c] = "work", task[c].kind = "download"
    PROVE  /\ app[c].kind # "test" /\ task[c].file \in Strings /\ root[c] \in Dirs
           /\ at[c] \in 1..5 /\ Len(CallsOf(task[c], fd[c], size[c])) = 5
           /\ at[c] = 1 => NextCall(c) = open_(task[c].file, {"RD"})
           /\ at[c] = 2 => NextCall(c) = lseek_(fd[c], 0, "END")
           /\ at[c] = 3 => NextCall(c) = lseek_(fd[c], 0, "SET")
           /\ at[c] = 4 => NextCall(c) = read_(fd[c], size[c])
           /\ at[c] = 5 => NextCall(c) = close_(fd[c])
<1>1. ProgramsOK /\ StageAt(c)
  BY DEF ControlInv, VariablesOK, ClientAt
<1>2. task[c] \in app[c].tasks /\ app[c] \in Programs /\ root[c] \in Dirs
      /\ at[c] \in 1..Len(CallsOf(task[c], fd[c], size[c]))
  BY <1>1, ApplicationsAssumption DEF ProgramsOK, StageAt
<1>3. app[c].kind # "test"
  BY <1>2 DEF Programs, Client1Tasks, Client2Tasks
<1>4. task[c].file \in Strings
  BY <1>2 DEF Programs, Client1Tasks, Client2Tasks, DownloadTasks, SendTasks, CommandTasks
<1>5. Len(CallsOf(task[c], fd[c], size[c])) = 5
  BY DownloadCalls
<1>6. at[c] \in 1..5
  BY <1>2, <1>5
<1> QED BY <1>2, <1>3, <1>4, <1>5, <1>6, DownloadCalls DEF NextCall

\* The calls of a command that sends a file.
LEMMA SendTask ==
    ASSUME NEW c \in Sessions, ControlInv, stage[c] = "work", task[c].kind = "send"
    PROVE  /\ app[c].kind # "test" /\ task[c].file \in Strings /\ root[c] \in Dirs
           /\ task[c].data \in Seq(Nat)
           /\ at[c] \in 1..3 /\ Len(CallsOf(task[c], fd[c], size[c])) = 3
           /\ at[c] = 1 => NextCall(c) = open_(task[c].file, {"WR", "CREAT"})
           /\ at[c] = 2 => NextCall(c) = write_(fd[c], task[c].data)
           /\ at[c] = 3 => NextCall(c) = close_(fd[c])
<1>1. ProgramsOK /\ StageAt(c)
  BY DEF ControlInv, VariablesOK, ClientAt
<1>2. task[c] \in app[c].tasks /\ app[c] \in Programs /\ root[c] \in Dirs
      /\ at[c] \in 1..Len(CallsOf(task[c], fd[c], size[c]))
  BY <1>1, ApplicationsAssumption DEF ProgramsOK, StageAt
<1>3. app[c].kind # "test"
  BY <1>2 DEF Programs, Client1Tasks, Client2Tasks
<1>4. task[c].file \in Strings /\ task[c].data \in Seq(Nat)
  BY <1>2 DEF Programs, Client1Tasks, Client2Tasks, DownloadTasks, SendTasks, CommandTasks
<1>5. Len(CallsOf(task[c], fd[c], size[c])) = 3
  BY SendCalls
<1>6. at[c] \in 1..3
  BY <1>2, <1>5
<1> QED BY <1>2, <1>3, <1>4, <1>5, <1>6, SendCalls DEF NextCall

\* They go on only after an answer.
LEMMA CopySucceeds ==
    ASSUME NEW c \in Sessions, ControlInv, returns(c), Succeeded(c),
           task[c].kind \in {"download", "send"}
    PROVE  Answered(c) /\ ret'[c].value = job[c].value /\ ret'[c].data = job[c].data
           /\ job[c].value \in Nat
<1>1. stage[c] = "work" /\ Outcome(c)
  BY ReturnFacts
<1>2. app[c].kind # "test" /\ ~Unchecked(c)
  BY <1>1, DownloadTask, SendTask DEF Unchecked
<1>3. ret'[c].value > 0 \/ ret'[c].value >= 0
  BY <1>2 DEF Succeeded, Succeeds
<1>4. ret'[c].value \in Int
  BY <1>1, OutcomeType
<1>5. ret'[c].value \in Nat
  BY <1>3, <1>4
<1> QED BY <1>1, <1>5 DEF Outcome, Answered

\* The client that is left alone keeps its copies.
LEMMA OtherCopies ==
    ASSUME NEW c \in Sessions, NEW d \in Sessions \ {c}, ControlInv, CopyAt(d),
           ApplicationActs(c) \/ ServerActs(c)
    PROVE  CopyAt(d)'
<1>1. SameClient(d)
  BY NextControl DEF StepOK
<1>2. CASE ~undisturbed'[d]
  BY <1>2 DEF CopyAt, DownloadAt, SendAt, DoneAt, HasDone
<1>3. CASE undisturbed'[d]
  <2>1. undisturbed[d] /\ dir' = dir /\ content' = content
    BY <1>3, OtherUndisturbed
  <2>2. /\ Taken(d)' = Taken(d) /\ Current(d)' = Current(d) /\ SizeOf(d)' = SizeOf(d)
        /\ BufferOf(d)' = BufferOf(d) /\ ResultOf(d)' = ResultOf(d)
    BY <1>1 DEF SameClient, SameRemote, SameProgram, Taken, Current, SizeOf, BufferOf, ResultOf,
                Answered
  <2>3. Position(d)' = Position(d) /\ Bytes(d, task[d].file)' = Bytes(d, task[d].file)
    BY <1>1, <2>1, <2>2 DEF SameClient, SameRemote, SameProgram, Position, Bytes
  <2>4. stage'[d] = stage[d] /\ task'[d] = task[d] /\ saved'[d] = saved[d] /\ result'[d] = result[d]
    BY <1>1 DEF SameClient, SameProgram
  <2>5. DownloadAt(d)'
    BY <2>1, <2>2, <2>3, <2>4 DEF CopyAt, DownloadAt
  <2>6. SendAt(d)'
    BY <2>1, <2>2, <2>3, <2>4 DEF CopyAt, SendAt
  <2>7. DoneAt(d)'
    BY <2>1, <2>3, <2>4 DEF CopyAt, DoneAt, HasDone
  <2> QED BY <2>5, <2>6, <2>7 DEF CopyAt
<1> QED BY <1>2, <1>3

\* The client itself, where neither its files nor its command changes.
LEMMA SameCopies ==
    ASSUME NEW c \in Sessions, CopyAt(c), dir' = dir, content' = content, root' = root,
           fdt' = fdt \/ Opened(task[c], Taken(c)) = NoCall,
           UNCHANGED <<stage, task, at, size, buffer, saved, result>>,
           undisturbed'[c] = undisturbed[c],
           Answered(c)' <=> Answered(c), Answered(c) => job'[c] = job[c],
           Current(c)' = Current(c)
    PROVE  CopyAt(c)'
<1>1. /\ Taken(c)' = Taken(c) /\ SizeOf(c)' = SizeOf(c) /\ BufferOf(c)' = BufferOf(c)
      /\ ResultOf(c)' = ResultOf(c)
  BY DEF Taken, SizeOf, BufferOf, ResultOf
<1>2. Bytes(c, task[c].file)' = Bytes(c, task[c].file)
  BY DEF Bytes
<1>3. /\ task[c].kind = "download" /\ Taken(c) = 3 => Position(c)' = Position(c)
      /\ task[c].kind = "send" /\ Taken(c) = 1 => Position(c)' = Position(c)
  BY OpensAreCalls DEF Position, Opened
<1>4. DownloadAt(c)'
  BY <1>1, <1>2, <1>3 DEF CopyAt, DownloadAt
<1>5. SendAt(c)'
  BY <1>1, <1>2, <1>3 DEF CopyAt, SendAt
<1>6. DoneAt(c)'
  BY <1>2 DEF CopyAt, DoneAt, HasDone
<1> QED BY <1>4, <1>5, <1>6 DEF CopyAt

\* A call of a download comes back.
LEMMA ReturnsDownload ==
    ASSUME NEW c \in Sessions, ControlInv, CopyAt(c), returns(c), task[c].kind = "download"
    PROVE  CopyAt(c)'
<1>1. /\ stage[c] = "work" /\ BackAgain(c) /\ Remembers(c) /\ waiting[c] = NextCall(c)
      /\ result' = [result EXCEPT ![c] = ResultOfCall(c)]
      /\ GoesOn(c) \/ Completes(c) \/ GivesUp(c)
  BY ReturnFacts
<1>2. ProgramsOK /\ undisturbed' = undisturbed /\ task' = task
  BY <1>1 DEF Remembers, ControlInv, VariablesOK
<1> PICK file : file = task[c].file
  OBVIOUS
<1>3. Bytes(c, task[c].file)' = Bytes(c, file) /\ Bytes(c, task[c].file) = Bytes(c, file)
  BY <1>1, <1>2 DEF BackAgain, Bytes
<1>4. CASE GoesOn(c)
  <2>1. Answered(c) /\ ret'[c].value = job[c].value /\ ret'[c].data = job[c].data
    BY <1>4, CopySucceeds DEF GoesOn
  <2>2. /\ stage'[c] = "work" /\ Taken(c) = at[c] /\ Taken(c)' = at[c] /\ Current(c)' = fd'[c]
        /\ ~Answered(c)'
    BY <1>4, <2>1, AfterReturn
  <2>3. /\ at[c] = 2 => waiting[c].code = "REQUEST_LSEEK" /\ waiting[c].whence = "END"
        /\ at[c] = 3 => waiting[c].code = "REQUEST_LSEEK" /\ waiting[c].whence = "SET"
        /\ at[c] = 4 => waiting[c].code = "REQUEST_READ"
        /\ at[c] = 5 => waiting[c].code = "REQUEST_CLOSE"
    BY <1>1, DownloadTask DEF lseek_, read_, close_
  <2>4. /\ at[c] \in 2..3 => SizeOf(c)' = SizeOf(c)
        /\ at[c] \in 4..5 => BufferOf(c)' = BufferOf(c)
    BY <1>1, <1>2, <2>1, <2>2, <2>3 DEF SizeOf, BufferOf, Remembers, ProgramsOK
  <2>5. at[c] = 3 => Position(c)' = Position(c)
    <3>1. at[c] = 3 => Current(c)' = Current(c)
      BY <1>4, <2>3, AfterReturn
    <3>2. fdt' = fdt
      BY <1>1 DEF BackAgain
    <3> QED BY <3>1, <3>2 DEF Position
  <2>6. DownloadAt(c)'
    BY <1>1, <1>2, <1>3, <2>2, <2>4, <2>5 DEF CopyAt, DownloadAt
  <2> QED BY <1>2, <2>2, <2>6 DEF CopyAt, SendAt, DoneAt, HasDone
<1>5. CASE Completes(c)
  <2>1. Answered(c) /\ at[c] = 5 /\ Taken(c) = 5
    <3>1. Answered(c)
      BY <1>5, CopySucceeds DEF Completes
    <3>2. at[c] = 5
      BY <1>1, <1>5, DownloadTask DEF Completes, IsLast
    <3> QED BY <1>1, <3>1, <3>2 DEF Taken
  <2>2. stage'[c] = "menu" /\ saved'[c] = BufferOf(c)
    BY <1>2, <1>5, <2>1 DEF Completes, GoTo, ProgramsOK, OfClients, BufferOf
  <2>3. undisturbed[c] => BufferOf(c) = Bytes(c, file)
    BY <1>1, <2>1 DEF CopyAt, DownloadAt
  <2> QED BY <1>2, <1>3, <2>2, <2>3 DEF CopyAt, DownloadAt, SendAt, DoneAt, HasDone
<1>6. CASE GivesUp(c)
  <2>1. stage'[c] = "menu" /\ result'[c] = -1
    BY <1>1, <1>2, <1>6 DEF GivesUp, GoTo, ProgramsOK, ResultOfCall
  <2> QED BY <2>1 DEF CopyAt, DownloadAt, SendAt, DoneAt, HasDone
<1> QED BY <1>1, <1>4, <1>5, <1>6

\* A call that sends a file comes back.
LEMMA ReturnsSend ==
    ASSUME NEW c \in Sessions, ControlInv, CopyAt(c), returns(c), task[c].kind = "send"
    PROVE  CopyAt(c)'
<1>1. /\ stage[c] = "work" /\ BackAgain(c) /\ Remembers(c) /\ waiting[c] = NextCall(c)
      /\ result' = [result EXCEPT ![c] = ResultOfCall(c)]
      /\ GoesOn(c) \/ Completes(c) \/ GivesUp(c)
  BY ReturnFacts
<1>2. ProgramsOK /\ undisturbed' = undisturbed /\ task' = task
  BY <1>1 DEF Remembers, ControlInv, VariablesOK
<1> PICK file : file = task[c].file
  OBVIOUS
<1>3. Bytes(c, task[c].file)' = Bytes(c, file) /\ Bytes(c, task[c].file) = Bytes(c, file)
  BY <1>1, <1>2 DEF BackAgain, Bytes
<1>4. ASSUME GoesOn(c) \/ Completes(c)
      PROVE  /\ Answered(c) /\ Taken(c) = at[c]
             /\ at[c] \in 2..3 => result'[c] = ResultOf(c)
  <2>1. Answered(c) /\ ret'[c].value = job[c].value /\ Succeeded(c)
    BY <1>4, CopySucceeds DEF GoesOn, Completes
  <2>2. /\ at[c] = 2 => waiting[c].code = "REQUEST_WRITE"
        /\ at[c] = 3 => waiting[c].code = "REQUEST_CLOSE"
    BY <1>1, SendTask DEF write_, close_
  <2>3. result'[c] = ResultOfCall(c)
    BY <1>1, <1>2 DEF ProgramsOK
  <2>4. at[c] \in 2..3 => result'[c] = ResultOf(c)
    BY <2>1, <2>2, <2>3 DEF ResultOf, ResultOfCall
  <2> QED BY <1>1, <2>1, <2>4 DEF Taken
<1>5. CASE GoesOn(c)
  <2>1. /\ stage'[c] = "work" /\ Taken(c)' = at[c] /\ Current(c)' = fd'[c] /\ ~Answered(c)'
    BY <1>5, AfterReturn
  <2>2. at[c] \in 2..3 => ResultOf(c)' = ResultOf(c)
    BY <1>4, <1>5, <2>1 DEF ResultOf
  <2>3. at[c] = 1 => Position(c)' = Position(c)
    <3>1. at[c] = 1 => Current(c)' = Current(c)
      BY <1>2, <1>5, <2>1, AfterReturn
    <3>2. fdt' = fdt
      BY <1>1 DEF BackAgain
    <3> QED BY <3>1, <3>2 DEF Position
  <2>4. SendAt(c)'
    BY <1>1, <1>2, <1>3, <1>4, <1>5, <2>1, <2>2, <2>3 DEF CopyAt, SendAt
  <2> QED BY <1>2, <2>1, <2>4 DEF CopyAt, DownloadAt, DoneAt, HasDone
<1>6. CASE Completes(c)
  <2>1. at[c] = 3
    BY <1>1, <1>6, SendTask DEF Completes, IsLast
  <2>2. stage'[c] = "menu" /\ result'[c] = ResultOf(c) /\ Taken(c) = 3
    BY <1>2, <1>4, <1>6, <2>1 DEF Completes, GoTo, ProgramsOK
  <2>3. undisturbed[c] =>
           SubSeq(Bytes(c, file), 1, ResultOf(c)) = SubSeq(task[c].data, 1, ResultOf(c))
    BY <1>1, <2>2 DEF CopyAt, SendAt
  <2> QED BY <1>2, <1>3, <2>2, <2>3 DEF CopyAt, DownloadAt, SendAt, DoneAt, HasDone
<1>7. CASE GivesUp(c)
  <2>1. stage'[c] = "menu" /\ result'[c] = -1
    BY <1>1, <1>2, <1>7 DEF GivesUp, GoTo, ProgramsOK, ResultOfCall
  <2> QED BY <2>1 DEF CopyAt, DownloadAt, SendAt, DoneAt, HasDone
<1> QED BY <1>1, <1>5, <1>6, <1>7

\* What a program does itself keeps its copies.
LEMMA ProgramCopies ==
    ASSUME NEW c \in Sessions, ControlInv, CopyAt(c), ApplicationActs(c)
    PROVE  CopyAt(c)'
<1> USE DEF ControlInv, VariablesOK
<1>1. CASE connects(c)
  <2>1. stage'[c] = "menu" /\ task'[c] = NoTask
    BY <1>1 DEF connects, GoTo, ProgramsOK, ClientAt, StageAt
  <2> QED BY <2>1 DEF CopyAt, DownloadAt, SendAt, DoneAt, HasDone, NoTask
<1>2. CASE exits(c) \/ closed(c) \/ ends(c)
  <2>1. stage'[c] \notin {"work", "menu"}
    BY <1>2 DEF exits, closed, ends, GoTo, ProgramsOK
  <2> QED BY <2>1 DEF CopyAt, DownloadAt, SendAt, DoneAt, HasDone
<1>3. CASE begins(c)
  <2>1. job[c] = Idle /\ UNCHANGED remoteVars
    BY <1>3 DEF begins, ClientAt, JobAt
  <2>2. at'[c] = 1 /\ stage'[c] = "work" /\ ~Answered(c)'
    BY <1>3, <2>1 DEF begins, GoTo, ProgramsOK, remoteVars, apiVars, Answered, Idle
  <2>3. Taken(c)' = 0
    BY <2>2 DEF Taken
  <2> QED BY <2>2, <2>3 DEF CopyAt, DownloadAt, SendAt, DoneAt, HasDone
<1>4. CASE calls(c)
  <2>1. UNCHANGED appVars /\ UNCHANGED <<dir, content, fdt, root>>
    BY <1>4 DEF calls, Call, kernelVars
  <2>2. ~Answered(c) /\ ~Answered(c)'
    <3>1. waiting[c] = NoCall
      BY <1>4 DEF calls, Call
    <3>2. job[c] = Idle
      BY <3>1 DEF ClientAt, JobAt
    <3>3. \E r : job'[c] \in {Idle, At("pending", r)}
      BY <1>4, <3>2 DEF calls, Call, RemoteOK, OfClients
    <3> QED BY <3>2, <3>3 DEF Answered, Idle, At
  <2>3. Current(c)' = Current(c)
    BY <2>1, <2>2 DEF appVars, Current
  <2> QED BY <2>1, <2>2, <2>3, SameCopies DEF appVars
<1>5. CASE returns(c)
  <2>1. CASE task[c].kind \notin {"download", "send"}
    <3>1. task' = task
      BY <1>5, ReturnFacts DEF Remembers
    <3> QED BY <2>1, <3>1 DEF CopyAt, DownloadAt, SendAt, DoneAt, HasDone
  <2> QED BY <1>5, <2>1, ReturnsDownload, ReturnsSend
<1> QED BY <1>1, <1>2, <1>3, <1>4, <1>5 DEF ApplicationActs

\* The file in use, while nobody disturbs it.
LEMMA FileInUse ==
    ASSUME NEW c \in Sessions, ControlInv, SlotAt(c), NameAt(c), Executes(c), stage[c] = "work",
           undisturbed[c], NEW o, o = Opened(task[c], at[c] - 1), o # NoCall
    PROVE  /\ fd[c] \in Fds /\ IsFile(c, fd[c])
           /\ fdt[c][fd[c]].ino = dir[Resolved(root[c], o.path)] /\ fdt[c][fd[c]].ino \in Inodes
           /\ fdt[c][fd[c]].append = ("APPEND" \in o.oflag)
           /\ fdt[c][fd[c]].pos = Position(c)
<1>1. Taken(c) = at[c] - 1 /\ Current(c) = fd[c]
  BY BeforeCall
<1>2. InUse(c, fd[c], o)
  BY <1>1, SlotsInUse
<1>3. FilesAt(c)
  BY DEF ControlInv, ClientAt
<1> QED BY <1>1, <1>2, <1>3 DEF InUse, OpenAs, FilesAt, Position

\* Where lseek goes from the start and the end of a file.
LEMMA SeekTargets ==
    ASSUME NEW c \in Sessions, KernelTypeOK, NEW g \in Fds, fdt[c][g].ino \in Inodes
    PROVE  /\ SeekTarget(c, g, 0, "SET") = 0
           /\ SeekTarget(c, g, 0, "END") = Len(content[fdt[c][g].ino])
<1>1. SeekTarget(c, g, 0, "SET") = 0 + 0
  BY Zenon DEF SeekTarget
<1>2. SeekTarget(c, g, 0, "END") = 0 + Len(content[fdt[c][g].ino])
  BY Zenon DEF SeekTarget
<1>3. Len(content[fdt[c][g].ino]) \in Nat
  BY LenProperties DEF KernelTypeOK
<1> QED BY <1>1, <1>2, <1>3

\* The system carries out a call of a download.
LEMMA ExecutesDownload ==
    ASSUME NEW c \in Sessions, ControlInv, SlotAt(c), NameAt(c), CopyAt(c), ServerActs(c),
           Executes(c), stage[c] = "work", task[c].kind = "download"
    PROVE  CopyAt(c)'
<1>1. SameApps /\ KernelTypeOK /\ undisturbed'[c] = undisturbed[c] /\ root' = root
  BY AppsKept, OwnUndisturbed, ExecutesCases DEF ControlInv, VariablesOK
<1> SUFFICES ASSUME undisturbed[c] PROVE DownloadAt(c)'
  BY <1>1 DEF SameApps, CopyAt, DownloadAt, SendAt, DoneAt, HasDone
<1> PICK r : r = waiting[c]
  OBVIOUS
<1> PICK file : file = task[c].file
  OBVIOUS
<1> PICK i : i = dir[Resolved(root[c], file)]
  OBVIOUS
<1>2. r = NextCall(c) /\ CarriedOut(c, r) /\ Arg(c) = r /\ Taken(c) = at[c] - 1
      /\ ~Answered(c) /\ Current(c) = fd[c]
  BY BeforeCall, ExecutesCases
<1>3. /\ stage' = stage /\ task' = task /\ at' = at /\ size' = size /\ buffer' = buffer
      /\ saved' = saved /\ result' = result
  BY <1>1 DEF SameApps
<1>4. CASE Failed(c)
  <2>1. Current(c)' = fd[c] /\ ~Answered(c)'
    BY <1>4, AfterCall
  <2>2. dir' = dir /\ content' = content /\ fdt' = fdt
    BY <1>4 DEF Failed, kernelVars
  <2>3. CopyAt(c)'
    BY <1>1, <1>2, <1>3, <2>1, <2>2, SameCopies
  <2> QED BY <2>3 DEF CopyAt
<1>5. CASE ~Failed(c)
  <2>1. at[c] \in 1..5
    BY DownloadTask
  <2>2. ~FlockWaits(c, r)
    BY <1>2, <2>1, DownloadTask DEF FlockWaits, open_, lseek_, read_, close_
  <2>3. Taken(c)' = at[c] /\ Answered(c)'
    BY <1>5, <2>2, AfterCall
  <2>4. at[c] \in 2..4 =>
          /\ fd[c] \in Fds /\ fdt[c][fd[c]].ino = i /\ i \in Inodes
          /\ fdt[c][fd[c]].pos = Position(c)
    <3> PICK o : o = Opened(task[c], at[c] - 1)
      OBVIOUS
    <3>1. at[c] \in 2..4 => o = open_(file, {"RD"})
      BY DEF Opened
    <3>2. at[c] \in 2..4 => o # NoCall /\ o.path = file
      BY <3>1, OpensAreCalls DEF open_
    <3> QED BY <3>2, FileInUse
  <2>5. CASE at[c] = 1
    BY <2>3, <2>5 DEF DownloadAt
  <2>6. CASE at[c] = 2
    <3>1. r = lseek_(fd[c], 0, "END")
      BY <1>2, <2>6, DownloadTask
    <3>2. LseekDone(c, r)
      BY <1>2, <1>5, <3>1 DEF CarriedOut, OpenDone, CloseDone, ReadDone, WriteDone, FstatDone,
              UnlinkDone, FlockDone, FlockWaits, lseek_
    <3>3. Target(c) = Len(content[i])
      <4>1. Target(c) = SeekTarget(c, fd[c], 0, "END")
        BY <1>2, <3>1 DEF Target, lseek_
      <4> QED BY <1>1, <2>4, <2>6, <4>1, SeekTargets
    <3>4. dir' = dir /\ content' = content /\ job'[c].value = Target(c)
      BY <3>2 DEF LseekDone, SysLseek, Done
    <3>5. SizeOf(c)' = Len(content[i]) /\ Bytes(c, task[c].file)' = content[i]
      BY <1>1, <1>3, <2>3, <2>6, <3>3, <3>4 DEF SizeOf, Bytes
    <3> QED BY <1>3, <2>3, <2>6, <3>5 DEF DownloadAt
  <2>7. CASE at[c] = 3
    <3>1. r = lseek_(fd[c], 0, "SET")
      BY <1>2, <2>7, DownloadTask
    <3>2. LseekDone(c, r)
      BY <1>2, <1>5, <3>1 DEF CarriedOut, OpenDone, CloseDone, ReadDone, WriteDone, FstatDone,
              UnlinkDone, FlockDone, FlockWaits, lseek_
    <3>3. Target(c) = 0
      <4>1. Target(c) = SeekTarget(c, fd[c], 0, "SET")
        BY <1>2, <3>1 DEF Target, lseek_
      <4> QED BY <1>1, <2>4, <2>7, <4>1, SeekTargets
    <3>4. dir' = dir /\ content' = content /\ fdt' = [fdt EXCEPT ![c][fd[c]].pos = 0]
      BY <3>1, <3>2, <3>3 DEF LseekDone, SysLseek, lseek_
    <3>5. Current(c)' = fd[c] /\ fdt'[c][fd[c]].pos = 0
      <4>1. waiting[c].code # "REQUEST_OPEN"
        BY <3>2 DEF LseekDone
      <4>2. Current(c)' = fd[c]
        BY <4>1, AfterCall
      <4>3. PICK g \in Fds : g = fd[c]
        BY <2>4, <2>7
      <4>4. PICK n : n = 0
        OBVIOUS
      <4>5. fdt' = [fdt EXCEPT ![c][g].pos = n]
        BY <3>4, <4>3, <4>4
      <4>6. fdt'[c][g].pos = n
        BY <1>1, <4>5 DEF KernelTypeOK, Slot
      <4> QED BY <4>2, <4>3, <4>4, <4>6
    <3>6. Position(c)' = 0
      BY <3>5 DEF Position
    <3>7. SizeOf(c) = Len(Bytes(c, file))
      BY <1>2, <2>7 DEF CopyAt, DownloadAt
    <3>8. SizeOf(c)' = SizeOf(c) /\ Bytes(c, task[c].file)' = Bytes(c, file)
      BY <1>1, <1>3, <2>7, <3>4 DEF SizeOf, Bytes
    <3> QED BY <1>3, <2>3, <2>7, <3>6, <3>7, <3>8 DEF DownloadAt
  <2>8. CASE at[c] = 4
    <3>1. r = read_(fd[c], size[c])
      BY <1>2, <2>8, DownloadTask
    <3>2. ReadDone(c, r)
      BY <1>2, <1>5, <3>1 DEF CarriedOut, OpenDone, CloseDone, LseekDone, WriteDone, FstatDone,
              UnlinkDone, FlockDone, FlockWaits, read_
    <3>3. size[c] = Len(content[i]) /\ Position(c) = 0
      <4>1. SizeOf(c) = Len(Bytes(c, file)) /\ Position(c) = 0
        BY <1>2, <2>8 DEF CopyAt, DownloadAt
      <4> QED BY <1>2, <2>8, <4>1 DEF SizeOf, Bytes
    <3>4. job'[c].data = ReadData(c, fd[c], size[c]) /\ dir' = dir /\ content' = content
      BY <3>1, <3>2 DEF ReadDone, Done, SysRead, read_
    <3>5. ReadData(c, fd[c], size[c]) = content[i]
      BY <1>1, <2>4, <2>8, <3>3, WholeFileRead
    <3>6. BufferOf(c)' = content[i] /\ Bytes(c, task[c].file)' = content[i]
      BY <1>1, <1>3, <2>3, <2>8, <3>4, <3>5 DEF BufferOf, Bytes
    <3> QED BY <1>3, <2>3, <2>8, <3>6 DEF DownloadAt
  <2>9. CASE at[c] = 5
    <3>1. r = close_(fd[c])
      BY <1>2, <2>9, DownloadTask
    <3>2. CloseDone(c, r)
      BY <1>2, <1>5, <3>1 DEF CarriedOut, OpenDone, ReadDone, LseekDone, WriteDone, FstatDone,
              UnlinkDone, FlockDone, FlockWaits, close_
    <3>3. dir' = dir /\ content' = content
      BY <3>2 DEF CloseDone, SysClose
    <3>4. BufferOf(c) = Bytes(c, file)
      BY <1>2, <2>9 DEF CopyAt, DownloadAt
    <3>5. BufferOf(c)' = BufferOf(c) /\ Bytes(c, task[c].file)' = Bytes(c, file)
      BY <1>1, <1>3, <2>9, <3>3 DEF BufferOf, Bytes
    <3> QED BY <1>3, <2>3, <2>9, <3>4, <3>5 DEF DownloadAt
  <2> QED BY <2>1, <2>5, <2>6, <2>7, <2>8, <2>9
<1> QED BY <1>4, <1>5

\* The system carries out a call that sends a file.
LEMMA ExecutesSend ==
    ASSUME NEW c \in Sessions, ControlInv, SlotAt(c), NameAt(c), CopyAt(c), ServerActs(c),
           Executes(c), stage[c] = "work", task[c].kind = "send"
    PROVE  CopyAt(c)'
<1>1. SameApps /\ KernelTypeOK /\ undisturbed'[c] = undisturbed[c] /\ root' = root
  BY AppsKept, OwnUndisturbed, ExecutesCases DEF ControlInv, VariablesOK
<1> SUFFICES ASSUME undisturbed[c] PROVE SendAt(c)'
  BY <1>1 DEF SameApps, CopyAt, DownloadAt, SendAt, DoneAt, HasDone
<1> PICK r : r = waiting[c]
  OBVIOUS
<1> PICK file, new : file = task[c].file /\ new = task[c].data
  OBVIOUS
<1> PICK i : i = dir[Resolved(root[c], file)]
  OBVIOUS
<1>2. r = NextCall(c) /\ CarriedOut(c, r) /\ Arg(c) = r /\ Taken(c) = at[c] - 1
      /\ ~Answered(c) /\ Current(c) = fd[c]
  BY BeforeCall, ExecutesCases
<1>3. /\ stage' = stage /\ task' = task /\ at' = at /\ size' = size /\ buffer' = buffer
      /\ saved' = saved /\ result' = result
  BY <1>1 DEF SameApps
<1>4. CASE Failed(c)
  <2>1. Current(c)' = fd[c] /\ ~Answered(c)'
    BY <1>4, AfterCall
  <2>2. dir' = dir /\ content' = content /\ fdt' = fdt
    BY <1>4 DEF Failed, kernelVars
  <2>3. CopyAt(c)'
    BY <1>1, <1>2, <1>3, <2>1, <2>2, SameCopies
  <2> QED BY <2>3 DEF CopyAt
<1>5. CASE ~Failed(c)
  <2>1. at[c] \in 1..3 /\ new \in Seq(Nat)
    BY SendTask
  <2>2. ~FlockWaits(c, r)
    BY <1>2, <2>1, SendTask DEF FlockWaits, open_, write_, close_
  <2>3. Taken(c)' = at[c] /\ Answered(c)'
    BY <1>5, <2>2, AfterCall
  <2>4. CASE at[c] = 1
    <3>1. r = open_(file, {"WR", "CREAT"})
      BY <1>2, <2>4, SendTask
    <3>2. OpenDone(c, r)
      BY <1>2, <1>5, <3>1 DEF CarriedOut, CloseDone, LseekDone, ReadDone, WriteDone, FstatDone,
              UnlinkDone, FlockDone, FlockWaits, open_
    <3>3. PICK g \in Fds \ {0} : OpenAt(c, Resolved(root[c], r.path), r.oflag, g)
                                 /\ job'[c] = Done(g, "0", << >>)
      BY <3>2 DEF OpenDone
    <3>4. Resolved(root[c], r.path) \in Paths
      BY <3>1, SendTask, NamesArePaths DEF open_
    <3>5. fdt'[c][g].pos = 0
      BY <1>1, <3>3, <3>4, FileOpened
    <3>6. Current(c)' = g
      <4>1. waiting[c].code = "REQUEST_OPEN" /\ job'[c].value = g
        BY <3>1, <3>3 DEF open_, Done
      <4> QED BY <1>5, <4>1, AfterCall
    <3>7. Position(c)' = 0
      BY <3>5, <3>6 DEF Position
    <3> QED BY <2>3, <2>4, <3>7 DEF SendAt
  <2>5. CASE at[c] = 2
    <3>1. r = write_(fd[c], new)
      BY <1>2, <2>5, SendTask
    <3>2. WriteDone(c, r)
      BY <1>2, <1>5, <3>1 DEF CarriedOut, OpenDone, CloseDone, LseekDone, ReadDone, FstatDone,
              UnlinkDone, FlockDone, FlockWaits, write_
    <3>3. /\ fd[c] \in Fds /\ fdt[c][fd[c]].ino = i /\ i \in Inodes
          /\ fdt[c][fd[c]].pos = 0 /\ ~fdt[c][fd[c]].append
      <4> PICK o : o = Opened(task[c], at[c] - 1)
        OBVIOUS
      <4>1. o = open_(file, {"WR", "CREAT"})
        BY <2>5 DEF Opened
      <4>2. o # NoCall /\ o.path = file /\ "APPEND" \notin o.oflag
        BY <4>1, OpensAreCalls DEF open_
      <4>3. Position(c) = 0
        BY <1>2, <2>5 DEF CopyAt, SendAt
      <4> QED BY <4>2, <4>3, FileInUse
    <3> PICK n : n = WriteCount(c, fd[c], new)
      OBVIOUS
    <3>4. SysWrite(c, fd[c], new) /\ job'[c].value = n
      BY <3>1, <3>2 DEF WriteDone, Done, write_
    <3>5. n \in 0..Len(new) /\ Len(new) \in Nat
      BY <1>1, <2>1, <3>3, <3>4, SysWriteType, LenProperties
    <3>6. WritePos(c, fd[c]) = 0
      BY <3>3 DEF WritePos
    <3>7. content[i] \in Seq(Nat)
      BY <1>1, <3>3 DEF KernelTypeOK
    <3>8. dir' = dir
      BY <3>4 DEF SysWrite
    <3>9. SubSeq(content'[i], 1, n) = SubSeq(new, 1, n)
      <4>1. CASE n = 0
        BY <4>1, SubSeqEmpty
      <4>2. CASE n # 0
        <5>1. content'[i] = Overwrite(content[i], 0, SubSeq(new, 1, n))
          BY <1>1, <3>3, <3>4, <3>6, <4>2 DEF SysWrite, KernelTypeOK
        <5> QED BY <2>1, <3>5, <3>7, <5>1, StartWritten
      <4> QED BY <4>1, <4>2
    <3>10. ResultOf(c)' = n /\ Bytes(c, task[c].file)' = content'[i]
      BY <1>1, <1>3, <2>3, <2>5, <3>4, <3>8 DEF ResultOf, Bytes
    <3>11. n \in Nat
      BY <3>5
    <3> QED BY <1>3, <2>3, <2>5, <3>9, <3>10, <3>11 DEF SendAt
  <2>6. CASE at[c] = 3
    <3>1. r = close_(fd[c])
      BY <1>2, <2>6, SendTask
    <3>2. CloseDone(c, r)
      BY <1>2, <1>5, <3>1 DEF CarriedOut, OpenDone, ReadDone, LseekDone, WriteDone, FstatDone,
              UnlinkDone, FlockDone, FlockWaits, close_
    <3>3. dir' = dir /\ content' = content
      BY <3>2 DEF CloseDone, SysClose
    <3>4. /\ ResultOf(c) \in Nat
          /\ SubSeq(Bytes(c, file), 1, ResultOf(c)) = SubSeq(new, 1, ResultOf(c))
      BY <1>2, <2>6 DEF CopyAt, SendAt
    <3>5. ResultOf(c)' = ResultOf(c) /\ Bytes(c, task[c].file)' = Bytes(c, file)
      BY <1>1, <1>3, <2>6, <3>3 DEF ResultOf, Bytes
    <3> QED BY <1>3, <2>3, <2>6, <3>4, <3>5 DEF SendAt
  <2> QED BY <2>1, <2>4, <2>5, <2>6
<1> QED BY <1>4, <1>5

\* What the system does for a client keeps its copies.
LEMMA ServerCopies ==
    ASSUME NEW c \in Sessions, ControlInv, SlotAt(c), NameAt(c), CopyAt(c), ServerActs(c)
    PROVE  CopyAt(c)'
<1>1. SameApps /\ undisturbed'[c] = undisturbed[c] /\ ClientAt(c)
  BY AppsKept, OwnUndisturbed DEF ControlInv
<1>2. CASE stage[c] \notin {"work", "menu"}
  BY <1>1, <1>2 DEF SameApps, CopyAt, DownloadAt, SendAt, DoneAt, HasDone
<1>3. CASE task[c].kind \notin {"download", "send"}
  BY <1>1, <1>3 DEF SameApps, CopyAt, DownloadAt, SendAt, DoneAt, HasDone
<1>4. CASE Executes(c) /\ stage[c] = "work" /\ task[c].kind \in {"download", "send"}
  BY <1>4, ExecutesDownload, ExecutesSend
<1>5. CASE Executes(c) /\ stage[c] = "menu"
  BY <1>5, ExecutesCases
<1>6. CASE (SessionEnds(c) \/ Releases(c) \/ Drops(c)) /\ stage[c] \in {"work", "menu"}
  <2>1. dir' = dir /\ content' = content /\ root' = root
    BY <1>6 DEF SessionEnds, Releases, Drops, SysClose, apiVars, kernelVars
  <2>2. ~Drops(c)
    BY <1>1, <1>6 DEF ClientAt, StageAt, Drops
  <2>3. (Answered(c)' <=> Answered(c)) /\ (Answered(c) => job' = job)
    <3>1. CASE SessionEnds(c)
      <4>1. job[c].phase = "pending"
        BY <1>1, <1>6, <3>1 DEF ClientAt, StageAt, SessionEnds, Pending
      <4>2. job'[c] = Idle
        BY <3>1 DEF SessionEnds, ControlInv, VariablesOK, RemoteOK, OfClients
      <4> QED BY <4>1, <4>2 DEF Answered, Idle
    <3>2. CASE Releases(c)
      <4>1. job' = job
        BY <3>2 DEF Releases, apiVars
      <4> QED BY <4>1 DEF Answered
    <3> QED BY <1>6, <2>2, <3>1, <3>2
  <2>4. Current(c)' = Current(c)
    BY <1>1, <1>6, <2>3 DEF Current, SameApps, SessionEnds, Releases, Drops, apiVars
  <2>5. CASE stage[c] = "work"
    <3>1. fdt' = fdt \/ Opened(task[c], Taken(c)) = NoCall
      <4>1. CASE Releases(c)
        BY <2>5, <4>1 DEF SlotAt, Releases
      <4>2. CASE SessionEnds(c)
        BY <4>2 DEF SessionEnds, kernelVars
      <4> QED BY <1>6, <2>2, <4>1, <4>2
    <3> QED BY <1>1, <2>1, <2>3, <2>4, <3>1, SameCopies DEF SameApps
  <2>6. CASE stage[c] = "menu"
    BY <1>1, <2>1, <2>6 DEF SameApps, CopyAt, DownloadAt, SendAt, DoneAt, HasDone, Bytes
  <2> QED BY <1>6, <2>5, <2>6
<1> QED BY <1>2, <1>3, <1>4, <1>5, <1>6 DEF ServerActs, SystemActs

\* Every step keeps the copies.
LEMMA NextCopies ==
    ASSUME NEW c \in Sessions, ControlInv, SlotsInv, CopiesInv, ApplicationActs(c) \/ ServerActs(c)
    PROVE  CopiesInv'
<1>1. CopyAt(c)'
  BY ProgramCopies, ServerCopies DEF SlotsInv, CopiesInv
<1> QED BY <1>1, OtherCopies DEF CopiesInv

\* The programs that copy files: every state they reach.
CopyInv == ControlInv /\ SlotsInv /\ CopiesInv

\* Stuttering keeps it.
LEMMA StutterCopy ==
    ASSUME CopyInv, UNCHANGED applicationVars
    PROVE  CopyInv'
<1> USE DEF applicationVars, remoteVars, kernelVars, apiVars, appVars
<1>1. \A c \in Sessions :
        /\ Taken(c)' = Taken(c) /\ Current(c)' = Current(c) /\ SizeOf(c)' = SizeOf(c)
        /\ BufferOf(c)' = BufferOf(c) /\ ResultOf(c)' = ResultOf(c)
  BY DEF Taken, Current, SizeOf, BufferOf, ResultOf, Answered
<1>2. \A c \in Sessions : Position(c)' = Position(c) /\ Bytes(c, task[c].file)' = Bytes(c, task[c].file)
  BY <1>1 DEF Position, Bytes
<1>3. ASSUME NEW c \in Sessions PROVE SlotAt(c)' /\ NameAt(c)' /\ CopyAt(c)'
  <2> PICK g, n, o : g = Current(c)' /\ n = Taken(c)' /\ o = Opened(task[c], Taken(c))
    OBVIOUS
  <2>1. stage[c] = "work" /\ o # NoCall => InUseNext(c, g, o)
    BY <1>1, SlotsInUse, InUseKept DEF CopyInv, SlotsInv
  <2>2. SlotAt(c)' /\ NameAt(c)'
    <3>1. CASE stage[c] = "work"
      BY <1>1, <2>1, <3>1, SlotsInUseNext
    <3>2. CASE stage[c] # "work"
      BY <3>2 DEF SlotAt, NameAt
    <3> QED BY <3>1, <3>2
  <2>3. CopyAt(c)'
    BY <1>1, <1>2 DEF CopyInv, CopiesInv, CopyAt, DownloadAt, SendAt, DoneAt, HasDone
  <2> QED BY <2>2, <2>3
<1> QED BY <1>3, StutterControl DEF CopyInv, SlotsInv, CopiesInv

\* The invariant of the copies holds.
LEMMA CopyAlways == ApplicationsSpec => []CopyInv
<1>1. ApplicationsInit => CopyInv
  <2>1. ApplicationsInit => \A c \in Sessions : stage[c] = "connect"
    BY DEF ApplicationsInit
  <2> QED BY <2>1, InitControl DEF CopyInv, SlotsInv, CopiesInv, SlotAt, NameAt, CopyAt, DownloadAt,
                                   SendAt, DoneAt, HasDone
<1>2. CopyInv /\ [ApplicationsNext]_applicationVars => CopyInv'
  BY NextControl, NextSlots, NextCopies, StutterCopy DEF CopyInv, ApplicationsNext
<1> QED BY <1>1, <1>2, PTL DEF ApplicationsSpec

\* A download that succeeds has saved the whole file, unless another client has
\* changed a file meanwhile (NFSUserApp.cpp:258-294, copy_file_from_server.cpp).
THEOREM DownloadsAreComplete == ApplicationsSpec => []DownloadIsComplete
<1>1. CopyInv => DownloadIsComplete
  BY DEF CopyInv, CopiesInv, CopyAt, DoneAt, DownloadIsComplete
<1> QED BY <1>1, CopyAlways, PTL

\* As many bytes as write has accepted are at the start of the file that has
\* been sent (NFSUserApp.cpp:314-335, copy_file_to_server.cpp).
THEOREM SentBytesAreThere == ApplicationsSpec => []SentBytesAreStored
<1>1. CopyInv => SentBytesAreStored
  BY DEF CopyInv, CopiesInv, CopyAt, DoneAt, SentBytesAreStored
<1> QED BY <1>1, CopyAlways, PTL

-----------------------------------------------------------------------------
(* The acceptance test.                                                    *)

\* What is said of the shared file stays true while nobody comes to a write.
LEMMA HoldsOn ==
    ASSUME NEW b, NEW n \in Int, NEW m \in Int, NEW w, NEW k \in Int, NEW l \in Int, NEW v,
           Holds(b, n, m, w), k < 16 => n < 16, k = 16 => n = 16 /\ (v \/ ~w), k > 16 => n > 16,
           l < 3 => m < 3
    PROVE  Holds(b, k, l, v)
BY DEF Holds

\* The command of a test, and how far it is.
LEMMA StepsType ==
    ASSUME NEW c \in Sessions, ProgramsOK, StageAt(c)
    PROVE  /\ Steps(c) \in Int /\ Taken(c) \in Int
           /\ stage[c] = "work" => Taken(c) \in Nat /\ Steps(c) \in Nat
           /\ stage[c] = "connect" => Steps(c) \in 0..1
<1>1. at[c] \in Nat /\ result[c] \in Int /\ left[c] \in Int
  BY DEF ProgramsOK
<1>2. stage[c] = "work" => at[c] >= 1
  BY DEF StageAt
<1>3. Taken(c) \in Int /\ (stage[c] = "work" => Taken(c) \in Nat)
  BY <1>1, <1>2 DEF Taken
<1>4. stage[c] = "connect" => Taken(c) = 1
  BY DEF StageAt, Taken
<1> QED BY <1>1, <1>3, <1>4 DEF Steps

\* A client that is left alone is as far as before.
LEMMA StepsKept ==
    ASSUME NEW d \in Sessions, SameClient(d)
    PROVE  /\ Steps(d)' = Steps(d) /\ Current(d)' = Current(d)
           /\ (Writing(d)' <=> Writing(d)) /\ (HasLock(d)' <=> HasLock(d))
           /\ stage'[d] = stage[d] /\ root'[d] = root[d]
           /\ (TaskAt(d)' <=> TaskAt(d)) /\ (ByteAt(d)' <=> ByteAt(d))
<1>1. Steps(d)' = Steps(d) /\ Current(d)' = Current(d)
  BY DEF SameClient, SameRemote, SameProgram, Steps, Taken, Current, Answered
<1>2. (Writing(d)' <=> Writing(d)) /\ (TaskAt(d)' <=> TaskAt(d)) /\ (ByteAt(d)' <=> ByteAt(d))
  BY DEF SameClient, SameRemote, SameProgram, Writing, Refused, TaskAt, ByteAt, Answered
<1>3. HasLock(d)' <=> HasLock(d)
  BY <1>1 DEF SameClient, SameRemote, HasLock
<1> QED BY <1>1, <1>2, <1>3 DEF SameClient, SameRemote, SameProgram

\* A step that comes to no write of the shared file s: the file stays, or is
\* created; client 1 comes to no write, nor does client 2.
KeepsShared(s) ==
    \A D \in Dirs :
        IF Named(D, s)
        THEN dir'[Resolved(D, s)] # NoInode /\ content'[dir'[Resolved(D, s)]] = In(D, s)
        ELSE dir'[Resolved(D, s)] = NoInode \/ content'[dir'[Resolved(D, s)]] = << >>

\* Client 1 of the test comes to no write of s.
Calm1(c, s) ==
    /\ Steps(c)' < 16 => Steps(c) < 16
    /\ Steps(c)' = 16 => Steps(c) = 16 /\ (Writing(c)' \/ ~Writing(c))
    /\ Steps(c)' > 16 => Steps(c) > 16
    /\ root'[c] = root[c] \/ (Steps(c) < 14 /\ Steps(c)' < 14)
    /\ Steps(c)' >= 14 => Steps(c) >= 14 \/ dir'[Resolved(root[c], s)] # NoInode
    /\ stage'[c] = "work" /\ Steps(c)' \in 15..16 => HasLock(c)'

\* Neither does client 2.
Calm2(d) ==
    /\ Steps(d)' < 3 => Steps(d) < 3
    /\ root'[d] = root[d] \/ (Steps(d) < 3 /\ Steps(d)' < 3)
    /\ stage'[d] = "work" /\ Steps(d)' = 2 => HasLock(d)'

\* Such a step keeps what is said of the shared file.
LEMMA PairKept ==
    ASSUME NEW c \in Sessions, NEW d \in Sessions, NEW s \in Strings, PairAt(c, d, s),
           ControlInv, ControlInv', KeepsShared(s), Calm1(c, s), Calm2(d),
           Steps(c) >= 14 => root[c] \in Dirs
    PROVE  PairAt(c, d, s)'
<1>1. Steps(c) \in Int /\ Steps(d) \in Int
  BY StepsType DEF ControlInv, VariablesOK, ClientAt
<1>2. Steps(c)' \in Int /\ Steps(d)' \in Int
  <2>1. \A e \in Sessions : at'[e] \in Nat /\ left'[e] \in Int
    BY DEF ControlInv, VariablesOK, ProgramsOK
  <2> QED BY <2>1 DEF Steps, Taken
<1> PICK w, v : w = Writing(c) /\ v = Writing(c)'
  OBVIOUS
<1>3. ASSUME NEW D \in Dirs, Named(D, s)' PROVE SharedAt(c, d, D, s)'
  <2> PICK n, m, k, l : n = StepsIn(c, D) /\ m = StepsIn(d, D) /\ k = StepsIn(c, D)'
                        /\ l = StepsIn(d, D)'
    OBVIOUS
  <2>1. n \in Int /\ m \in Int /\ k \in Int /\ l \in Int
    BY <1>1, <1>2 DEF StepsIn
  <2>2. /\ k < 16 => n < 16
        /\ k = 16 => n = 16 /\ (v \/ ~w)
        /\ k > 16 => n > 16
        /\ k >= 16 => D = root[c] /\ Steps(c) >= 16
    BY <1>1, <1>2 DEF StepsIn, Calm1
  <2>3. l < 3 => m < 3
    BY <1>1, <1>2 DEF StepsIn, Calm2
  <2>4. Holds(In(D, s)', k, l, v)
    <3>1. CASE Named(D, s)
      <4>1. In(D, s)' = In(D, s)
        BY <3>1 DEF KeepsShared, In
      <4>2. Holds(In(D, s), n, m, w)
        BY <3>1 DEF PairAt, SharedAt
      <4> PICK b : b = In(D, s)
        OBVIOUS
      <4> QED BY <2>1, <2>2, <2>3, <4>1, <4>2, HoldsOn
    <3>2. CASE ~Named(D, s)
      <4>1. In(D, s)' = << >>
        BY <1>3, <3>2 DEF KeepsShared, In, Named
      <4>2. k < 16
        BY <1>1, <2>1, <2>2, <3>2 DEF PairAt
      <4> QED BY <2>1, <4>1, <4>2 DEF Holds
    <3> QED BY <3>1, <3>2
  <2>5. Holds(In(D, s), StepsIn(c, D), StepsIn(d, D), Writing(c))'
    BY <2>4, Zenon DEF Holds
  <2> QED BY <2>5 DEF SharedAt
<1>4. \A D \in Dirs : SharedAt(c, d, D, s)'
  BY <1>3 DEF SharedAt
<1>5. Steps(c)' >= 14 => Named(root[c], s)'
  <2>1. ASSUME Steps(c)' >= 14, Steps(c) >= 14 PROVE dir'[Resolved(root[c], s)] # NoInode
    BY <1>1, <2>1 DEF PairAt, KeepsShared
  <2> QED BY <1>1, <1>2, <2>1 DEF Calm1, Named
<1> QED BY <1>4, <1>5 DEF PairAt, Calm1, Calm2

\* What the two clients of the test are about.
LEMMA TestFacts ==
    ASSUME NEW c \in Sessions, NEW d \in Sessions, NEW t \in app[c].tasks, NEW u \in app[d].tasks,
           IsTest(app, c, d, t, u), ControlInv, TestInv
    PROVE  /\ app[c].kind = "test" /\ app[d].kind = "test" /\ c # d
           /\ t \in Client1Tasks /\ u \in Client2Tasks
           /\ t.shared \in Strings /\ u.shared = t.shared /\ t.file # t.shared
           /\ stage[c] = "work" => task[c] = t /\ Steps(c) = Taken(c) /\ root[c] \in Dirs
           /\ stage[d] = "work" => task[d] = u /\ Steps(d) = Taken(d) /\ root[d] \in Dirs
           /\ \A e \in Sessions \ {c, d} : stage[e] # "work"
           /\ PairAt(c, d, t.shared)
<1>1. /\ app[c] = [kind |-> "test", tasks |-> {t}] /\ app[d] = [kind |-> "test", tasks |-> {u}]
      /\ t.kind = "client1" /\ u.kind = "client2" /\ c # d
      /\ t.shared = u.shared /\ t.file # t.shared
      /\ \A e \in Sessions \ {c, d} : app[e].tasks = {}
  BY DEF IsTest
<1>2. app[c] \in Programs /\ app[d] \in Programs
  BY ApplicationsAssumption DEF ControlInv, VariablesOK, ProgramsOK
<1>3. t \in Client1Tasks \cup Client2Tasks /\ u \in Client1Tasks \cup Client2Tasks
  BY <1>1, <1>2 DEF Programs
<1>4. t \in Client1Tasks /\ u \in Client2Tasks
  BY <1>1, <1>3 DEF Client1Tasks, Client2Tasks
<1>5. t.shared \in Strings
  BY <1>4 DEF Client1Tasks
<1>6. \A e \in Sessions : stage[e] = "work" => task[e] \in app[e].tasks /\ root[e] \in Dirs
  BY DEF ControlInv, ClientAt, StageAt
<1>7. \A e \in Sessions : app[e].kind = "test" /\ stage[e] = "work" => left[e] = 0
  BY DEF TestInv, TaskAt
<1>8. PairAt(c, d, t.shared)
  BY DEF TestInv
<1> QED BY <1>1, <1>4, <1>5, <1>6, <1>7, <1>8 DEF Steps

\* A step of a program outside of its calls does not bring it further.
LEMMA IdleSteps ==
    ASSUME NEW c \in Sessions, ControlInv, app[c].kind = "test", TaskAt(c),
           connects(c) \/ begins(c) \/ calls(c) \/ exits(c) \/ closed(c) \/ ends(c)
    PROVE  /\ Steps(c)' = Steps(c) /\ (Writing(c)' \/ ~Writing(c))
           /\ root'[c] = root[c] \/ Steps(c) \in 0..1
           /\ stage'[c] = "work" /\ Steps(c)' > 0 =>
                  stage[c] = "work" /\ (HasLock(c)' <=> HasLock(c))
<1> USE DEF ControlInv, VariablesOK
<1>1. ClientAt(c) /\ ProgramsOK /\ RemoteOK
  OBVIOUS
<1>2. CASE connects(c)
  <2>1. /\ stage[c] = "connect" /\ stage'[c] = "menu" /\ UNCHANGED <<app, task, at, left, result>>
        /\ session'[c] = "on"
    BY <1>1, <1>2 DEF connects, GoTo, ProgramsOK, LogIn, RemoteOK
  <2>2. Steps(c)' = Steps(c) /\ Steps(c) \in 0..1
    BY <1>1, <2>1, StepsType DEF Steps, Taken, ClientAt
  <2> QED BY <2>1, <2>2 DEF Writing
<1>3. CASE begins(c)
  <2>1. /\ stage[c] = "menu" /\ stage'[c] = "work" /\ task'[c] \in app[c].tasks /\ app' = app
        /\ at'[c] = 1 /\ left[c] > 0 /\ left'[c] = left[c] - 1 /\ UNCHANGED remoteVars
    BY <1>1, <1>3 DEF begins, GoTo, ProgramsOK, OfClients
  <2>2. left[c] = 1 /\ left'[c] = 0
    BY <2>1 DEF TaskAt
  <2>3. job[c] = Idle /\ ~Answered(c)'
    BY <1>1, <2>1 DEF ClientAt, JobAt, Answered, Idle, remoteVars, apiVars
  <2>4. Steps(c) = 0 /\ Steps(c)' = 0
    BY <2>1, <2>2, <2>3 DEF Steps, Taken
  <2> QED BY <2>1, <2>4 DEF Writing, remoteVars, apiVars
<1>4. CASE calls(c)
  <2>1. UNCHANGED appVars /\ UNCHANGED <<fdt, root>>
    BY <1>4 DEF calls, Call, kernelVars
  <2>2. ~Answered(c) /\ ~Answered(c)' /\ ~Refused(c)'
    <3>1. waiting[c] = NoCall
      BY <1>4 DEF calls, Call
    <3>2. job[c] = Idle
      BY <1>1, <3>1 DEF ClientAt, JobAt
    <3>3. \E r : job'[c] \in {Idle, At("pending", r)}
      BY <1>1, <1>4, <3>2 DEF calls, Call, RemoteOK, OfClients
    <3> QED BY <3>2, <3>3 DEF Answered, Refused, Idle, At
  <2>3. Steps(c)' = Steps(c) /\ Current(c)' = Current(c)
    BY <2>1, <2>2 DEF appVars, Steps, Taken, Current
  <2>4. HasLock(c)' <=> HasLock(c)
    BY <2>1, <2>3 DEF HasLock
  <2> QED BY <2>1, <2>2, <2>3, <2>4 DEF appVars, Writing
<1>5. CASE exits(c) \/ closed(c) \/ ends(c)
  <2>1. /\ stage[c] # "work" /\ stage'[c] # "work" /\ UNCHANGED <<app, task, at, left, result>>
    BY <1>1, <1>5 DEF exits, closed, ends, GoTo, ProgramsOK
  <2>2. UNCHANGED root
    BY <1>5 DEF exits, closed, ends, remoteVars, apiVars, ComesBack, ReturnsAnswer, ReturnsFailure,
                Return, Ends
  <2>3. Steps(c)' = Steps(c)
    BY <2>1 DEF Steps, Taken
  <2> QED BY <2>1, <2>2, <2>3 DEF Writing
<1> QED BY <1>2, <1>3, <1>4, <1>5

\* A program takes up its own commands, and an answer that has come back is not
\* there any more.
LEMMA TaskActs ==
    ASSUME NEW c \in Sessions, ControlInv, TaskAt(c), ApplicationActs(c)
    PROVE  TaskAt(c)' /\ ByteAt(c)'
<1> USE DEF ControlInv, VariablesOK
<1>1. ClientAt(c) /\ ProgramsOK /\ RemoteOK
  OBVIOUS
<1>2. CASE connects(c)
  <2>1. /\ stage'[c] = "menu" /\ UNCHANGED <<app, task, at, left>>
        /\ session'[c] = "on"
    BY <1>1, <1>2 DEF connects, GoTo, ProgramsOK, LogIn, RemoteOK
  <2> QED BY <2>1 DEF TaskAt, ByteAt
<1>3. CASE begins(c)
  <2>1. /\ stage[c] = "menu" /\ stage'[c] = "work" /\ task'[c] \in app[c].tasks /\ app' = app
        /\ at'[c] = 1 /\ left[c] > 0 /\ left'[c] = left[c] - 1 /\ UNCHANGED remoteVars
    BY <1>1, <1>3 DEF begins, GoTo, ProgramsOK, OfClients
  <2>2. session'[c] # "none" /\ job[c] = Idle /\ job'[c] = Idle
    BY <1>1, <2>1 DEF ClientAt, StageAt, JobAt, remoteVars, apiVars
  <2>3. app[c].kind = "test" => left'[c] = 0
    BY <2>1 DEF TaskAt
  <2> QED BY <2>1, <2>2, <2>3 DEF TaskAt, ByteAt, Answered, Idle
<1>4. CASE calls(c)
  <2>1. UNCHANGED appVars /\ UNCHANGED session
    BY <1>4 DEF calls, Call
  <2>2. ~Answered(c)'
    <3>1. job[c] = Idle
      BY <1>1, <1>4 DEF calls, Call, ClientAt, JobAt
    <3>2. \E r : job'[c] \in {Idle, At("pending", r)}
      BY <1>1, <1>4, <3>1 DEF calls, Call, RemoteOK, OfClients
    <3> QED BY <3>2 DEF Answered, Idle, At
  <2> QED BY <2>1, <2>2 DEF appVars, TaskAt, ByteAt
<1>5. CASE returns(c)
  <2>1. stage[c] = "work" /\ UNCHANGED <<app, task, left>> /\ session' = session /\ job'[c] = Idle
    BY <1>5, ReturnFacts DEF BackAgain, returns
  <2>2. session[c] # "none"
    BY <1>1, <2>1 DEF ClientAt, StageAt
  <2> QED BY <2>1, <2>2 DEF TaskAt, ByteAt, Answered, Idle
<1>6. CASE exits(c) \/ closed(c) \/ ends(c)
  <2>1. stage'[c] # "work" /\ UNCHANGED <<app, task, at, left>>
    BY <1>1, <1>6 DEF exits, closed, ends, GoTo, ProgramsOK
  <2>2. UNCHANGED session
    BY <1>6 DEF exits, closed, ends, remoteVars, apiVars, ComesBack, ReturnsAnswer, ReturnsFailure,
                Return, Ends
  <2> QED BY <2>1, <2>2 DEF TaskAt, ByteAt
<1> QED BY <1>2, <1>3, <1>4, <1>5, <1>6 DEF ApplicationActs

\* The calls of the test whose answer need not bring it where it was.
Loose(c) ==
    \/ task[c].kind = "client1" /\ at[c] \in {2, 5, 8, 20, 21, 22}
    \/ task[c].kind = "client2" /\ at[c] = 5

\* What the test takes for success, except where it compares what it has read.
LEMMA TestSucceeds ==
    ASSUME NEW c \in Sessions, NEW r, NEW value \in Int, NEW data, app[c].kind = "test",
           ~Unchecked(c), r.code \notin {"REQUEST_READ", "REQUEST_LSEEK"}
    PROVE  /\ r.code = "REQUEST_OPEN" => (Succeeds(c, r, value, data) <=> value > 0)
           /\ r.code = "REQUEST_WRITE" => (Succeeds(c, r, value, data) <=> value = Len(r.data))
           /\ r.code \notin {"REQUEST_OPEN", "REQUEST_WRITE"} =>
                  (Succeeds(c, r, value, data) <=> value >= 0)
<1>1. ASSUME r.code = "REQUEST_OPEN" PROVE Succeeds(c, r, value, data) <=> value > 0
  BY <1>1, Zenon DEF Succeeds
<1>2. ASSUME r.code = "REQUEST_WRITE" PROVE Succeeds(c, r, value, data) <=> value = Len(r.data)
  BY <1>2, Zenon DEF Succeeds
<1>3. ASSUME r.code \notin {"REQUEST_OPEN", "REQUEST_WRITE"}
      PROVE  Succeeds(c, r, value, data) <=> value >= 0
  BY <1>3, Zenon DEF Succeeds
<1> QED BY <1>1, <1>2, <1>3

\* The calls of the test by their number.
LEMMA TestCalls ==
    ASSUME NEW c \in Sessions, ControlInv, stage[c] = "work",
           task[c].kind \in {"client1", "client2"}
    PROVE  /\ task[c].kind = "client1" => at[c] \in 1..22 /\ (IsLast(c) <=> at[c] = 22)
           /\ task[c].kind = "client2" => at[c] \in 1..5 /\ (IsLast(c) <=> at[c] = 5)
           /\ ~Loose(c) => NextCall(c).code \notin {"REQUEST_READ", "REQUEST_LSEEK"}
           /\ ~Loose(c) /\ NextCall(c).code = "REQUEST_WRITE" => Len(NextCall(c).data) = 1
           /\ ~Unchecked(c) \/ Loose(c)
<1>1. at[c] \in 1..Len(CallsOf(task[c], fd[c], size[c]))
  BY DEF ControlInv, ClientAt, StageAt
<1> PICK r : r = NextCall(c)
  OBVIOUS
<1>2. CASE task[c].kind = "client2"
  <2>1. at[c] \in 1..5 /\ Len(CallsOf(task[c], fd[c], size[c])) = 5
    <3>1. Len(CallsOf(task[c], fd[c], size[c])) = 5
      BY <1>2, Client2Calls
    <3> QED BY <1>1, <3>1
  <2>2. r \in {SharedOpen(task[c]), flock_(fd[c], "EX"), write_(fd[c], <<2>>), flock_(fd[c], "UN"),
               close_(fd[c])}
    BY <1>2, <2>1, Client2Calls DEF NextCall
  <2>3. /\ r.code \notin {"REQUEST_READ", "REQUEST_LSEEK"}
        /\ r.code = "REQUEST_WRITE" => Len(r.data) = 1
    BY <2>2 DEF SharedOpen, open_, flock_, write_, close_
  <2> QED BY <1>2, <2>1, <2>3 DEF IsLast, Unchecked
<1>3. CASE task[c].kind = "client1"
  <2>1. at[c] \in 1..22 /\ Len(CallsOf(task[c], fd[c], size[c])) = 22
    <3>1. Len(CallsOf(task[c], fd[c], size[c])) = 22
      BY <1>3, Client1Calls
    <3> QED BY <1>1, <3>1
  <2>2. at[c] \notin {2, 5, 8, 20, 21, 22} =>
          r \in {open_(task[c].file, {"WR", "CREAT"}), open_(task[c].file, {"RD"}), close_(fd[c]),
                 fstat_(fd[c]), unlink_(task[c].file), SharedOpen(task[c]), flock_(fd[c], "EX"),
                 write_(fd[c], <<1>>), flock_(fd[c], "UN")}
    BY <1>3, <2>1, Client1Calls DEF NextCall
  <2>3. at[c] \notin {2, 5, 8, 20, 21, 22} =>
          /\ r.code \notin {"REQUEST_READ", "REQUEST_LSEEK"}
          /\ r.code = "REQUEST_WRITE" => Len(r.data) = 1
    BY <2>2 DEF SharedOpen, open_, flock_, write_, close_, fstat_, unlink_
  <2> QED BY <1>3, <2>1, <2>3 DEF IsLast, Unchecked, Loose, RaceStep
<1> QED BY <1>2, <1>3

\* An answer of the test that is no comparison leaves it where it was.
LEMMA ReturnsSteps ==
    ASSUME NEW c \in Sessions, ControlInv, SlotAt(c), ByteAt(c), returns(c), app[c].kind = "test",
           task[c].kind \in {"client1", "client2"}
    PROVE  /\ Taken(c) \in {at[c] - 1, at[c]} /\ Taken(c)' \in {at[c] - 1, at[c]}
           /\ ~Loose(c) => Taken(c)' = Taken(c)
           /\ stage'[c] = "work" =>
                  /\ Taken(c)' = at[c] /\ Writing(c)'
                  /\ NextCall(c).code # "REQUEST_OPEN" => (HasLock(c)' <=> HasLock(c))
           /\ stage'[c] # "work" /\ ~Loose(c) /\ Opened(task[c], Taken(c)) # NoCall => ~Writing(c)
           /\ root' = root /\ dir' = dir /\ content' = content /\ left' = left
<1>1. /\ stage[c] = "work" /\ Outcome(c) /\ BackAgain(c) /\ Remembers(c) /\ at[c] \in Nat
      /\ GoesOn(c) \/ Completes(c) \/ GivesUp(c)
      /\ result' = [result EXCEPT ![c] = ResultOfCall(c)] /\ waiting[c] = NextCall(c)
  BY ReturnFacts
<1> PICK r, value : r = waiting[c] /\ value = ret'[c].value
  OBVIOUS
<1>2. value \in Int /\ (r.code = "REQUEST_OPEN" => value # 0)
  BY <1>1, OutcomeType
<1>3. Taken(c) = IF Answered(c) THEN at[c] ELSE at[c] - 1
  BY <1>1 DEF Taken
<1>4. ~Loose(c) => (Succeeded(c) <=> Answered(c))
  <2> SUFFICES ASSUME ~Loose(c) PROVE Succeeded(c) <=> Answered(c)
    OBVIOUS
  <2>1. ~Unchecked(c) /\ r.code \notin {"REQUEST_READ", "REQUEST_LSEEK"}
        /\ (r.code = "REQUEST_WRITE" => Len(r.data) = 1)
    BY <1>1, TestCalls
  <2>2. Succeeded(c) <=> Succeeds(c, r, value, ret'[c].data)
    BY DEF Succeeded
  <2>3. /\ r.code = "REQUEST_OPEN" => (Succeeded(c) <=> value > 0)
        /\ r.code = "REQUEST_WRITE" => (Succeeded(c) <=> value = Len(r.data))
        /\ r.code \notin {"REQUEST_OPEN", "REQUEST_WRITE"} => (Succeeded(c) <=> value >= 0)
    BY <1>2, <2>1, <2>2, TestSucceeds
  <2>4. (Answered(c) => value = job[c].value /\ value >= 0) /\ (~Answered(c) => value < 0)
    BY <1>1, <1>2 DEF Outcome, Answered, Idle
  <2>5. Answered(c) /\ r.code = "REQUEST_WRITE" => value = 1
    BY <1>1, <2>1, <2>4 DEF ByteAt
  <2>6. CASE r.code = "REQUEST_OPEN"
    BY <1>2, <2>3, <2>4, <2>6
  <2>7. CASE r.code = "REQUEST_WRITE"
    <3>1. Succeeded(c) <=> value = 1
      BY <2>1, <2>3, <2>7
    <3>2. Answered(c) <=> value = 1
      BY <1>2, <2>4, <2>5, <2>7
    <3> QED BY <3>1, <3>2
  <2>8. CASE r.code \notin {"REQUEST_OPEN", "REQUEST_WRITE"}
    <3>1. Succeeded(c) <=> value >= 0
      BY <2>3, <2>8
    <3>2. Answered(c) <=> value >= 0
      BY <1>2, <2>4
    <3> QED BY <3>1, <3>2
  <2> QED BY <2>6, <2>7, <2>8
<1>5. result'[c] = ResultOfCall(c) /\ stage \in [Sessions -> {"connect", "menu", "work", "closing", "leaving", "off"}]
  BY <1>1 DEF ControlInv, VariablesOK, ProgramsOK
<1>6. CASE GoesOn(c)
  <2>1. stage'[c] = "work" /\ Taken(c)' = at[c] /\ ~Refused(c)' /\ Current(c)' = fd'[c]
        /\ (r.code # "REQUEST_OPEN" => fd'[c] = fd[c] /\ Current(c) = fd[c])
    BY <1>6, AfterReturn
  <2>2. fdt' = fdt
    BY <1>1 DEF BackAgain
  <2>3. r.code # "REQUEST_OPEN" => (HasLock(c)' <=> HasLock(c))
    BY <2>1, <2>2 DEF HasLock
  <2>4. ~Loose(c) => Answered(c)
    BY <1>4, <1>6 DEF GoesOn
  <2> QED BY <1>1, <1>3, <2>1, <2>3, <2>4 DEF Writing, BackAgain, Remembers
<1>7. CASE Completes(c)
  <2>1. stage'[c] = "menu" /\ at' = at
    BY <1>5, <1>7 DEF Completes, GoTo
  <2>2. Taken(c)' \in {at[c] - 1, at[c]}
    BY <2>1 DEF Taken
  <2>3. Loose(c)
    BY <1>1, <1>7, TestCalls DEF Completes, Loose
  <2> QED BY <1>1, <1>3, <2>1, <2>2, <2>3 DEF BackAgain, Remembers
<1>8. CASE GivesUp(c)
  <2>1. stage'[c] = "menu" /\ at' = at /\ result'[c] = -1
    BY <1>5, <1>8 DEF GivesUp, GoTo, ResultOfCall
  <2>2. Taken(c)' = at[c] - 1
    BY <2>1 DEF Taken
  <2>3. ~Loose(c) => ~Answered(c)
    BY <1>4, <1>8 DEF GivesUp
  <2>4. ASSUME ~Loose(c), Opened(task[c], Taken(c)) # NoCall PROVE ~Writing(c)
    <3>1. session[c] = "on"
      BY <1>1, <2>4 DEF SlotAt
    <3>2. job[c].phase = "done" /\ job[c].value \in Int
      BY <1>1, <3>1 DEF Outcome, AnswerAt
    <3> QED BY <2>3, <2>4, <3>2 DEF Writing, Refused, Answered
  <2> QED BY <1>1, <1>3, <2>1, <2>2, <2>3, <2>4 DEF BackAgain, Remembers
<1> QED BY <1>1, <1>6, <1>7, <1>8

\* The descriptors that the test uses while it counts on its lock.
LEMMA TestOpened ==
    ASSUME NEW t
    PROVE  /\ \A n \in 14..18 : t.kind = "client1" => Opened(t, n) = SharedOpen(t)
           /\ \A n \in 1..4 : t.kind = "client2" => Opened(t, n) = SharedOpen(t)
           /\ SharedOpen(t) # NoCall
BY OpensAreCalls DEF Opened, SharedOpen

\* Clients that are left alone.
LEMMA OthersCalm ==
    ASSUME NEW c \in Sessions, NEW d \in Sessions, NEW s, PairAt(c, d, s)
    PROVE  /\ SameClient(c) => Calm1(c, s)
           /\ SameClient(d) => Calm2(d)
BY StepsKept DEF PairAt, Calm1, Calm2

\* What the two clients of the test do by themselves.
LEMMA ProgramCalm ==
    ASSUME NEW c \in Sessions, NEW d \in Sessions, NEW t \in app[c].tasks, NEW u \in app[d].tasks,
           IsTest(app, c, d, t, u), ControlInv, SlotsInv, TestInv
    PROVE  /\ ApplicationActs(c) => Calm1(c, t.shared)
           /\ ApplicationActs(d) => Calm2(d)
<1> PICK s : s = t.shared
  OBVIOUS
<1>1. /\ app[c].kind = "test" /\ app[d].kind = "test" /\ PairAt(c, d, s)
      /\ t.kind = "client1" /\ u.kind = "client2"
      /\ stage[c] = "work" => task[c] = t /\ Steps(c) = Taken(c)
      /\ stage[d] = "work" => task[d] = u /\ Steps(d) = Taken(d)
  BY TestFacts DEF IsTest
<1>2. TaskAt(c) /\ TaskAt(d) /\ ByteAt(c) /\ ByteAt(d) /\ SlotAt(c) /\ SlotAt(d)
  BY DEF TestInv, SlotsInv
<1>3. Steps(c) \in Int /\ Steps(d) \in Int
  BY StepsType DEF ControlInv, VariablesOK, ClientAt
<1>4. ASSUME connects(c) \/ begins(c) \/ calls(c) \/ exits(c) \/ closed(c) \/ ends(c)
      PROVE  Calm1(c, s)
  <2>1. /\ Steps(c)' = Steps(c) /\ (Writing(c)' \/ ~Writing(c))
        /\ root'[c] = root[c] \/ Steps(c) \in 0..1
        /\ stage'[c] = "work" /\ Steps(c)' > 0 =>
               stage[c] = "work" /\ (HasLock(c)' <=> HasLock(c))
    BY <1>1, <1>2, <1>4, IdleSteps
  <2>2. stage'[c] = "work" /\ Steps(c)' \in 15..16 => HasLock(c)'
    BY <1>1, <1>3, <2>1 DEF PairAt
  <2> QED BY <1>3, <2>1, <2>2 DEF Calm1
<1>5. ASSUME connects(d) \/ begins(d) \/ calls(d) \/ exits(d) \/ closed(d) \/ ends(d)
      PROVE  Calm2(d)
  <2>1. /\ Steps(d)' = Steps(d)
        /\ root'[d] = root[d] \/ Steps(d) \in 0..1
        /\ stage'[d] = "work" /\ Steps(d)' > 0 =>
               stage[d] = "work" /\ (HasLock(d)' <=> HasLock(d))
    BY <1>1, <1>2, <1>5, IdleSteps
  <2>2. stage'[d] = "work" /\ Steps(d)' = 2 => HasLock(d)'
    BY <1>1, <1>3, <2>1 DEF PairAt
  <2> QED BY <1>3, <2>1, <2>2 DEF Calm2
<1>6. ASSUME returns(c) PROVE Calm1(c, s)
  <2>1. stage[c] = "work" /\ task[c].kind = "client1" /\ left[c] = 0
    BY <1>1, <1>2, <1>6 DEF returns, TaskAt
  <2>2. /\ Taken(c) \in {at[c] - 1, at[c]} /\ Taken(c)' \in {at[c] - 1, at[c]}
        /\ ~Loose(c) => Taken(c)' = Taken(c)
        /\ stage'[c] = "work" =>
               /\ Taken(c)' = at[c] /\ Writing(c)'
               /\ NextCall(c).code # "REQUEST_OPEN" => (HasLock(c)' <=> HasLock(c))
        /\ stage'[c] # "work" /\ ~Loose(c) /\ Opened(task[c], Taken(c)) # NoCall => ~Writing(c)
        /\ root' = root /\ left' = left
    BY <1>1, <1>2, <1>6, <2>1, ReturnsSteps
  <2>3. at[c] \in 1..22 /\ (Loose(c) <=> at[c] \in {2, 5, 8, 20, 21, 22})
    BY <2>1, TestCalls DEF Loose
  <2>4. Steps(c) = Taken(c) /\ Steps(c)' = Taken(c)'
    BY <2>1, <2>2 DEF Steps
  <2>5. Steps(c)' = Steps(c) \/ (Steps(c) < 14 /\ Steps(c)' < 14) \/ (Steps(c) > 16 /\ Steps(c)' > 16)
    BY <2>2, <2>3, <2>4
  <2>6. Steps(c)' = 16 => Writing(c)' \/ ~Writing(c)
    <3>1. Steps(c)' = 16 => Taken(c) = 16 /\ ~Loose(c)
      BY <2>2, <2>3, <2>4
    <3>2. Taken(c) = 16 => Opened(task[c], Taken(c)) # NoCall
      BY <2>1, TestOpened
    <3> QED BY <2>2, <3>1, <3>2
  <2>7. stage'[c] = "work" /\ Steps(c)' \in 15..16 => HasLock(c)'
    <3> SUFFICES ASSUME stage'[c] = "work", Steps(c)' \in 15..16 PROVE HasLock(c)'
      OBVIOUS
    <3>1. at[c] \in 15..16 /\ Steps(c) = Steps(c)'
      BY <2>2, <2>3, <2>4
    <3>2. NextCall(c).code # "REQUEST_OPEN"
      <4>1. NextCall(c) \in {flock_(fd[c], "EX"), write_(fd[c], <<1>>)}
        BY <2>1, <3>1, Client1Calls DEF NextCall
      <4> QED BY <4>1 DEF flock_, write_
    <3> QED BY <1>1, <2>1, <2>2, <3>1, <3>2 DEF PairAt
  <2>8. Steps(c)' \in Int
    BY <2>2, <2>3, <2>4
  <2> QED BY <1>3, <2>2, <2>5, <2>6, <2>7, <2>8 DEF Calm1
<1>7. ASSUME returns(d) PROVE Calm2(d)
  <2>1. stage[d] = "work" /\ task[d].kind = "client2" /\ left[d] = 0
    BY <1>1, <1>2, <1>7 DEF returns, TaskAt
  <2>2. /\ Taken(d) \in {at[d] - 1, at[d]} /\ Taken(d)' \in {at[d] - 1, at[d]}
        /\ ~Loose(d) => Taken(d)' = Taken(d)
        /\ stage'[d] = "work" =>
               /\ Taken(d)' = at[d]
               /\ NextCall(d).code # "REQUEST_OPEN" => (HasLock(d)' <=> HasLock(d))
        /\ root' = root /\ left' = left
    BY <1>1, <1>2, <1>7, <2>1, ReturnsSteps
  <2>3. at[d] \in 1..5 /\ (Loose(d) <=> at[d] = 5)
    BY <2>1, TestCalls DEF Loose
  <2>4. Steps(d) = Taken(d) /\ Steps(d)' = Taken(d)'
    BY <2>1, <2>2 DEF Steps
  <2>5. Steps(d)' = Steps(d) \/ (Steps(d) >= 3 /\ Steps(d)' >= 3)
    BY <2>2, <2>3, <2>4
  <2>6. stage'[d] = "work" /\ Steps(d)' = 2 => HasLock(d)'
    <3> SUFFICES ASSUME stage'[d] = "work", Steps(d)' = 2 PROVE HasLock(d)'
      OBVIOUS
    <3>1. at[d] = 2 /\ Steps(d) = Steps(d)'
      BY <2>2, <2>3, <2>4
    <3>2. NextCall(d).code # "REQUEST_OPEN"
      <4>1. NextCall(d) = flock_(fd[d], "EX")
        BY <2>1, <3>1, Client2Calls DEF NextCall
      <4> QED BY <4>1 DEF flock_
    <3> QED BY <1>1, <2>1, <2>2, <3>1, <3>2 DEF PairAt
  <2>7. Steps(d)' \in Int
    BY <2>2, <2>3, <2>4
  <2> QED BY <1>3, <2>2, <2>5, <2>6, <2>7 DEF Calm2
<1> QED BY <1>4, <1>5, <1>6, <1>7 DEF ApplicationActs

\* A step of the system that carries out no call of a command.
LEMMA QuietSteps ==
    ASSUME NEW c \in Sessions, ControlInv, SlotAt(c), TaskAt(c), ByteAt(c), ServerActs(c),
           ~(Executes(c) /\ stage[c] = "work")
    PROVE  /\ Steps(c)' = Steps(c) /\ (Writing(c)' <=> Writing(c))
           /\ root' = root /\ dir' = dir /\ content' = content
           /\ stage'[c] = "work" => stage[c] = "work"
           /\ stage[c] = "work" /\ Opened(task[c], Taken(c)) # NoCall =>
                  (HasLock(c)' <=> HasLock(c))
           /\ TaskAt(c)' /\ ByteAt(c)'
<1> USE DEF ControlInv, VariablesOK
<1>1. SameApps /\ ClientAt(c) /\ RemoteOK
  BY AppsKept
<1>2. CASE Executes(c)
  <2>1. stage[c] = "closing" /\ session' = session /\ root' = root
        /\ CarriedOut(c, close_(fd[c]))
    BY <1>2, ExecutesCases DEF Calling
  <2>2. dir' = dir /\ content' = content
    BY <2>1 DEF CarriedOut, Failed, OpenDone, CloseDone, ReadDone, WriteDone, LseekDone, FstatDone,
                UnlinkDone, FlockDone, FlockWaits, close_, SysClose, kernelVars
  <2> QED BY <1>1, <2>1, <2>2 DEF SameApps, Steps, Taken, Writing, TaskAt, ByteAt
<1>3. CASE SessionEnds(c) \/ Releases(c) \/ Drops(c)
  <2>1. root' = root /\ dir' = dir /\ content' = content
    BY <1>3 DEF SessionEnds, Releases, Drops, SysClose, kernelVars, apiVars
  <2>2. session[c] # "none" => session'[c] # "none"
    BY <1>1, <1>3 DEF SessionEnds, Releases, Drops, apiVars, RemoteOK, OfClients
  <2>3. TaskAt(c)'
    BY <1>1, <2>2 DEF SameApps, TaskAt
  <2>4. CASE stage[c] # "work"
    BY <1>1, <2>1, <2>3, <2>4 DEF SameApps, Steps, Taken, Writing, ByteAt
  <2>5. CASE stage[c] = "work"
    <3>1. ~ended[c] /\ ~Drops(c)
      BY <1>1, <2>5 DEF ClientAt, StageAt, Drops
    <3>2. ASSUME Releases(c) PROVE session[c] = "over" /\ job' = job /\ waiting' = waiting
      BY <3>2 DEF Releases, apiVars
    <3>3. ASSUME SessionEnds(c)
          PROVE  ~Answered(c) /\ ~Refused(c) /\ ~Answered(c)' /\ ~Refused(c)' /\ fdt' = fdt
      <4>1. job[c].phase = "pending" /\ job'[c] = Idle /\ fdt' = fdt
        BY <1>1, <3>1, <3>3 DEF SessionEnds, Pending, RemoteOK, OfClients, kernelVars
      <4> QED BY <4>1 DEF Answered, Refused, Idle
    <3>4. (Answered(c)' <=> Answered(c)) /\ (Refused(c)' <=> Refused(c))
      BY <1>3, <3>1, <3>2, <3>3 DEF Answered, Refused
    <3>5. Steps(c)' = Steps(c) /\ (Writing(c)' <=> Writing(c))
      BY <1>1, <3>4 DEF SameApps, Steps, Taken, Writing
    <3>6. Opened(task[c], Taken(c)) # NoCall => (HasLock(c)' <=> HasLock(c))
      <4> SUFFICES ASSUME Opened(task[c], Taken(c)) # NoCall PROVE HasLock(c)' <=> HasLock(c)
        OBVIOUS
      <4>1. session[c] = "on"
        BY <2>5 DEF SlotAt
      <4>2. SessionEnds(c)
        BY <1>3, <3>1, <3>2, <4>1
      <4>3. Current(c)' = Current(c) /\ fdt' = fdt
        BY <1>1, <3>3, <4>2 DEF SameApps, Current
      <4> QED BY <4>3 DEF HasLock
    <3>7. ByteAt(c)'
      BY <1>1, <1>3, <3>1, <3>2, <3>3 DEF SameApps, ByteAt, Answered
    <3> QED BY <1>1, <2>1, <2>3, <3>5, <3>6, <3>7 DEF SameApps
  <2> QED BY <2>4, <2>5
<1> QED BY <1>2, <1>3 DEF ServerActs, SystemActs

\* A byte of the test is written, or there is no room for it.
LEMMA ExecutesByte ==
    ASSUME NEW c \in Sessions, ControlInv, TaskAt(c), ServerActs(c), Executes(c), stage[c] = "work"
    PROVE  TaskAt(c)' /\ ByteAt(c)'
<1>1. SameApps /\ session' = session /\ waiting' = waiting
  BY AppsKept, ExecutesCases
<1>2. TaskAt(c)'
  BY <1>1 DEF SameApps, TaskAt
<1> PICK r : r = waiting[c]
  OBVIOUS
<1>3. CarriedOut(c, r) /\ GoodCall(r) /\ Arg(c) = r
  BY ExecutesCases
<1>4. ASSUME r.code = "REQUEST_WRITE", Len(r.data) = 1, Answered(c)' PROVE job'[c].value = 1
  <2>1. ~Failed(c)
    <3>1. Failed(c) => job'[c].value = -1
      BY DEF Failed, Done
    <3> QED BY <1>4, <3>1 DEF Answered
  <2>2. WriteDone(c, r)
    BY <1>3, <1>4, <2>1 DEF CarriedOut, OpenDone, CloseDone, ReadDone, LseekDone, FstatDone,
                            UnlinkDone, FlockDone, FlockWaits
  <2>3. /\ r.fd \in Fds /\ r.data \in Seq(Nat) /\ SysWrite(c, r.fd, r.data) /\ IsFile(c, r.fd)
        /\ job'[c] = Done(WriteCount(c, r.fd, r.data), "0", << >>)
    BY <1>3, <1>4, <2>2 DEF WriteDone, Fit, GoodCall
  <2>4. KernelTypeOK /\ fdt[c][r.fd].ino \in Inodes
    BY <2>3 DEF ControlInv, VariablesOK, ClientAt, FilesAt
  <2>5. WriteCount(c, r.fd, r.data) \in 0..1 /\ WriteCount(c, r.fd, r.data) > 0
    <3>1. r.data # << >>
      <4> PICK b : b = r.data
        OBVIOUS
      <4>1. b \in Seq(Nat) /\ Len(b) = 1
        BY <1>4, <2>3
      <4>2. Len(<< >>) = 0
        OBVIOUS
      <4> QED BY <4>1, <4>2
    <3> QED BY <1>4, <2>2, <2>3, <2>4, <3>1, SysWriteType DEF WriteDone
  <2> QED BY <2>3, <2>5 DEF Done
<1> QED BY <1>1, <1>2, <1>4 DEF ByteAt

\* The kinds of calls that can touch the bytes or the name of a file.
LEMMA CallsKeepShared ==
    ASSUME NEW c \in Sessions, NEW r, NEW s \in Strings, KernelTypeOK, Arg(c) = r, GoodCall(r),
           root[c] \in Dirs, CarriedOut(c, r),
           r.code = "REQUEST_UNLINK" => IsPlain(r.path) /\ IsPlain(s) /\ r.path # s,
           r.code = "REQUEST_OPEN" => "TRUNC" \notin r.oflag,
           r.code = "REQUEST_WRITE" /\ ~Failed(c) =>
               \A D \in Dirs : Named(D, s) => fdt[c][r.fd].ino # dir[Resolved(D, s)]
    PROVE  KeepsShared(s)
<1>1. dir \in [Paths -> Inodes \cup {NoInode}] /\ content \in [Inodes -> Seq(Nat)]
      /\ \A D \in Dirs : Resolved(D, s) \in Paths
  BY NamesArePaths DEF KernelTypeOK
<1>2. dir' = dir /\ content' = content => KeepsShared(s)
  BY DEF KeepsShared, In, Named
<1>3. CASE Failed(c)
  BY <1>2, <1>3 DEF Failed, kernelVars
<1>4. CASE OpenDone(c, r)
  <2> PICK p : p = Resolved(root[c], r.path)
    OBVIOUS
  <2>1. p \in Paths /\ "TRUNC" \notin r.oflag
    BY <1>4, NamesArePaths DEF OpenDone, GoodCall
  <2>2. PICK g \in Fds : OpenAt(c, p, r.oflag, g)
    BY <1>4 DEF OpenDone
  <2>3. /\ dir[p] # NoInode => dir' = dir /\ content' = content
        /\ dir[p] = NoInode =>
               /\ ~InodeInUse(dir'[p]) /\ dir' = [dir EXCEPT ![p] = dir'[p]]
               /\ content' = [content EXCEPT ![dir'[p]] = << >>]
        /\ dir'[p] \in Inodes
    BY <2>1, <2>2, FileOpened
  <2>4. CASE dir[p] = NoInode
    <3> PICK i : i = dir'[p]
      OBVIOUS
    <3>1. /\ i \in Inodes /\ dir' = [dir EXCEPT ![p] = i] /\ content' = [content EXCEPT ![i] = << >>]
          /\ \A q \in Paths : dir[q] # i
      BY <2>3, <2>4 DEF InodeInUse
    <3>2. ASSUME NEW D \in Dirs, Named(D, s)
          PROVE  dir'[Resolved(D, s)] # NoInode /\ content'[dir'[Resolved(D, s)]] = In(D, s)
      <4> PICK q : q = Resolved(D, s)
        OBVIOUS
      <4>1. q \in Paths /\ dir[q] # NoInode /\ q # p
        BY <1>1, <2>4, <3>2 DEF Named
      <4>2. dir'[q] = dir[q] /\ dir[q] \in Inodes /\ dir[q] # i
        BY <1>1, <3>1, <4>1
      <4>3. content'[dir'[q]] = content[dir[q]]
        BY <1>1, <3>1, <4>2
      <4> QED BY <4>1, <4>2, <4>3 DEF In
    <3>3. ASSUME NEW D \in Dirs, ~Named(D, s)
          PROVE  dir'[Resolved(D, s)] = NoInode \/ content'[dir'[Resolved(D, s)]] = << >>
      <4> PICK q : q = Resolved(D, s)
        OBVIOUS
      <4>1. q \in Paths /\ dir[q] = NoInode
        BY <1>1, <3>3 DEF Named
      <4>2. q # p => dir'[q] = NoInode
        BY <1>1, <3>1, <4>1
      <4>3. q = p => content'[dir'[q]] = << >>
        BY <1>1, <2>1, <3>1
      <4> QED BY <4>2, <4>3
    <3> QED BY <3>2, <3>3 DEF KeepsShared
  <2> QED BY <1>2, <2>3, <2>4
<1>5. CASE UnlinkDone(c, r)
  <2>1. /\ dir' = [dir EXCEPT ![Resolved(root[c], r.path)] = NoInode] /\ content' = content
        /\ \A D \in Dirs : Resolved(root[c], r.path) # Resolved(D, s)
    BY <1>5 DEF UnlinkDone, SysUnlink, IsPlain
  <2>2. \A D \in Dirs : dir'[Resolved(D, s)] = dir[Resolved(D, s)]
    BY <1>1, <2>1
  <2> QED BY <2>1, <2>2 DEF KeepsShared, In, Named
<1>6. CASE WriteDone(c, r)
  <2>1. /\ dir' = dir /\ \A D \in Dirs : Named(D, s) => Failed(c) \/ fdt[c][r.fd].ino # dir[Resolved(D, s)]
        /\ content' = content \/ \E b : content' = [content EXCEPT ![fdt[c][r.fd].ino] = b]
    BY <1>6 DEF WriteDone, SysWrite
  <2>2. \A D \in Dirs : Named(D, s) => dir[Resolved(D, s)] \in Inodes
    BY <1>1 DEF Named
  <2>3. \A D \in Dirs : Named(D, s) => Failed(c) \/ content'[dir[Resolved(D, s)]] = In(D, s)
    BY <1>1, <2>1, <2>2 DEF In
  <2> QED BY <1>3, <2>1, <2>3 DEF KeepsShared, Named
<1>7. CloseDone(c, r) \/ ReadDone(c, r) \/ LseekDone(c, r) \/ FstatDone(c, r) \/ FlockDone(c, r)
      \/ FlockWaits(c, r) => dir' = dir /\ content' = content
  BY DEF CloseDone, ReadDone, LseekDone, FstatDone, FlockDone, FlockWaits, SysClose, SysRead,
         SysLseek, SetLock, kernelVars
<1> QED BY <1>2, <1>3, <1>4, <1>5, <1>6, <1>7 DEF CarriedOut

\* Where the test opens, writes and locks files.
LEMMA TestCodes ==
    ASSUME NEW c \in Sessions, ControlInv, stage[c] = "work",
           task[c].kind \in {"client1", "client2"}
    PROVE  /\ NextCall(c).code = "REQUEST_OPEN" => "TRUNC" \notin NextCall(c).oflag
           /\ NextCall(c).code = "REQUEST_WRITE" =>
                  \/ task[c].kind = "client1" /\ at[c] \in {2, 16, 17}
                  \/ task[c].kind = "client2" /\ at[c] = 3
           /\ NextCall(c).code = "REQUEST_FLOCK" =>
                  \/ task[c].kind = "client1" /\ at[c] \in {15, 18}
                  \/ task[c].kind = "client2" /\ at[c] \in {2, 4}
<1> PICK r : r = NextCall(c)
  OBVIOUS
<1>1. CASE task[c].kind = "client2"
  <2>1. at[c] \in 1..5
    BY <1>1, TestCalls
  <2>2. /\ at[c] = 1 => r = SharedOpen(task[c])
        /\ at[c] \in {2, 4} => r \in {flock_(fd[c], "EX"), flock_(fd[c], "UN")}
        /\ at[c] = 3 => r = write_(fd[c], <<2>>)
        /\ at[c] = 5 => r = close_(fd[c])
    BY <1>1, Client2Calls DEF NextCall
  <2> QED BY <1>1, <2>1, <2>2 DEF SharedOpen, open_, flock_, write_, close_
<1>2. CASE task[c].kind = "client1"
  <2>1. at[c] \in 1..22
    BY <1>2, TestCalls
  <2>2. ASSUME at[c] \in {1, 4, 7, 10, 14, 20}
        PROVE  r.code = "REQUEST_OPEN" /\ "TRUNC" \notin r.oflag
    <3>1. r \in {open_(task[c].file, {"WR", "CREAT"}), open_(task[c].file, {"RD"}),
                 open_(task[c].shared, {"RD"}), SharedOpen(task[c])}
      BY <1>2, <2>2, Client1Calls DEF NextCall
    <3> QED BY <3>1 DEF SharedOpen, open_
  <2>3. ASSUME at[c] \in {15, 18} PROVE r.code = "REQUEST_FLOCK"
    <3>1. r \in {flock_(fd[c], "EX"), flock_(fd[c], "UN")}
      BY <1>2, <2>3, Client1Calls DEF NextCall
    <3> QED BY <3>1 DEF flock_
  <2>4. ASSUME at[c] \in {2, 16, 17} PROVE r.code = "REQUEST_WRITE"
    <3>1. r \in {write_(fd[c], task[c].data), write_(fd[c], <<1>>)}
      BY <1>2, <2>4, Client1Calls DEF NextCall
    <3> QED BY <3>1 DEF write_
  <2>5. ASSUME at[c] \in {3, 6, 9, 12, 19, 22} PROVE r.code = "REQUEST_CLOSE"
    <3>1. r = close_(fd[c])
      BY <1>2, <2>5, Client1Calls DEF NextCall
    <3> QED BY <3>1 DEF close_
  <2>6. ASSUME at[c] \in {5, 8, 11, 13, 21}
        PROVE  r.code \in {"REQUEST_READ", "REQUEST_LSEEK", "REQUEST_FSTAT", "REQUEST_UNLINK"}
    <3>1. CASE at[c] \in {5, 21}
      <4>1. r = read_(fd[c], 4) \/ r = read_(fd[c], Len(task[c].data))
        BY <1>2, <3>1, Client1Calls DEF NextCall
      <4> QED BY <4>1 DEF read_
    <3>2. CASE at[c] \in {8, 11, 13}
      <4>1. r \in {lseek_(fd[c], 0, "END"), fstat_(fd[c]), unlink_(task[c].file)}
        BY <1>2, <3>2, Client1Calls DEF NextCall
      <4> QED BY <4>1 DEF lseek_, fstat_, unlink_
    <3> QED BY <2>6, <3>1, <3>2
  <2>7. \/ at[c] \in {1, 4, 7, 10, 14, 20} \/ at[c] \in {15, 18} \/ at[c] \in {2, 16, 17}
        \/ at[c] \in {3, 6, 9, 12, 19, 22} \/ at[c] \in {5, 8, 11, 13, 21}
    BY <2>1
  <2>8. /\ r.code = "REQUEST_OPEN" => "TRUNC" \notin r.oflag
        /\ r.code = "REQUEST_WRITE" => at[c] \in {2, 16, 17}
        /\ r.code = "REQUEST_FLOCK" => at[c] \in {15, 18}
    BY <2>2, <2>3, <2>4, <2>5, <2>6, <2>7
  <2> QED BY <1>2, <2>8
<1> QED BY <1>1, <1>2

\* The file in use by a program of the test.
LEMMA TestFile ==
    ASSUME NEW c \in Sessions, ControlInv, SlotAt(c), NameAt(c), Executes(c), stage[c] = "work",
           app[c].kind = "test", NEW o, o = Opened(task[c], at[c] - 1), o # NoCall
    PROVE  /\ fd[c] \in Fds /\ IsFile(c, fd[c]) /\ fdt[c][fd[c]].ino \in Inodes
           /\ fdt[c][fd[c]].ino = dir[Resolved(root[c], o.path)]
           /\ fdt[c][fd[c]].append = ("APPEND" \in o.oflag)
           /\ fdt[c][fd[c]].rights = o.oflag \cap {"RD", "WR"}
<1>1. Taken(c) = at[c] - 1 /\ Current(c) = fd[c]
  BY BeforeCall
<1>2. InUse(c, fd[c], o)
  BY <1>1, SlotsInUse
<1>3. FilesAt(c)
  BY DEF ControlInv, ClientAt
<1> QED BY <1>2, <1>3 DEF InUse, OpenAs, FilesAt

\* A lock that the system gives, or that nobody touches.
LEMMA LockGiven ==
    ASSUME NEW c \in Sessions, ControlInv, ServerActs(c), Executes(c), stage[c] = "work"
    PROVE  /\ waiting[c] = flock_(fd[c], "EX") /\ ~Failed(c) /\ ~FlockWaits(c, waiting[c]) =>
                  HasLock(c)'
           /\ Failed(c) => (HasLock(c)' <=> HasLock(c))
<1> PICK r : r = waiting[c]
  OBVIOUS
<1>1. KernelTypeOK /\ CarriedOut(c, r) /\ Arg(c) = r /\ Current(c) = fd[c]
  BY BeforeCall, ExecutesCases DEF ControlInv, VariablesOK
<1>2. ASSUME r = flock_(fd[c], "EX"), ~Failed(c), ~FlockWaits(c, r) PROVE HasLock(c)'
  <2>1. r.code = "REQUEST_FLOCK" /\ r.fd = fd[c] /\ r.operation = "EX"
    BY <1>2 DEF flock_
  <2>2. FlockDone(c, r)
    BY <1>1, <1>2, <2>1 DEF CarriedOut, OpenDone, CloseDone, ReadDone, WriteDone, LseekDone,
                            FstatDone, UnlinkDone
  <2> PICK g : g = fd[c]
    OBVIOUS
  <2>3. g \in Fds /\ fdt' = [fdt EXCEPT ![c][g].lock = "EX"]
    BY <1>1, <2>1, <2>2 DEF FlockDone, SetLock, Fit
  <2>4. fdt'[c][g].lock = "EX"
    BY <1>1, <2>3 DEF KernelTypeOK, Slot
  <2>5. Current(c)' = g
    BY <2>1, AfterCall
  <2> QED BY <2>4, <2>5 DEF HasLock
<1>3. ASSUME Failed(c) PROVE HasLock(c)' <=> HasLock(c)
  <2>1. Current(c)' = Current(c) /\ fdt' = fdt
    BY <1>1, <1>3, AfterCall DEF Failed, kernelVars
  <2> QED BY <2>1 DEF HasLock
<1> QED BY <1>2, <1>3

\* What client 1 of the test has the system do, except for its writes in the
\* shared file.
LEMMA Client1Calm ==
    ASSUME NEW c \in Sessions, NEW d \in Sessions, NEW t \in app[c].tasks, NEW u \in app[d].tasks,
           IsTest(app, c, d, t, u), ControlInv, SlotsInv, UniqueNames, TestInv,
           ServerActs(c), Executes(c), stage[c] = "work",
           at[c] \notin {16, 17} \/ (at[c] = 16 /\ Failed(c))
    PROVE  KeepsShared(t.shared) /\ Calm1(c, t.shared)
<1> PICK s, r : s = t.shared /\ r = waiting[c]
  OBVIOUS
<1>1. /\ app[c].kind = "test" /\ PairAt(c, d, s) /\ task[c] = t /\ Steps(c) = Taken(c)
      /\ root[c] \in Dirs /\ t.kind = "client1" /\ s \in Strings /\ t.file \in Strings /\ t.file # s
      /\ IsPlain(t.file) /\ IsPlain(s)
  BY TestFacts DEF IsTest, Client1Tasks
<1>2. SlotAt(c) /\ NameAt(c) /\ left[c] = 0
  BY <1>1 DEF SlotsInv, TestInv, TaskAt
<1>3. /\ r = NextCall(c) /\ CarriedOut(c, r) /\ Arg(c) = r /\ GoodCall(r) /\ Taken(c) = at[c] - 1
      /\ FitsIn(r, t, at[c], fd[c]) /\ root' = root
  BY <1>1, BeforeCall, ExecutesCases
<1>4. SameApps /\ KernelTypeOK
  BY AppsKept DEF ControlInv, VariablesOK
<1>5. at[c] \in 1..22
  BY <1>1, TestCalls
<1>6. /\ r.code = "REQUEST_OPEN" => "TRUNC" \notin r.oflag
      /\ r.code = "REQUEST_WRITE" => at[c] \in {2, 16, 17}
      /\ r.code = "REQUEST_FLOCK" => at[c] \in {15, 18}
  BY <1>1, <1>3, TestCodes
<1>7. KeepsShared(s)
  <2>1. r.code = "REQUEST_UNLINK" => r.path = t.file
    BY <1>1, <1>3 DEF FitsIn
  <2>2. ASSUME r.code = "REQUEST_WRITE", ~Failed(c), NEW D \in Dirs, Named(D, s)
        PROVE  fdt[c][r.fd].ino # dir[Resolved(D, s)]
    <3>1. at[c] = 2
      BY <1>6, <2>2
    <3> PICK o : o = Opened(t, at[c] - 1)
      OBVIOUS
    <3>2. o = open_(t.file, {"WR", "CREAT"})
      BY <1>1, <3>1 DEF Opened
    <3>3. o # NoCall /\ o.path = t.file /\ r.fd = fd[c]
      <4>1. r = write_(fd[c], t.data)
        BY <1>1, <1>3, <3>1, Client1Calls DEF NextCall
      <4> QED BY <3>2, <4>1, OpensAreCalls DEF open_, write_
    <3> PICK p, q : p = Resolved(root[c], t.file) /\ q = Resolved(D, s)
      OBVIOUS
    <3>4. fdt[c][fd[c]].ino = dir[p] /\ fdt[c][fd[c]].ino \in Inodes
      BY <1>1, <1>2, <3>3, TestFile
    <3>5. p \in Paths /\ q \in Paths /\ p # q
      BY <1>1, NamesArePaths DEF IsPlain
    <3> QED BY <2>2, <3>3, <3>4, <3>5 DEF UniqueNames, Named
  <2> QED BY <1>1, <1>3, <1>4, <1>6, <2>1, <2>2, CallsKeepShared
<1>8. /\ Steps(c)' = Taken(c)' /\ stage'[c] = "work"
      /\ Failed(c) \/ FlockWaits(c, r) => Taken(c)' = at[c] - 1
      /\ ~Failed(c) /\ ~FlockWaits(c, r) => Taken(c)' = at[c]
  BY <1>2, <1>4, AfterCall DEF SameApps, Steps
<1>9. FlockWaits(c, r) => at[c] \in {15, 18}
  BY <1>6 DEF FlockWaits
<1>10. Steps(c) = at[c] - 1 /\ Steps(c)' \in {at[c] - 1, at[c]} /\ Steps(c)' # 16
  BY <1>1, <1>3, <1>5, <1>8, <1>9
<1>11. Steps(c)' >= 14 => Steps(c) >= 14 \/ dir'[Resolved(root[c], s)] # NoInode
  <2> SUFFICES ASSUME Steps(c)' >= 14, ~(Steps(c) >= 14) PROVE dir'[Resolved(root[c], s)] # NoInode
    OBVIOUS
  <2>1. at[c] = 14
    BY <1>5, <1>10
  <2>2. ~Failed(c) /\ ~FlockWaits(c, r)
    BY <1>8, <1>9, <2>1
  <2>3. r = SharedOpen(t)
    BY <1>1, <1>3, <2>1, Client1Calls DEF NextCall
  <2>4. r.code = "REQUEST_OPEN" /\ r.path = s
    BY <2>3 DEF SharedOpen, open_
  <2>5. OpenDone(c, r)
    BY <1>3, <2>2, <2>4 DEF CarriedOut, CloseDone, ReadDone, WriteDone, LseekDone, FstatDone,
                            UnlinkDone, FlockDone
  <2> PICK p : p = Resolved(root[c], s)
    OBVIOUS
  <2>6. PICK g \in Fds : OpenAt(c, p, r.oflag, g)
    BY <2>4, <2>5 DEF OpenDone
  <2>7. dir'[p] \in Inodes
    BY <1>1, <1>4, <2>6, FileOpened, NamesArePaths
  <2> QED BY <2>7, KernelAssumption DEF NoInode
<1>12. Steps(c)' \in 15..16 => HasLock(c)'
  <2> SUFFICES ASSUME Steps(c)' = 15 PROVE HasLock(c)'
    BY <1>5, <1>10
  <2>1. CASE at[c] = 15
    <3>1. r = flock_(fd[c], "EX")
      BY <1>1, <1>3, <2>1, Client1Calls DEF NextCall
    <3>2. ~(Failed(c) \/ FlockWaits(c, r))
      BY <1>8, <2>1
    <3>3. waiting[c] = flock_(fd[c], "EX") /\ ~Failed(c) /\ ~FlockWaits(c, waiting[c])
      BY <3>1, <3>2
    <3> QED BY <3>3, LockGiven
  <2>2. CASE at[c] = 16
    <3>1. HasLock(c)
      BY <1>1, <1>10, <2>2 DEF PairAt
    <3>2. Failed(c)
      BY <2>2
    <3> QED BY <3>1, <3>2, LockGiven
  <2> QED BY <1>5, <1>10, <2>1, <2>2
<1>13. Calm1(c, s)
  <2>1. /\ Steps(c)' < 16 => Steps(c) < 16
        /\ Steps(c)' > 16 => Steps(c) > 16
    BY <1>5, <1>8, <1>9, <1>10
  <2> QED BY <1>3, <1>10, <1>11, <1>12, <2>1 DEF Calm1
<1> QED BY <1>7, <1>13

\* What client 2 has it do, except for its write.
LEMMA Client2Calm ==
    ASSUME NEW c \in Sessions, NEW d \in Sessions, NEW t \in app[c].tasks, NEW u \in app[d].tasks,
           IsTest(app, c, d, t, u), ControlInv, SlotsInv, TestInv,
           ServerActs(d), Executes(d), stage[d] = "work", at[d] # 3 \/ Failed(d)
    PROVE  KeepsShared(t.shared) /\ Calm2(d)
<1> PICK s, r : s = t.shared /\ r = waiting[d]
  OBVIOUS
<1>1. /\ app[d].kind = "test" /\ PairAt(c, d, s) /\ task[d] = u /\ Steps(d) = Taken(d)
      /\ root[d] \in Dirs /\ u.kind = "client2" /\ s \in Strings
  BY TestFacts DEF IsTest
<1>2. left[d] = 0
  BY <1>1 DEF TestInv, TaskAt
<1>3. /\ r = NextCall(d) /\ CarriedOut(d, r) /\ Arg(d) = r /\ GoodCall(r) /\ Taken(d) = at[d] - 1
      /\ FitsIn(r, u, at[d], fd[d]) /\ root' = root
  BY <1>1, BeforeCall, ExecutesCases
<1>4. SameApps /\ KernelTypeOK
  BY AppsKept DEF ControlInv, VariablesOK
<1>5. at[d] \in 1..5
  BY <1>1, TestCalls
<1>6. /\ r.code = "REQUEST_OPEN" => "TRUNC" \notin r.oflag
      /\ r.code = "REQUEST_WRITE" => at[d] = 3
      /\ r.code = "REQUEST_FLOCK" => at[d] \in {2, 4}
  BY <1>1, <1>3, TestCodes
<1>7. KeepsShared(s)
  <2>1. r.code # "REQUEST_UNLINK"
    BY <1>1, <1>3 DEF FitsIn
  <2> QED BY <1>1, <1>3, <1>4, <1>6, <2>1, CallsKeepShared
<1>8. /\ Steps(d)' = Taken(d)' /\ stage'[d] = "work"
      /\ Failed(d) \/ FlockWaits(d, r) => Taken(d)' = at[d] - 1
      /\ ~Failed(d) /\ ~FlockWaits(d, r) => Taken(d)' = at[d]
  BY <1>2, <1>4, AfterCall DEF SameApps, Steps
<1>9. FlockWaits(d, r) => at[d] \in {2, 4}
  BY <1>6 DEF FlockWaits
<1>10. Steps(d) = at[d] - 1 /\ Steps(d)' \in {at[d] - 1, at[d]}
  BY <1>1, <1>3, <1>5, <1>8, <1>9
<1>11. Steps(d)' = 2 => HasLock(d)'
  <2> SUFFICES ASSUME Steps(d)' = 2 PROVE HasLock(d)'
    OBVIOUS
  <2>1. CASE at[d] = 2
    <3>1. r = flock_(fd[d], "EX")
      BY <1>1, <1>3, <2>1, Client2Calls DEF NextCall
    <3>2. ~(Failed(d) \/ FlockWaits(d, r))
      BY <1>8, <2>1
    <3>3. waiting[d] = flock_(fd[d], "EX") /\ ~Failed(d) /\ ~FlockWaits(d, waiting[d])
      BY <3>1, <3>2
    <3> QED BY <3>3, LockGiven
  <2>2. CASE at[d] = 3
    <3>1. HasLock(d)
      BY <1>1, <1>10, <2>2 DEF PairAt
    <3>2. Failed(d)
      BY <2>2
    <3> QED BY <3>1, <3>2, LockGiven
  <2> QED BY <1>5, <1>10, <2>1, <2>2
<1>12. Calm2(d)
  <2>1. Steps(d)' < 3 => Steps(d) < 3
    BY <1>5, <1>8, <1>9, <1>10
  <2> QED BY <1>3, <1>11, <2>1 DEF Calm2
<1> QED BY <1>7, <1>12

\* A byte behind one or two others.
LEMMA AppendedBytes ==
    ASSUME NEW x \in Nat, NEW y \in Nat, NEW z \in Nat
    PROVE  Append(<< >>, x) = <<x>> /\ Append(<<x>>, y) = <<x, y>> /\ Append(<<x, y>>, z) = <<x, y, z>>
<1>1. ASSUME NEW b \in Seq(Nat), NEW v \in Nat, NEW a \in Seq(Nat), Len(a) = Len(b) + 1,
             \A k \in 1..Len(b) : a[k] = b[k], a[Len(b) + 1] = v
      PROVE  Append(b, v) = a
  <2> PICK e, n : e = Append(b, v) /\ n = Len(b)
    OBVIOUS
  <2>1. /\ e \in Seq(Nat) /\ Len(e) = n + 1 /\ n \in Nat
        /\ (\A k \in 1..n : e[k] = b[k]) /\ e[n + 1] = v
    BY AppendProperties
  <2>2. \A k \in 1..n + 1 : e[k] = a[k]
    BY <1>1, <2>1
  <2> QED BY <1>1, <2>1, <2>2, SeqEqual
<1> PICK b, a, e : b = <<x>> /\ a = <<x, y>> /\ e = <<x, y, z>>
  OBVIOUS
<1>2. /\ b \in Seq(Nat) /\ Len(b) = 1 /\ b[1] = x
      /\ a \in Seq(Nat) /\ Len(a) = 2 /\ a[1] = x /\ a[2] = y
      /\ e \in Seq(Nat) /\ Len(e) = 3 /\ e[1] = x /\ e[2] = y /\ e[3] = z
  OBVIOUS
<1>3. Append(<< >>, x) = <<x>>
  OBVIOUS
<1>4. Append(b, y) = a
  <2>1. Len(a) = Len(b) + 1 /\ (\A k \in 1..Len(b) : a[k] = b[k]) /\ a[Len(b) + 1] = y
    BY <1>2
  <2> QED BY <1>1, <1>2, <2>1
<1>5. Append(a, z) = e
  <2>1. Len(e) = Len(a) + 1 /\ (\A k \in 1..Len(a) : e[k] = a[k]) /\ e[Len(a) + 1] = z
    BY <1>2
  <2> QED BY <1>1, <1>2, <2>1
<1> QED BY <1>3, <1>4, <1>5

\* Bytes that are appended to the shared file.
LEMMA HoldsMore ==
    ASSUME NEW b, NEW m \in Int, NEW n \in Int, NEW w, NEW v
    PROVE  /\ Holds(b, 15, m, w) /\ v => Holds(Append(b, 1), 16, m, v)
           /\ Holds(b, 16, m, w) => Holds(Append(b, 1), 17, m, v)
           /\ Holds(b, n, 2, w) /\ n # 16 => Holds(Append(b, 2), n, 3, v)
<1>1. /\ Append(<< >>, 1) = <<1>> /\ Append(<<2>>, 1) = <<2, 1>>
      /\ Append(<<1>>, 1) = <<1, 1>> /\ Append(<<2, 1>>, 1) = <<2, 1, 1>>
      /\ Append(<< >>, 2) = <<2>> /\ Append(<<1, 1>>, 2) = <<1, 1, 2>>
  BY AppendedBytes
<1>2. /\ << >> # <<2>> /\ <<2>> # <<1>> /\ <<2>> # <<1, 1>> /\ <<1>> # <<2, 1>>
      /\ <<2, 1>> # << >> /\ <<2, 1>> # <<1, 1>> /\ <<1>> # << >> /\ <<1, 1>> # << >>
      /\ <<2, 1, 1>> # << >> /\ <<2, 1, 1>> # <<1>> /\ <<2, 1, 1>> # <<1, 1>>
      /\ <<1, 1, 2>> # << >> /\ <<1, 1, 2>> # <<1>> /\ <<1, 1, 2>> # <<1, 1>>
      /\ <<1>> # <<1, 1>> /\ <<2>> # <<2, 1>>
  OBVIOUS
<1>3. ASSUME Holds(b, 15, m, w), v PROVE Holds(Append(b, 1), 16, m, v)
  <2>1. b \in {<< >>, <<2>>} /\ (m < 3 => b = << >>)
    BY <1>2, <1>3 DEF Holds
  <2>2. Append(b, 1) \in {<<1>>, <<2, 1>>} /\ (m < 3 => Append(b, 1) = <<1>>)
    BY <1>1, <2>1
  <2> QED BY <1>3, <2>2 DEF Holds
<1>4. ASSUME Holds(b, 16, m, w) PROVE Holds(Append(b, 1), 17, m, v)
  <2>1. b \in {<<1>>, <<2, 1>>} /\ (m < 3 => b = <<1>>)
    BY <1>2, <1>4 DEF Holds
  <2>2. Append(b, 1) \in {<<1, 1>>, <<2, 1, 1>>} /\ (m < 3 => Append(b, 1) = <<1, 1>>)
    BY <1>1, <2>1
  <2> QED BY <2>2 DEF Holds
<1>5. ASSUME Holds(b, n, 2, w), n # 16 PROVE Holds(Append(b, 2), n, 3, v)
  <2>1. (n < 16 => b = << >>) /\ (n > 16 => b = <<1, 1>>)
    BY <1>2, <1>5 DEF Holds
  <2>2. (n < 16 => Append(b, 2) = <<2>>) /\ (n > 16 => Append(b, 2) = <<1, 1, 2>>)
    BY <1>1, <2>1
  <2> QED BY <1>5, <2>2 DEF Holds
<1> QED BY <1>3, <1>4, <1>5

\* A write of one byte in the shared file: it is appended unless the file is
\* full, and the lock stays.
LEMMA SharedWrite ==
    ASSUME NEW e \in Sessions, ControlInv, SlotAt(e), NameAt(e), ServerActs(e), Executes(e),
           stage[e] = "work", app[e].kind = "test", task[e].shared \in Strings,
           Opened(task[e], at[e] - 1) = SharedOpen(task[e]), NEW x \in Nat,
           NextCall(e) = write_(fd[e], <<x>>), NEW i, i = dir[Resolved(root[e], task[e].shared)]
    PROVE  /\ i \in Inodes /\ root[e] \in Dirs /\ dir' = dir /\ root' = root
           /\ Current(e) = fd[e] /\ IsFile(e, fd[e]) /\ fdt[e][fd[e]].ino = i /\ fd[e] \in Fds
           /\ Failed(e) => content' = content /\ Len(content[i]) >= MaxOffset
           /\ ~Failed(e) =>
                  content' = [content EXCEPT ![i] = Append(@, x)] /\ Len(content[i]) < MaxOffset
           /\ HasLock(e)' <=> HasLock(e)
           /\ Taken(e) = at[e] - 1 /\ Taken(e)' = (IF Failed(e) THEN at[e] - 1 ELSE at[e])
           /\ stage'[e] = "work" /\ (Refused(e)' <=> Failed(e)) /\ ~Refused(e) /\ SameApps
<1> PICK r, o, g : r = waiting[e] /\ o = SharedOpen(task[e]) /\ g = fd[e]
  OBVIOUS
<1>1. /\ r = NextCall(e) /\ CarriedOut(e, r) /\ Arg(e) = r /\ Taken(e) = at[e] - 1 /\ Current(e) = g
      /\ root' = root /\ root[e] \in Dirs /\ job[e].phase \in {"pending", "locking"} /\ ~Refused(e)
  BY BeforeCall, ExecutesCases
<1>2. SameApps /\ KernelTypeOK /\ stage'[e] = "work"
  BY AppsKept DEF ControlInv, VariablesOK, SameApps
<1>3. r = write_(g, <<x>>) /\ r.code = "REQUEST_WRITE" /\ r.fd = g /\ r.data = <<x>>
  BY <1>1 DEF write_
<1>4. /\ g \in Fds /\ IsFile(e, g) /\ fdt[e][g].ino = i /\ i \in Inodes
      /\ fdt[e][g].append /\ "WR" \in fdt[e][g].rights
  <2>1. o # NoCall /\ o.path = task[e].shared /\ o.oflag = {"WR", "CREAT", "APPEND"}
    BY OpensAreCalls DEF SharedOpen, open_
  <2>2. /\ g \in Fds /\ IsFile(e, g) /\ fdt[e][g].ino \in Inodes
        /\ fdt[e][g].ino = dir[Resolved(root[e], o.path)]
        /\ fdt[e][g].append = ("APPEND" \in o.oflag)
        /\ fdt[e][g].rights = o.oflag \cap {"RD", "WR"}
    BY <2>1, TestFile
  <2> QED BY <2>1, <2>2
<1>5. Fit(e, {"WR"})
  BY <1>1, <1>3, <1>4 DEF Fit
<1>6. /\ Failed(e) \/ FlockWaits(e, r) => Taken(e)' = at[e] - 1
      /\ ~Failed(e) /\ ~FlockWaits(e, r) => Taken(e)' = at[e]
      /\ Refused(e)' <=> Failed(e)
      /\ Current(e)' = g
  BY <1>3, AfterCall
<1>7. ~FlockWaits(e, r)
  BY <1>3 DEF FlockWaits
<1>8. ASSUME ~Failed(e)
      PROVE  /\ content' = [content EXCEPT ![i] = Append(@, x)] /\ Len(content[i]) < MaxOffset
             /\ dir' = dir /\ (HasLock(e)' <=> HasLock(e))
  <2>1. WriteDone(e, r)
    BY <1>1, <1>3, <1>8 DEF CarriedOut, OpenDone, CloseDone, ReadDone, LseekDone, FstatDone,
                            UnlinkDone, FlockDone, FlockWaits
  <2>2. SysWrite(e, g, <<x>>) /\ WriteCount(e, g, <<x>>) > 0
    <3>1. <<x>> # << >>
      OBVIOUS
    <3> PICK data : data = <<x>>
      OBVIOUS
    <3>2. r.fd = g /\ r.data = data /\ data # << >>
      BY <1>3, <3>1
    <3>3. SysWrite(e, g, data) /\ WriteCount(e, g, data) > 0
      BY <2>1, <3>2 DEF WriteDone
    <3> QED BY <3>3
  <2> PICK j : j = fdt[e][g].ino
    OBVIOUS
  <2>3. /\ WriteCount(e, g, <<x>>) \in 0..1
        /\ WriteCount(e, g, <<x>>) = 0 <=> Len(content[fdt[e][g].ino]) >= MaxOffset
        /\ WriteCount(e, g, <<x>>) = 1 =>
               /\ content' = [content EXCEPT ![fdt[e][g].ino] = Append(@, x)]
               /\ \E n : fdt' = [fdt EXCEPT ![e][g].pos = n]
    <3>1. fdt[e][g].ino \in Inodes
      BY <1>4
    <3>2. SysWrite(e, g, <<x>>) /\ fdt[e][g].append /\ KernelTypeOK /\ g \in Fds
      BY <1>2, <1>4, <2>2
    <3>3. LET q == fdt[e][g].ino
          IN  /\ WriteCount(e, g, <<x>>) \in 0..1
              /\ WriteCount(e, g, <<x>>) = 0 <=> Len(content[q]) >= MaxOffset
              /\ WriteCount(e, g, <<x>>) = 1 =>
                     /\ content' = [content EXCEPT ![q] = Append(@, x)]
                     /\ \E n : fdt' = [fdt EXCEPT ![e][g].pos = n]
      BY ONLY <3>1, <3>2, ByteWritten
    <3> QED BY <3>3, Zenon
  <2>4. WriteCount(e, g, <<x>>) = 1 /\ j = i
    BY <1>4, <2>2, <2>3
  <2>8. /\ content' = [content EXCEPT ![j] = Append(@, x)] /\ ~(Len(content[j]) >= MaxOffset)
        /\ \E n : fdt' = [fdt EXCEPT ![e][g].pos = n]
    <3>1. WriteCount(e, g, <<x>>) # 0
      BY <2>4
    <3> QED BY <2>3, <2>4, <3>1, Zenon
  <2>9. Len(content[i]) \in Int /\ MaxOffset \in Int
    BY <1>2, <1>4, KernelAssumption DEF KernelTypeOK
  <2>5. fdt'[e][g].lock = fdt[e][g].lock
    <3> PICK n : fdt' = [fdt EXCEPT ![e][g].pos = n]
      BY <2>8
    <3> QED BY <1>2, <1>4, PositionSet
  <2>6. HasLock(e)' <=> HasLock(e)
    BY <1>1, <1>6, <2>5 DEF HasLock
  <2>7. dir' = dir
    BY <2>2 DEF SysWrite
  <2> QED BY <2>4, <2>6, <2>7, <2>8, <2>9
<1>9. ASSUME Failed(e)
      PROVE  /\ content' = content /\ Len(content[i]) >= MaxOffset /\ dir' = dir
             /\ HasLock(e)' <=> HasLock(e)
  <2>1. UNCHANGED kernelVars /\ job'[e].value = -1
    BY <1>9 DEF Failed, Done
  <2>2. job[e].phase = "pending" /\ job[e].request.code = "REQUEST_WRITE"
    <3>1. job[e].phase # "locking"
      <4>1. session[e] = "on"
        BY ExecutesCases
      <4> QED BY <1>3, <4>1, LockingFacts
    <3> QED BY <1>1, <1>3, <3>1 DEF Arg
  <2>3. Write(e)
    BY <2>2 DEF Executes, Open, Close, Read, Lseek, Fstat, Unlink, Flock, FlockEnds, Pending
  <2>4. WriteCount(e, g, <<x>>) = 0
    <3> PICK n : n = WriteCount(e, g, <<x>>)
      OBVIOUS
    <3>1. <<x>> # << >>
      OBVIOUS
    <3>2. n = 0 \/ (n > 0 /\ Answers(e, n, "0", << >>))
      BY <1>1, <1>3, <1>5, <2>3, <3>1 DEF Write
    <3>3. Answers(e, n, "0", << >>) => job'[e].value = n
      BY DEF Answers, Done, ControlInv, VariablesOK, RemoteOK, OfClients
    <3> QED BY <2>1, <3>2, <3>3
  <2>5. Len(content[i]) >= MaxOffset
    <3>1. Len(content[i]) \in Nat /\ MaxOffset \in Nat /\ WritePos(e, g) = Len(content[i])
      BY <1>2, <1>4, KernelAssumption DEF KernelTypeOK, WritePos
    <3> PICK l : l = Len(content[i])
      OBVIOUS
    <3>2. l >= MaxOffset \/ Minimum(1, MaxOffset - l) = 0
      BY <2>4, <3>1 DEF WriteCount
    <3> QED BY <3>1, <3>2 DEF Minimum
  <2>6. HasLock(e)' <=> HasLock(e)
    BY <1>1, <1>6, <2>1 DEF HasLock, kernelVars
  <2> QED BY <2>1, <2>5, <2>6 DEF kernelVars
<1> QED BY <1>1, <1>2, <1>4, <1>6, <1>7, <1>8, <1>9

\* The files of that name in other directories.
LEMMA OtherDirectories ==
    ASSUME NEW c \in Sessions, NEW d \in Sessions, NEW s \in Strings, NEW D \in Dirs, NEW F \in Dirs,
           D # F, IsPlain(s), UniqueNames, KernelTypeOK, SharedAt(c, d, D, s), dir' = dir,
           Named(F, s), NEW b, content' = [content EXCEPT ![dir[Resolved(F, s)]] = b],
           StepsIn(c, D)' = StepsIn(c, D), StepsIn(d, D)' = StepsIn(d, D),
           StepsIn(c, D) \in Int, StepsIn(d, D) \in Int,
           StepsIn(c, D) # 16 \/ (Writing(c)' <=> Writing(c))
    PROVE  SharedAt(c, d, D, s)'
<1> SUFFICES ASSUME Named(D, s)' PROVE Holds(In(D, s), StepsIn(c, D), StepsIn(d, D), Writing(c))'
  BY DEF SharedAt
<1> PICK p, q, n, m, w, v, a :
        /\ p = Resolved(D, s) /\ q = Resolved(F, s) /\ n = StepsIn(c, D) /\ m = StepsIn(d, D)
        /\ w = Writing(c) /\ v = Writing(c)' /\ a = In(D, s)
  OBVIOUS
<1>1. p \in Paths /\ q \in Paths /\ p # q /\ dir[p] # NoInode
  BY NamesArePaths DEF IsPlain, Named
<1>2. dir[p] # dir[q] /\ dir[p] \in Inodes
  BY <1>1 DEF UniqueNames, KernelTypeOK
<1>3. In(D, s)' = a
  BY <1>2 DEF In, KernelTypeOK
<1>4. Holds(a, n, m, w)
  BY <1>1 DEF SharedAt, Named
<1>5. Holds(a, n, m, v)
  BY <1>4 DEF Holds
<1> QED BY <1>3, <1>5, Zenon DEF Holds

\* Client 1 writes in the shared file, or finds it full at its second byte.
LEMMA Client1Writes ==
    ASSUME NEW c \in Sessions, NEW d \in Sessions, NEW t \in app[c].tasks, NEW u \in app[d].tasks,
           IsTest(app, c, d, t, u), ControlInv, SlotsInv, UniqueNames, TestInv,
           ServerActs(c), Executes(c), stage[c] = "work",
           at[c] \in {16, 17}, ~(at[c] = 16 /\ Failed(c)), SameClient(d)
    PROVE  PairAt(c, d, t.shared)'
<1> PICK s, D0 : s = t.shared /\ D0 = root[c]
  OBVIOUS
<1>1. /\ app[c].kind = "test" /\ PairAt(c, d, s) /\ task[c] = t /\ Steps(c) = Taken(c)
      /\ D0 \in Dirs /\ t.kind = "client1" /\ s \in Strings /\ IsPlain(s)
  BY TestFacts DEF IsTest
<1>2. SlotAt(c) /\ NameAt(c) /\ left[c] = 0 /\ KernelTypeOK
  BY <1>1 DEF SlotsInv, TestInv, TaskAt, ControlInv, VariablesOK
<1>3. Opened(t, at[c] - 1) = SharedOpen(t) /\ NextCall(c) = write_(fd[c], <<1>>)
  <2>1. at[c] - 1 \in 14..18
    OBVIOUS
  <2>2. Opened(t, at[c] - 1) = SharedOpen(t)
    BY <1>1, <2>1, TestOpened
  <2> QED BY <1>1, <2>2, Client1Calls DEF NextCall
<1> PICK i : i = dir[Resolved(D0, s)]
  OBVIOUS
<1>4. /\ i \in Inodes /\ dir' = dir /\ root' = root
      /\ Failed(c) => content' = content /\ Len(content[i]) >= MaxOffset
      /\ ~Failed(c) => content' = [content EXCEPT ![i] = Append(@, 1)] /\ Len(content[i]) < MaxOffset
      /\ HasLock(c)' <=> HasLock(c)
      /\ Taken(c) = at[c] - 1 /\ Taken(c)' = (IF Failed(c) THEN at[c] - 1 ELSE at[c])
      /\ stage'[c] = "work" /\ (Refused(c)' <=> Failed(c)) /\ ~Refused(c) /\ SameApps
  <2>1. 1 \in Nat
    OBVIOUS
  <2> QED BY <1>1, <1>2, <1>3, <2>1, SharedWrite
<1>5. Steps(c)' = Taken(c)' /\ (Writing(c)' <=> ~Failed(c)) /\ Writing(c)
  BY <1>2, <1>4 DEF Steps, Writing, SameApps
<1>6. /\ Steps(d)' = Steps(d) /\ stage'[d] = stage[d] /\ (HasLock(d)' <=> HasLock(d))
      /\ Steps(d) \in Int
  BY StepsKept, StepsType DEF ControlInv, VariablesOK, ClientAt
<1>7. i # NoInode /\ Named(D0, s) /\ Named(D0, s)'
  BY <1>4, KernelAssumption DEF Named, NoInode
<1>8. ASSUME NEW D \in Dirs PROVE SharedAt(c, d, D, s)'
  <2>1. SharedAt(c, d, D, s)
    BY <1>1 DEF PairAt
  <2>2. StepsIn(d, D)' = StepsIn(d, D) /\ StepsIn(d, D) \in Int
    BY <1>4, <1>6 DEF StepsIn
  <2>3. CASE D = D0
    <3> PICK b, m, v : b = content[i] /\ m = StepsIn(d, D) /\ v = Writing(c)'
      OBVIOUS
    <3>1. StepsIn(c, D) = at[c] - 1 /\ StepsIn(c, D)' = Taken(c)' /\ In(D, s)' = content'[i]
          /\ In(D, s) = b
      BY <1>1, <1>4, <1>5, <2>3 DEF StepsIn, In
    <3>2. Holds(b, at[c] - 1, m, Writing(c))
      BY <1>7, <2>1, <2>3, <3>1 DEF SharedAt
    <3>3. CASE Failed(c)
      <4>1. at[c] = 17 /\ content'[i] = b /\ Len(b) >= MaxOffset /\ Taken(c)' = 16
        BY <1>4, <3>3
      <4>2. Holds(b, 16, m, Writing(c))
        BY <3>2, <4>1
      <4>3. Holds(b, 16, m, v)
        BY <4>1, <4>2 DEF Holds
      <4>4. Holds(content'[i], StepsIn(c, D)', m, v)
        BY <3>1, <4>1, <4>3
      <4> QED BY <2>2, <3>1, <4>4, Zenon DEF SharedAt, Holds
    <3>4. CASE ~Failed(c)
      <4>1. content'[i] = Append(b, 1) /\ StepsIn(c, D)' = at[c]
        <5>1. content' = [content EXCEPT ![i] = Append(@, 1)]
          BY <1>4, <3>4
        <5>2. Taken(c)' = at[c]
          BY <1>4, <3>4
        <5> QED BY <1>2, <1>4, <3>1, <5>1, <5>2 DEF KernelTypeOK
      <4>2. Holds(Append(b, 1), at[c], m, v)
        <5>1. CASE at[c] = 16
          <6>1. Holds(b, 15, m, Writing(c))
            BY <3>2, <5>1
          <6>2. v
            <7>1. Writing(c)'
              BY <1>5, <3>4
            <7> QED BY <7>1, Zenon
          <6> QED BY <2>2, <5>1, <6>1, <6>2, HoldsMore
        <5>2. CASE at[c] = 17
          <6>1. Holds(b, 16, m, Writing(c))
            BY <3>2, <5>2
          <6> QED BY <2>2, <5>2, <6>1, HoldsMore
        <5> QED BY <5>1, <5>2
      <4>3. Holds(content'[i], StepsIn(c, D)', m, v)
        BY <4>1, <4>2
      <4> QED BY <2>2, <3>1, <4>3, Zenon DEF SharedAt, Holds
    <3> QED BY <3>3, <3>4
  <2>4. CASE D # D0
    <3>1. StepsIn(c, D) = 0 /\ StepsIn(c, D)' = 0
      BY <1>4, <2>4 DEF StepsIn
    <3>2. \E b : content' = [content EXCEPT ![dir[Resolved(D0, s)]] = b]
      <4>1. content = [content EXCEPT ![i] = content[i]]
        BY <1>2, <1>4 DEF KernelTypeOK
      <4> QED BY <1>4, <4>1
    <3> PICK b : content' = [content EXCEPT ![dir[Resolved(D0, s)]] = b]
      BY <3>2
    <3>3. StepsIn(c, D)' = StepsIn(c, D) /\ StepsIn(c, D) \in Int /\ StepsIn(c, D) # 16
      BY <3>1
    <3> QED BY <1>1, <1>2, <1>4, <1>7, <2>1, <2>2, <2>4, <3>3, OtherDirectories
  <2> QED BY <2>3, <2>4
<1>9. Steps(c)' \in {at[c] - 1, at[c]} /\ Steps(c) = at[c] - 1
  BY <1>1, <1>4, <1>5
<1>10. HasLock(c)' \/ Steps(c)' \notin 15..16
  <2>1. HasLock(c)
    BY <1>1, <1>9 DEF PairAt
  <2> QED BY <1>4, <2>1
<1>11. Named(root[c], s)'
  BY <1>4, <1>7 DEF Named
<1>12. stage'[d] = "work" /\ Steps(d)' = 2 => HasLock(d)'
  BY <1>1, <1>6 DEF PairAt
<1> QED BY <1>8, <1>10, <1>11, <1>12 DEF PairAt

\* Client 2 writes in it: client 1 cannot be between its two bytes, because it
\* has the lock then, unless its write has failed for want of room.
LEMMA Client2Writes ==
    ASSUME NEW c \in Sessions, NEW d \in Sessions, NEW t \in app[c].tasks, NEW u \in app[d].tasks,
           IsTest(app, c, d, t, u), ControlInv, SlotsInv, LocksInv, UniqueNames, TestInv,
           ServerActs(d), Executes(d), stage[d] = "work",
           at[d] = 3, ~Failed(d), SameClient(c)
    PROVE  PairAt(c, d, t.shared)'
<1> PICK s, D0 : s = t.shared /\ D0 = root[d]
  OBVIOUS
<1>1. /\ app[c].kind = "test" /\ app[d].kind = "test" /\ PairAt(c, d, s) /\ c # d
      /\ task[d] = u /\ Steps(d) = Taken(d)
      /\ D0 \in Dirs /\ u.kind = "client2" /\ s \in Strings /\ u.shared = s /\ IsPlain(s)
      /\ stage[c] = "work" => task[c] = t /\ Steps(c) = Taken(c)
      /\ t.kind = "client1"
  BY TestFacts DEF IsTest
<1>2. SlotAt(d) /\ NameAt(d) /\ SlotAt(c) /\ NameAt(c) /\ left[d] = 0 /\ KernelTypeOK
  BY <1>1 DEF SlotsInv, TestInv, TaskAt, ControlInv, VariablesOK
<1>3. Opened(u, at[d] - 1) = SharedOpen(u) /\ NextCall(d) = write_(fd[d], <<2>>)
  <2>1. at[d] - 1 \in 1..4
    OBVIOUS
  <2>2. Opened(u, at[d] - 1) = SharedOpen(u)
    BY <1>1, <2>1, TestOpened
  <2> QED BY <1>1, <2>2, Client2Calls DEF NextCall
<1> PICK i : i = dir[Resolved(D0, s)]
  OBVIOUS
<1>4. /\ i \in Inodes /\ dir' = dir /\ root' = root
      /\ Current(d) = fd[d] /\ IsFile(d, fd[d]) /\ fdt[d][fd[d]].ino = i /\ fd[d] \in Fds
      /\ content' = [content EXCEPT ![i] = Append(@, 2)] /\ Len(content[i]) < MaxOffset
      /\ Taken(d) = 2 /\ Taken(d)' = 3 /\ stage'[d] = "work" /\ SameApps
  <2>1. 2 \in Nat
    OBVIOUS
  <2> QED BY <1>1, <1>2, <1>3, <2>1, SharedWrite
<1>5. Steps(d)' = 3 /\ Steps(d) = 2 /\ HasLock(d)
  BY <1>1, <1>2, <1>4 DEF Steps, SameApps, PairAt
<1>6. /\ Steps(c)' = Steps(c) /\ stage'[c] = stage[c] /\ (HasLock(c)' <=> HasLock(c))
      /\ (Writing(c)' <=> Writing(c)) /\ Steps(c) \in Int
  BY StepsKept, StepsType DEF ControlInv, VariablesOK, ClientAt
<1>7. i # NoInode /\ Named(D0, s) /\ Named(D0, s)'
  BY <1>4, KernelAssumption DEF Named, NoInode
<1>8. Len(content[i]) \in Int /\ MaxOffset \in Int
  BY <1>2, <1>4, KernelAssumption DEF KernelTypeOK
<1>9. ~(root[c] = D0 /\ Steps(c) = 16)
  <2> SUFFICES ASSUME root[c] = D0, Steps(c) = 16 PROVE FALSE
    OBVIOUS
  <2>1. CASE Writing(c)
    <3>1. stage[c] = "work" /\ Taken(c) = 16 /\ task[c] = t /\ HasLock(c)
      BY <1>1, <2>1 DEF Writing, PairAt
    <3> PICK g, o, h : g = Current(c) /\ o = SharedOpen(t) /\ h = fd[d]
      OBVIOUS
    <3>2. Opened(t, 16) = o /\ o # NoCall /\ o.path = s
      <4>1. 16 \in 14..18
        OBVIOUS
      <4>2. o.path = t.shared
        BY DEF SharedOpen, open_
      <4> QED BY <1>1, <4>1, <4>2, TestOpened
    <3>3. g \in Fds /\ IsFile(c, g)
      BY <1>2, <3>1, <3>2 DEF SlotAt, OpenAs
    <3>4. fdt[c][g].ino = i
      BY <1>1, <1>2, <2>1, <3>1, <3>2 DEF NameAt
    <3>5. fdt[c][g].lock = "EX" /\ fdt[d][h].lock = "EX"
      BY <1>4, <1>5, <3>1 DEF HasLock
    <3>6. <<c, g>> # <<d, h>>
      BY <1>1
    <3> QED BY <1>4, <3>3, <3>4, <3>5, <3>6 DEF LocksInv
  <2>2. CASE ~Writing(c)
    <3>1. SharedAt(c, d, D0, s) /\ StepsIn(c, D0) = 16 /\ In(D0, s) = content[i]
      BY <1>1 DEF PairAt, StepsIn, In
    <3>2. Len(content[i]) >= MaxOffset
      BY <1>7, <2>2, <3>1 DEF SharedAt, Holds
    <3> QED BY <1>4, <1>8, <3>2
  <2> QED BY <2>1, <2>2
<1>10. ASSUME NEW D \in Dirs PROVE SharedAt(c, d, D, s)'
  <2>1. SharedAt(c, d, D, s)
    BY <1>1 DEF PairAt
  <2>2. StepsIn(c, D)' = StepsIn(c, D) /\ StepsIn(c, D) \in Int
    BY <1>4, <1>6 DEF StepsIn
  <2>3. CASE D = D0
    <3> PICK b, n : b = content[i] /\ n = StepsIn(c, D)
      OBVIOUS
    <3>1. StepsIn(d, D) = 2 /\ StepsIn(d, D)' = 3 /\ In(D, s)' = Append(b, 2) /\ In(D, s) = b
      BY <1>2, <1>4, <1>5, <2>3 DEF StepsIn, In, KernelTypeOK
    <3>2. Holds(b, n, 2, Writing(c))
      BY <1>7, <2>1, <2>3, <3>1 DEF SharedAt
    <3>3. n # 16
      BY <1>9, <2>3 DEF StepsIn
    <3>4. Holds(Append(b, 2), n, 3, Writing(c)')
      BY <2>2, <3>2, <3>3, HoldsMore
    <3> QED BY <2>2, <3>1, <3>4, Zenon DEF SharedAt, Holds
  <2>4. CASE D # D0
    <3>1. StepsIn(d, D) = 0 /\ StepsIn(d, D)' = 0
      BY <1>4, <2>4 DEF StepsIn
    <3>2. \E b : content' = [content EXCEPT ![dir[Resolved(D0, s)]] = b]
      BY <1>4
    <3> PICK b : content' = [content EXCEPT ![dir[Resolved(D0, s)]] = b]
      BY <3>2
    <3>3. StepsIn(d, D)' = StepsIn(d, D) /\ StepsIn(d, D) \in Int
      BY <3>1
    <3> QED BY <1>1, <1>2, <1>4, <1>6, <1>7, <2>1, <2>2, <2>4, <3>3, OtherDirectories
  <2> QED BY <2>3, <2>4
<1>11. Steps(c)' >= 14 => Named(root[c], s)'
  BY <1>1, <1>4, <1>6 DEF Named, PairAt
<1>12. stage'[c] = "work" /\ Steps(c)' \in 15..16 => HasLock(c)'
  BY <1>1, <1>6 DEF PairAt
<1>13. ~(Steps(d)' = 2)
  BY <1>5
<1> QED BY <1>10, <1>11, <1>12, <1>13 DEF PairAt

\* A step that comes to no write of the test.
LEMMA QuietCalm ==
    ASSUME NEW c \in Sessions, NEW d \in Sessions, NEW t \in app[c].tasks, NEW u \in app[d].tasks,
           IsTest(app, c, d, t, u), ControlInv, SlotsInv, TestInv
    PROVE  /\ ServerActs(c) /\ ~(Executes(c) /\ stage[c] = "work") => Calm1(c, t.shared)
           /\ ServerActs(d) /\ ~(Executes(d) /\ stage[d] = "work") => Calm2(d)
<1> PICK s : s = t.shared
  OBVIOUS
<1>1. /\ PairAt(c, d, s) /\ t.kind = "client1" /\ u.kind = "client2"
      /\ stage[c] = "work" => task[c] = t /\ Steps(c) = Taken(c)
      /\ stage[d] = "work" => task[d] = u /\ Steps(d) = Taken(d)
  BY TestFacts DEF IsTest
<1>2. TaskAt(c) /\ TaskAt(d) /\ ByteAt(c) /\ ByteAt(d) /\ SlotAt(c) /\ SlotAt(d)
  BY DEF TestInv, SlotsInv
<1>3. Steps(c) \in Int /\ Steps(d) \in Int
  BY StepsType DEF ControlInv, VariablesOK, ClientAt
<1>4. ASSUME ServerActs(c), ~(Executes(c) /\ stage[c] = "work") PROVE Calm1(c, s)
  <2>1. /\ Steps(c)' = Steps(c) /\ (Writing(c)' <=> Writing(c)) /\ root' = root
        /\ stage'[c] = "work" => stage[c] = "work"
        /\ stage[c] = "work" /\ Opened(task[c], Taken(c)) # NoCall => (HasLock(c)' <=> HasLock(c))
    BY <1>2, <1>4, QuietSteps
  <2>2. stage'[c] = "work" /\ Steps(c)' \in 15..16 => HasLock(c)'
    <3> SUFFICES ASSUME stage'[c] = "work", Steps(c)' \in 15..16 PROVE HasLock(c)'
      OBVIOUS
    <3>1. stage[c] = "work" /\ task[c] = t /\ Steps(c) \in 15..16 /\ Taken(c) \in 14..18
      BY <1>1, <2>1
    <3>2. Opened(task[c], Taken(c)) # NoCall
      BY <1>1, <3>1, TestOpened
    <3> QED BY <1>1, <2>1, <3>1, <3>2 DEF PairAt
  <2> QED BY <1>3, <2>1, <2>2 DEF Calm1
<1>5. ASSUME ServerActs(d), ~(Executes(d) /\ stage[d] = "work") PROVE Calm2(d)
  <2>1. /\ Steps(d)' = Steps(d) /\ root' = root
        /\ stage'[d] = "work" => stage[d] = "work"
        /\ stage[d] = "work" /\ Opened(task[d], Taken(d)) # NoCall => (HasLock(d)' <=> HasLock(d))
    BY <1>2, <1>5, QuietSteps
  <2>2. stage'[d] = "work" /\ Steps(d)' = 2 => HasLock(d)'
    <3> SUFFICES ASSUME stage'[d] = "work", Steps(d)' = 2 PROVE HasLock(d)'
      OBVIOUS
    <3>1. stage[d] = "work" /\ task[d] = u /\ Steps(d) = 2 /\ Taken(d) \in 1..4
      BY <1>1, <2>1
    <3>2. Opened(task[d], Taken(d)) # NoCall
      BY <1>1, <3>1, TestOpened
    <3> QED BY <1>1, <2>1, <3>1, <3>2 DEF PairAt
  <2> QED BY <1>3, <2>1, <2>2 DEF Calm2
<1> QED BY <1>4, <1>5

\* A client that is so far has logged in.
LEMMA FarIn ==
    ASSUME NEW c \in Sessions, ControlInv, TestInv
    PROVE  Steps(c) >= 14 => root[c] \in Dirs
<1>1. ClientAt(c) /\ ProgramsOK /\ TaskAt(c) /\ RemoteOK
  BY DEF ControlInv, VariablesOK, TestInv
<1>2. CASE session[c] = "none"
  <2>1. stage[c] # "work" /\ at[c] = 1
    BY <1>1, <1>2 DEF ClientAt, StageAt, TaskAt
  <2>2. Steps(c) \in 0..1
    BY <2>1 DEF Steps, Taken
  <2> QED BY <2>2
<1>3. CASE session[c] # "none"
  BY <1>1, <1>3 DEF ClientAt, StageAt
<1> QED BY <1>2, <1>3

\* What the two clients of the test share, after any step.
LEMMA PairNext ==
    ASSUME NEW e \in Sessions, ControlInv, SlotsInv, LocksInv, UniqueNames, TestInv,
           ApplicationActs(e) \/ ServerActs(e),
           NEW c \in Sessions, NEW d \in Sessions, NEW t \in app[c].tasks, NEW u \in app[d].tasks,
           IsTest(app, c, d, t, u)
    PROVE  PairAt(c, d, t.shared)'
<1> PICK s : s = t.shared
  OBVIOUS
<1>1. ControlInv' /\ \A f \in Sessions \ {e} : SameClient(f)
  BY NextControl DEF StepOK
<1>2. /\ PairAt(c, d, s) /\ s \in Strings /\ c # d
      /\ \A f \in Sessions \ {c, d} : stage[f] # "work"
  BY TestFacts
<1>3. Steps(c) >= 14 => root[c] \in Dirs
  BY FarIn
<1>4. ASSUME KeepsShared(s), Calm1(c, s), Calm2(d) PROVE PairAt(c, d, s)'
  BY <1>1, <1>2, <1>3, <1>4, PairKept
<1>5. (SameClient(c) => Calm1(c, s)) /\ (SameClient(d) => Calm2(d))
  BY <1>2, OthersCalm
<1>6. dir' = dir /\ content' = content => KeepsShared(s)
  BY DEF KeepsShared, In, Named
<1>7. CASE ApplicationActs(e)
  <2>1. KeepsShared(s)
    BY <1>6, <1>7, ActsKeepFiles
  <2>2. Calm1(c, s)
    BY <1>1, <1>5, <1>7, ProgramCalm
  <2>3. Calm2(d)
    BY <1>1, <1>5, <1>7, ProgramCalm
  <2> QED BY <1>4, <2>1, <2>2, <2>3
<1>8. CASE ServerActs(e) /\ ~(Executes(e) /\ stage[e] = "work")
  <2>1. KeepsShared(s)
    <3>1. SlotAt(e) /\ TaskAt(e) /\ ByteAt(e)
      BY DEF SlotsInv, TestInv
    <3> QED BY <1>6, <1>8, <3>1, QuietSteps
  <2>2. Calm1(c, s)
    BY <1>1, <1>5, <1>8, QuietCalm
  <2>3. Calm2(d)
    BY <1>1, <1>5, <1>8, QuietCalm
  <2> QED BY <1>4, <2>1, <2>2, <2>3
<1>9. CASE ServerActs(e) /\ Executes(e) /\ stage[e] = "work"
  <2>1. CASE e = c
    <3>1. SameClient(d)
      BY <1>1, <1>2, <2>1
    <3>2. CASE at[c] \in {16, 17} /\ ~(at[c] = 16 /\ Failed(c))
      BY <1>9, <2>1, <3>1, <3>2, Client1Writes
    <3>3. CASE at[c] \notin {16, 17} \/ (at[c] = 16 /\ Failed(c))
      <4>1. KeepsShared(s) /\ Calm1(c, s)
        BY <1>9, <2>1, <3>3, Client1Calm
      <4> QED BY <1>4, <1>5, <3>1, <4>1
    <3> QED BY <3>2, <3>3
  <2>2. CASE e = d
    <3>1. SameClient(c)
      BY <1>1, <1>2, <2>2
    <3>2. CASE at[d] = 3 /\ ~Failed(d)
      BY <1>9, <2>2, <3>1, <3>2, Client2Writes
    <3>3. CASE at[d] # 3 \/ Failed(d)
      <4>1. KeepsShared(s) /\ Calm2(d)
        BY <1>9, <2>2, <3>3, Client2Calm
      <4> QED BY <1>4, <1>5, <3>1, <4>1
    <3> QED BY <3>2, <3>3
  <2> QED BY <1>2, <1>9, <2>1, <2>2
<1> QED BY <1>7, <1>8, <1>9

\* Every step keeps the invariant of the acceptance test.
LEMMA NextTest ==
    ASSUME NEW e \in Sessions, ControlInv, SlotsInv, LocksInv, UniqueNames, TestInv,
           ApplicationActs(e) \/ ServerActs(e)
    PROVE  TestInv'
<1>1. app' = app /\ \A f \in Sessions \ {e} : SameClient(f)
  <2>1. ApplicationActs(e) => app' = app
    BY DEF ApplicationActs, connects, begins, calls, returns, exits, closed, ends, appVars
  <2>2. ServerActs(e) => app' = app
    BY DEF ServerActs
  <2> QED BY <2>1, <2>2, NextControl DEF StepOK
<1>2. TaskAt(e)' /\ ByteAt(e)'
  <2>1. TaskAt(e) /\ ByteAt(e) /\ SlotAt(e)
    BY DEF TestInv, SlotsInv
  <2> QED BY <2>1, TaskActs, QuietSteps, ExecutesByte
<1>3. \A f \in Sessions : TaskAt(f)' /\ ByteAt(f)'
  <2>1. \A f \in Sessions \ {e} : (TaskAt(f)' <=> TaskAt(f)) /\ (ByteAt(f)' <=> ByteAt(f))
    BY <1>1, StepsKept
  <2> QED BY <1>2, <2>1 DEF TestInv
<1>4. ASSUME NEW c \in Sessions, NEW d \in Sessions, NEW t \in app'[c].tasks, NEW u \in app'[d].tasks,
             IsTest(app', c, d, t, u)
      PROVE  PairAt(c, d, t.shared)'
  <2>1. t \in app[c].tasks /\ u \in app[d].tasks /\ IsTest(app, c, d, t, u)
    BY <1>1, <1>4
  <2> QED BY <2>1, PairNext
<1> QED BY <1>3, <1>4 DEF TestInv

\* At the start, no file has bytes and nobody is at work.
LEMMA InitTogether ==
    ASSUME ApplicationsInit
    PROVE  LocksTogether
<1>1. ControlInv
  BY InitControl
<1>2. /\ \A c \in Sessions : stage[c] = "connect" /\ at[c] = 1 /\ result[c] = 0 /\ task[c] = NoTask
                             /\ job[c] = Idle
      /\ dir = InitialDir /\ content = [i \in Inodes |-> << >>]
      /\ fdt = [c \in Sessions |-> NoTable]
  BY DEF ApplicationsInit, RemoteInit, KernelInit
<1>3. SlotsInv
  BY <1>2 DEF SlotsInv, SlotAt, NameAt
<1>4. LocksInv
  BY <1>2 DEF LocksInv, IsFile, NoTable, FreeSlot, EmptySlot
<1>5. UniqueNames
  BY <1>2, NamesAssumption DEF UniqueNames
<1>6. ASSUME NEW c \in Sessions PROVE TaskAt(c) /\ ByteAt(c)
  <2>1. app[c].kind = "test" => left[c] \in 0..1
    BY DEF ApplicationsInit
  <2> QED BY <1>2, <2>1 DEF TaskAt, ByteAt
<1>7. ASSUME NEW c \in Sessions, NEW d \in Sessions, NEW s \in Strings PROVE PairAt(c, d, s)
  <2>1. Steps(c) \in 0..1 /\ Steps(d) \in 0..1
    BY <1>2 DEF Steps, Taken
  <2>2. ASSUME NEW D \in Dirs PROVE SharedAt(c, d, D, s)
    <3>1. StepsIn(c, D) \in 0..1 /\ StepsIn(d, D) \in 0..1
      BY <2>1 DEF StepsIn
    <3>2. Named(D, s) => In(D, s) = << >>
      <4> PICK p : p = Resolved(D, s)
        OBVIOUS
      <4>1. p \in Paths
        BY NamesArePaths
      <4> QED BY <1>2, <4>1, KernelAssumption DEF Named, In
    <3> QED BY <3>1, <3>2 DEF SharedAt, Holds
  <2> QED BY <1>2, <2>1, <2>2 DEF PairAt
<1>8. ASSUME NEW c \in Sessions, NEW d \in Sessions, NEW t \in app[c].tasks, NEW u \in app[d].tasks,
             IsTest(app, c, d, t, u)
      PROVE  PairAt(c, d, t.shared)
  <2>1. t.shared \in Strings
    <3>1. app[c] \in Programs /\ app[c].kind = "test" /\ t.kind = "client1"
      BY <1>1, <1>8, ApplicationsAssumption DEF ControlInv, VariablesOK, ProgramsOK, IsTest
    <3>2. t \in Client1Tasks \cup Client2Tasks
      BY <3>1 DEF Programs
    <3> QED BY <3>2 DEF Client1Tasks, Client2Tasks
  <2> QED BY <1>7, <2>1
<1> QED BY <1>1, <1>3, <1>4, <1>5, <1>6, <1>8 DEF LocksTogether, TestInv

\* Stuttering keeps the invariants of the acceptance test.
LEMMA StutterTogether ==
    ASSUME LocksTogether, UNCHANGED applicationVars
    PROVE  LocksTogether'
<1> USE DEF applicationVars, remoteVars, kernelVars, apiVars, appVars
<1>1. \A c \in Sessions : Taken(c)' = Taken(c) /\ Current(c)' = Current(c) /\ Steps(c)' = Steps(c)
  BY DEF Taken, Current, Steps, Answered
<1>2. ControlInv' /\ SlotsInv'
  BY <1>1, StutterControl DEF LocksTogether, SlotsInv, SlotAt, NameAt, OpenAs, IsFile
<1>3. LocksInv' /\ UniqueNames'
  BY DEF LocksTogether, LocksInv, UniqueNames, IsFile
<1>4. \A c \in Sessions : SameClient(c)
  BY DEF SameClient, SameRemote, SameProgram
<1>5. \A c \in Sessions : TaskAt(c)' /\ ByteAt(c)'
  BY <1>4, StepsKept DEF LocksTogether, TestInv
<1>6. ASSUME NEW c \in Sessions, NEW d \in Sessions, NEW t \in app[c].tasks, NEW u \in app[d].tasks,
             IsTest(app, c, d, t, u)
      PROVE  PairAt(c, d, t.shared)'
  <2> PICK s : s = t.shared
    OBVIOUS
  <2>1. ControlInv /\ TestInv
    BY DEF LocksTogether
  <2>2. PairAt(c, d, s) /\ s \in Strings
    BY <1>6, <2>1, TestFacts
  <2>3. Calm1(c, s) /\ Calm2(d)
    BY <1>4, <2>2, OthersCalm
  <2>4. KeepsShared(s)
    BY DEF KeepsShared, In, Named
  <2>5. Steps(c) >= 14 => root[c] \in Dirs
    BY <1>6, <2>1, FarIn
  <2> QED BY <1>2, <2>1, <2>2, <2>3, <2>4, <2>5, PairKept
<1>7. \A c, d \in Sessions : \A t \in app'[c].tasks, u \in app'[d].tasks :
          IsTest(app', c, d, t, u) => PairAt(c, d, t.shared)'
  BY <1>6
<1> QED BY <1>2, <1>3, <1>5, <1>7 DEF LocksTogether, TestInv

\* The locks of the test and its shared file, in every state it reaches.
LEMMA TogetherAlways == ApplicationsSpec => []LocksTogether
<1>1. ApplicationsInit => LocksTogether
  BY InitTogether
<1>2. LocksTogether /\ [ApplicationsNext]_applicationVars => LocksTogether'
  BY NextControl, NextSlots, NextLocks, NextNames, NextTest, StutterTogether
     DEF LocksTogether, ApplicationsNext
<1> QED BY <1>1, <1>2, PTL DEF ApplicationsSpec

\* Bytes that the two clients have written are the start of what they write.
LEMMA BytesTogether ==
    ASSUME NEW b, NEW n \in Int, NEW m \in Int, NEW w, Holds(b, n, m, w)
    PROVE  \E end \in {<<1, 1, 2>>, <<2, 1, 1>>} : b = SubSeq(end, 1, Len(b))
<1>1. b \in {<< >>, <<1>>, <<2>>, <<1, 1>>, <<2, 1>>, <<1, 1, 2>>, <<2, 1, 1>>}
  BY DEF Holds
<1>2. ASSUME NEW x \in Nat, NEW y \in Nat, NEW z \in Nat
      PROVE  /\ << >> = SubSeq(<<x, y, z>>, 1, 0) /\ <<x>> = SubSeq(<<x, y, z>>, 1, 1)
             /\ <<x, y>> = SubSeq(<<x, y, z>>, 1, 2) /\ <<x, y, z>> = SubSeq(<<x, y, z>>, 1, 3)
  <2> PICK a, e1, e2 : a = <<x, y, z>> /\ e1 = <<x>> /\ e2 = <<x, y>>
    OBVIOUS
  <2>1. /\ a \in Seq(Nat) /\ Len(a) = 3 /\ a[1] = x /\ a[2] = y /\ a[3] = z
        /\ e1 \in Seq(Nat) /\ Len(e1) = 1 /\ e1[1] = x
        /\ e2 \in Seq(Nat) /\ Len(e2) = 2 /\ e2[1] = x /\ e2[2] = y
    OBVIOUS
  <2>2. ASSUME NEW l \in 0..3, NEW e \in Seq(Nat), Len(e) = l, \A k \in 1..l : e[k] = a[k]
        PROVE  e = SubSeq(a, 1, l)
    <3> PICK q : q = SubSeq(a, 1, l)
      OBVIOUS
    <3>1. q \in Seq(Nat) /\ Len(q) = l /\ \A k \in 1..l : q[k] = a[k]
      BY <2>1, SubSeqProperties
    <3> QED BY <2>2, <3>1, SeqEqual
  <2>3. << >> \in Seq(Nat) /\ Len(<< >>) = 0
    OBVIOUS
  <2>4. << >> = SubSeq(a, 1, 0)
    BY <2>2, <2>3
  <2>5. e1 = SubSeq(a, 1, 1)
    BY <2>1, <2>2
  <2>6. e2 = SubSeq(a, 1, 2)
    BY <2>1, <2>2
  <2>7. a = SubSeq(a, 1, 3)
    BY <2>1, <2>2
  <2> QED BY <2>4, <2>5, <2>6, <2>7
<1> DEFINE P(q) == \E end \in {<<1, 1, 2>>, <<2, 1, 1>>} : q = SubSeq(end, 1, Len(q))
<1>3. P(<< >>) /\ P(<<1>>) /\ P(<<1, 1>>) /\ P(<<1, 1, 2>>)
  BY <1>2
<1>4. P(<<2>>) /\ P(<<2, 1>>) /\ P(<<2, 1, 1>>)
  BY <1>2
<1> QED BY <1>1, <1>3, <1>4

\* What a client of the acceptance test writes while it has the exclusive lock
\* stays together (README.md:490).
THEOREM LockedWritesHold == ApplicationsSpec => []LockedWritesStayTogether
<1>1. ASSUME LocksTogether, NEW c \in Sessions, task[c].kind = "client1",
             NEW i, i = dir[Resolved(root[c], task[c].shared)], i # NoInode
      PROVE  \E end \in {<<1, 1, 2>>, <<2, 1, 1>>} : content[i] = SubSeq(end, 1, Len(content[i]))
  <2> USE DEF LocksTogether, ControlInv, VariablesOK
  <2>1. task[c] \in app[c].tasks /\ root[c] \in Dirs
    <3>1. task[c] # NoTask
      BY <1>1 DEF NoTask
    <3>2. task[c] \in app[c].tasks /\ session[c] # "none"
      BY <1>1, <3>1 DEF TestInv, TaskAt
    <3> QED BY <1>1, <3>2 DEF ClientAt, StageAt
  <2>2. app[c].kind = "test"
    <3>1. app[c] \in Programs
      BY <1>1, ApplicationsAssumption DEF ProgramsOK
    <3> QED BY <1>1, <2>1, <3>1 DEF Programs, DownloadTasks, SendTasks, CommandTasks
  <2>8. PICK d \in Sessions, e \in Sessions :
            \E t \in app[d].tasks, u \in app[e].tasks : IsTest(app, d, e, t, u)
    BY <1>1, <2>2, ApplicationsAssumption DEF ProgramsOK
  <2>3. PICK t \in app[d].tasks, u \in app[e].tasks : IsTest(app, d, e, t, u)
    BY <2>8
  <2>4. c = d /\ t = task[c]
    <3>1. c \in {d, e}
      BY <2>2, <2>3 DEF IsTest
    <3>2. c # e
      BY <1>1, <2>1, <2>3 DEF IsTest
    <3> QED BY <2>1, <2>3, <3>1, <3>2 DEF IsTest
  <2>5. PairAt(c, e, task[c].shared)
    BY <1>1, <2>3, <2>4 DEF TestInv
  <2>6. Holds(content[i], StepsIn(c, root[c]), StepsIn(e, root[c]), Writing(c))
    BY <1>1, <2>1, <2>5 DEF PairAt, SharedAt, Named, In
  <2>7. StepsIn(c, root[c]) \in Int /\ StepsIn(e, root[c]) \in Int
    BY <1>1, StepsType DEF StepsIn, ClientAt
  <2> QED BY <2>6, <2>7, BytesTogether
<1>2. LocksTogether => LockedWritesStayTogether
  BY <1>1 DEF LockedWritesStayTogether
<1> QED BY <1>2, TogetherAlways, PTL

-----------------------------------------------------------------------------
(* The test fails only where client 1 reads what both have written, or for *)
(* want of files and descriptors.                                          *)

\* The errors for want of files and descriptors.
Short == {"EMFILE", "ENFILE", "ENOSPC"}
AtRace(c) == task[c].kind = "client1" /\ at[c] = RaceStep

\* The answer j to call r of the test t is the one that it takes for success, or
\* an open has failed for want of files or descriptors.
RightAnswer(t, r, j) ==
    /\ r.code = "REQUEST_OPEN" => j.value > 0 \/ (j.value < 0 /\ j.errno \in Short)
    /\ r.code # "REQUEST_OPEN" => j.value >= 0
    /\ r.code = "REQUEST_WRITE" => j.value = Len(r.data)
    /\ r.code = "REQUEST_READ" => j.data = t.data
    /\ r.code = "REQUEST_LSEEK" => j.value = Len(t.data)

\* A client of the test is one of the users, and loses its session only there.
UserAt(c) ==
    /\ session[c] # "none" => <<euid[c], root[c]>> \in Users
    /\ session[c] = "none" => left[c] > 0
    /\ stage[c] # "closing"
SessionAt(c) ==
    session[c] = "over" /\ ~ended[c] => left[c] = 0 /\ (stage[c] = "work" => AtRace(c))

\* It gets right answers otherwise, and fails only there.
WellAt(c) ==
    stage[c] = "work" /\ job[c].phase = "done" /\ ~Unchecked(c) /\ ~AtRace(c) =>
        RightAnswer(task[c], waiting[c], job[c])
EndAt(c) ==
    /\ result[c] = -1 /\ errno[c] \notin Short => AtRace(c)
    /\ stage[c] = "work" => result[c] >= 0

\* It writes and reads its file from the start.
PositionAt(c) ==
    stage[c] = "work" /\ task[c].kind = "client1" /\ Taken(c) \in {1, 4} => Position(c) = 0

AloneAt(c) == UserAt(c) /\ SessionAt(c) /\ WellAt(c) /\ EndAt(c) /\ PositionAt(c)

\* What that file holds between its second call and the one that removes it.
FileAt(c, t) ==
    /\ Steps(c) \in 1..12 => Named(root[c], t.file)
    /\ \A D \in Dirs : Named(D, t.file) =>
           In(D, t.file) = IF StepsIn(c, D) \in 2..12 THEN t.data ELSE << >>

WellInv ==
    /\ \A c \in Sessions : app[c].kind = "test" => AloneAt(c)
    /\ \A c, d \in Sessions : \A t \in app[c].tasks, u \in app[d].tasks :
           IsTest(app, c, d, t, u) => FileAt(c, t)

\* What the test makes its calls on, by their kinds.
LEMMA TestUses ==
    ASSUME NEW c \in Sessions, ControlInv, stage[c] = "work",
           task[c].kind \in {"client1", "client2"}, ~Unchecked(c), ~AtRace(c),
           NEW r, r = NextCall(c)
    PROVE  /\ r.code \notin {"REQUEST_OPEN", "REQUEST_UNLINK"} =>
                  Opened(task[c], at[c] - 1) # NoCall
           /\ r.code = "REQUEST_OPEN" =>
                  \/ r.path = task[c].shared /\ "CREAT" \in r.oflag
                  \/ /\ task[c].kind = "client1" /\ r.path = task[c].file
                     /\ "CREAT" \in r.oflag \/ at[c] \in 2..12
           /\ r.code = "REQUEST_READ" => task[c].kind = "client1" /\ at[c] = 5
           /\ r.code = "REQUEST_LSEEK" => task[c].kind = "client1" /\ at[c] = 8
           /\ r.code = "REQUEST_UNLINK" =>
                  task[c].kind = "client1" /\ at[c] = 13 /\ r.path = task[c].file
           /\ r.code = "REQUEST_FLOCK" => ~r.nb
<1> PICK t, k : t = task[c] /\ k = at[c] - 1
  OBVIOUS
<1>1. CASE t.kind = "client2"
  <2>1. at[c] \in 1..5
    BY <1>1, TestCalls
  <2>2. /\ at[c] = 1 => r = SharedOpen(t)
        /\ at[c] \in {2, 4} => r \in {flock_(fd[c], "EX"), flock_(fd[c], "UN")}
        /\ at[c] = 3 => r = write_(fd[c], <<2>>)
        /\ at[c] = 5 => r = close_(fd[c])
    BY <1>1, Client2Calls DEF NextCall
  <2>3. at[c] # 1 => Opened(t, k) # NoCall
    <3>1. at[c] # 1 => k \in 1..4
      BY <2>1
    <3> QED BY <1>1, <3>1, TestOpened
  <2> QED BY <2>1, <2>2, <2>3 DEF SharedOpen, open_, flock_, write_, close_
<1>2. CASE t.kind = "client1"
  <2>1. at[c] \in 1..22 /\ at[c] \notin {20, 21, 22}
    BY <1>2, TestCalls DEF Unchecked, AtRace, RaceStep
  <2>2. at[c] \notin {1, 4, 7, 10, 13, 14} => Opened(t, k) # NoCall
    <3>1. at[c] \notin {1, 4, 7, 10, 13, 14} => k \in {1, 2, 4, 5, 7, 8, 10, 11} \/ k \in 14..18
      BY <2>1
    <3>2. k \in {1, 2, 4, 5, 7, 8, 10, 11} =>
            Opened(t, k) \in {open_(t.file, {"RD"}), open_(t.file, {"WR", "CREAT"})}
      BY <1>2 DEF Opened
    <3> QED BY <1>2, <3>1, <3>2, TestOpened, OpensAreCalls
  <2> PICK l : l = CallsOf(t, fd[c], size[c])
    OBVIOUS
  <2>3. r = l[at[c]]
    BY DEF NextCall
  <2>4. /\ l[1] = open_(t.file, {"WR", "CREAT"}) /\ l[4] = open_(t.file, {"RD"})
         /\ l[7] = open_(t.file, {"RD"}) /\ l[10] = open_(t.file, {"RD"}) /\ l[14] = SharedOpen(t)
    BY <1>2, Client1Calls
  <2>5. /\ l[2] = write_(fd[c], t.data) /\ l[16] = write_(fd[c], <<1>>) /\ l[17] = write_(fd[c], <<1>>)
         /\ l[15] = flock_(fd[c], "EX") /\ l[18] = flock_(fd[c], "UN")
    BY <1>2, Client1Calls
  <2>6. /\ l[3] = close_(fd[c]) /\ l[6] = close_(fd[c]) /\ l[9] = close_(fd[c])
         /\ l[12] = close_(fd[c]) /\ l[19] = close_(fd[c])
    BY <1>2, Client1Calls
  <2>7. /\ l[5] = read_(fd[c], Len(t.data)) /\ l[8] = lseek_(fd[c], 0, "END")
         /\ l[11] = fstat_(fd[c]) /\ l[13] = unlink_(t.file)
    BY <1>2, Client1Calls
  <2>8. ASSUME at[c] \in {1, 4, 7, 10}
        PROVE  /\ r.code = "REQUEST_OPEN" /\ r.path = t.file
               /\ "CREAT" \in r.oflag \/ at[c] \in 2..12
    <3>1. (at[c] = 1 => r = open_(t.file, {"WR", "CREAT"})) /\ (at[c] # 1 => r = open_(t.file, {"RD"}))
      BY <2>8, <2>3, <2>4
    <3> QED BY <2>8, <3>1 DEF open_
  <2>9. ASSUME at[c] = 14 PROVE r.code = "REQUEST_OPEN" /\ r.path = t.shared /\ "CREAT" \in r.oflag
    <3>1. r = SharedOpen(t)
      BY <2>9, <2>3, <2>4
    <3> QED BY <3>1 DEF SharedOpen, open_
  <2>10. ASSUME at[c] \in {15, 18} PROVE r.code = "REQUEST_FLOCK" /\ ~r.nb
    <3>1. r \in {flock_(fd[c], "EX"), flock_(fd[c], "UN")}
      BY <2>10, <2>3, <2>5
    <3> QED BY <3>1 DEF flock_
  <2>11. ASSUME at[c] \in {2, 16, 17} PROVE r.code = "REQUEST_WRITE"
    <3>1. r \in {write_(fd[c], t.data), write_(fd[c], <<1>>)}
      BY <2>11, <2>3, <2>5
    <3> QED BY <3>1 DEF write_
  <2>12. ASSUME at[c] \in {3, 6, 9, 12, 19} PROVE r.code = "REQUEST_CLOSE"
    <3>1. r = close_(fd[c])
      BY <2>12, <2>3, <2>6
    <3> QED BY <3>1 DEF close_
  <2>13. ASSUME at[c] \in {5, 8, 11, 13}
        PROVE  /\ at[c] = 5 => r.code = "REQUEST_READ"
               /\ at[c] = 8 => r.code = "REQUEST_LSEEK"
               /\ at[c] = 11 => r.code = "REQUEST_FSTAT"
               /\ at[c] = 13 => r.code = "REQUEST_UNLINK" /\ r.path = t.file
    <3>1. /\ at[c] = 5 => r = read_(fd[c], Len(t.data))
          /\ at[c] = 8 => r = lseek_(fd[c], 0, "END")
          /\ at[c] = 11 => r = fstat_(fd[c])
          /\ at[c] = 13 => r = unlink_(t.file)
      BY <2>3, <2>7
    <3> QED BY <3>1 DEF read_, lseek_, fstat_, unlink_
  <2>14. \/ at[c] \in {1, 4, 7, 10} \/ at[c] = 14 \/ at[c] \in {15, 18} \/ at[c] \in {2, 16, 17}
        \/ at[c] \in {3, 6, 9, 12, 19} \/ at[c] \in {5, 8, 11, 13}
    BY <2>1
  <2>15. CASE at[c] \in {1, 4, 7, 10}
    BY <1>2, <2>8, <2>15
  <2>16. CASE at[c] = 14
    BY <2>9, <2>16
  <2>17. CASE at[c] \in {15, 18}
    BY <2>2, <2>10, <2>17
  <2>18. CASE at[c] \in {2, 16, 17}
    BY <2>2, <2>11, <2>18
  <2>19. CASE at[c] \in {3, 6, 9, 12, 19}
    BY <2>2, <2>12, <2>19
  <2>20. CASE at[c] \in {5, 8, 11, 13}
    BY <1>2, <2>2, <2>13, <2>20
  <2> QED BY <2>14, <2>15, <2>16, <2>17, <2>18, <2>19, <2>20
<1> QED BY <1>1, <1>2

\* How the answers to reads and seeks are checked.
LEMMA ReadSucceeds ==
    ASSUME NEW c \in Sessions, NEW r, NEW value \in Int, NEW data, app[c].kind = "test", ~Unchecked(c)
    PROVE  /\ r.code = "REQUEST_READ" /\ at[c] # RaceStep =>
                  (Succeeds(c, r, value, data) <=> data = task[c].data)
           /\ r.code = "REQUEST_READ" /\ at[c] = RaceStep =>
                  (Succeeds(c, r, value, data) <=> data = <<1, 1, 2>>)
           /\ r.code = "REQUEST_LSEEK" =>
                  (Succeeds(c, r, value, data) <=> value = Len(task[c].data))
<1>1. ASSUME r.code = "REQUEST_READ", at[c] # RaceStep
      PROVE  Succeeds(c, r, value, data) <=> data = task[c].data
  BY <1>1, Zenon DEF Succeeds
<1>2. ASSUME r.code = "REQUEST_READ", at[c] = RaceStep
      PROVE  Succeeds(c, r, value, data) <=> data = <<1, 1, 2>>
  BY <1>2, Zenon DEF Succeeds
<1>3. ASSUME r.code = "REQUEST_LSEEK"
      PROVE  Succeeds(c, r, value, data) <=> value = Len(task[c].data)
  BY <1>3, Zenon DEF Succeeds
<1> QED BY <1>1, <1>2, <1>3

\* An open of a file that is there, or is created, by somebody who may do
\* everything with it, fails only for want of files and descriptors.
LEMMA OpensWell ==
    ASSUME NEW c \in Sessions, NEW p, NEW flags, \A right \in Rights : May(c, p, right),
           dir[p] # NoInode \/ "CREAT" \in flags
    PROVE  OpenErrors(c, p, flags) \subseteq Short
BY DEF OpenErrors, Rights, Short

\* Neither does a removal of a file that is there.
LEMMA UnlinksWell ==
    ASSUME NEW c \in Sessions, NEW p, \A right \in Rights : May(c, p, right), dir[p] # NoInode
    PROVE  UnlinkErrors(c, p) = {}
BY DEF UnlinkErrors, Rights

\* Otherwise the call of a program fails only where it does not fit.
LEMMA FailsForWant ==
    ASSUME NEW c \in Sessions, ControlInv, Executes(c), Failed(c), NEW r, r = waiting[c],
           r.code \notin {"REQUEST_OPEN", "REQUEST_UNLINK"} => Fit(c, {}),
           r.code = "REQUEST_OPEN" => OpenErrors(c, Resolved(root[c], r.path), r.oflag) \subseteq Short,
           r.code = "REQUEST_UNLINK" => UnlinkErrors(c, Resolved(root[c], r.path)) = {},
           r.code = "REQUEST_WRITE" =>
               Fit(c, {"WR"}) /\ (WriteCount(c, r.fd, r.data) # 0 \/ r.data = << >>),
           r.code = "REQUEST_LSEEK" => Target(c) \in 0..MaxOffset,
           r.code = "REQUEST_FLOCK" => ~r.nb
    PROVE  r.code = "REQUEST_OPEN" /\ job'[c].value = -1 /\ job'[c].errno \in Short
<1>1. Arg(c) = r /\ job \in [Sessions -> {job[d] : d \in Sessions}] /\ job'[c].value = -1
  BY ExecutesCases DEF ControlInv, VariablesOK, RemoteOK, OfClients, Failed, Done
<1>2. ASSUME NEW v, NEW e, NEW data, Answers(c, v, e, data) PROVE v = -1 /\ job'[c].errno = e
  BY <1>1, <1>2 DEF Answers, Done
<1>3. CASE Open(c)
  <2>1. r.code = "REQUEST_OPEN"
    BY <1>1, <1>3 DEF Open, Pending, Arg
  <2>2. CASE \E e \in OpenErrors(c, Where(c), Arg(c).oflag) \cup {"EMFILE", "ENFILE"} : Fails(c, e)
    <3>1. PICK e \in OpenErrors(c, Where(c), Arg(c).oflag) \cup {"EMFILE", "ENFILE"} : Fails(c, e)
      BY <2>2
    <3>2. e \in Short
      BY <1>1, <2>1, <3>1 DEF Where, Short
    <3> QED BY <1>1, <1>2, <2>1, <3>1, <3>2 DEF Fails
  <2>3. CASE \E g \in Fds \ {0} : Answers(c, g, "0", << >>)
    <3>1. PICK g \in Fds \ {0} : Answers(c, g, "0", << >>)
      BY <2>3
    <3>2. g = -1
      BY <1>2, <3>1
    <3> QED BY <3>1, <3>2, KernelAssumption DEF Fds
  <2> QED BY <1>3, <2>2, <2>3 DEF Open
<1>4. ~Close(c)
  <2>1. Close(c) => r.code = "REQUEST_CLOSE"
    BY <1>1 DEF Close, Pending, Arg
  <2> QED BY <1>2, <2>1 DEF Close
<1>5. ~Read(c)
  <2> SUFFICES ASSUME Read(c) PROVE FALSE
    OBVIOUS
  <2> PICK data : data = ReadData(c, Arg(c).fd, Arg(c).size)
    OBVIOUS
  <2>1. Answers(c, Len(data), "0", data)
    BY DEF Read
  <2>2. /\ r.code = "REQUEST_READ" /\ r.size \in Int /\ r.fd \in Fds /\ IsFile(c, r.fd)
        /\ KernelTypeOK /\ fdt[c][r.fd].ino \in Inodes
    BY <1>1, ExecutesCases DEF Read, Pending, Arg, Fit, GoodCall, ControlInv, VariablesOK, ClientAt,
                               FilesAt
  <2>3. data \in Seq(Nat)
    BY <1>1, <2>2, ReadDataType
  <2>4. Len(data) # -1
    BY <2>3
  <2> QED BY <1>2, <2>1, <2>4
<1>6. ~Write(c)
  <2> SUFFICES ASSUME Write(c) PROVE FALSE
    OBVIOUS
  <2>1. r.code = "REQUEST_WRITE"
    BY <1>1 DEF Write, Pending, Arg
  <2> PICK n : n = WriteCount(c, Arg(c).fd, Arg(c).data)
    OBVIOUS
  <2>2. (n > 0 \/ Arg(c).data = << >>) /\ Answers(c, n, "0", << >>)
        /\ SysWrite(c, Arg(c).fd, Arg(c).data)
    BY <1>1, <2>1 DEF Write
  <2>3. /\ r.data \in Seq(Nat) /\ r.fd \in Fds /\ KernelTypeOK /\ fdt[c][r.fd].ino \in Inodes
    BY <1>1, <2>1, ExecutesCases DEF Fit, GoodCall, ControlInv, VariablesOK, ClientAt, FilesAt
  <2>4. n \in 0..Len(r.data)
    BY <1>1, <2>2, <2>3, SysWriteType
  <2> QED BY <1>2, <2>2, <2>4
<1>7. ~Lseek(c)
  <2>1. Lseek(c) => r.code = "REQUEST_LSEEK"
    BY <1>1 DEF Lseek, Pending, Arg
  <2>2. Lseek(c) => Target(c) \in 0..MaxOffset /\ Target(c) = -1
    BY <1>2, <2>1 DEF Lseek
  <2>3. MaxOffset \in Nat
    BY KernelAssumption
  <2> QED BY <2>2, <2>3
<1>8. ~Fstat(c)
  <2>1. Fstat(c) => r.code = "REQUEST_FSTAT"
    BY <1>1 DEF Fstat, Pending, Arg
  <2>2. Fstat(c) => \E data : Answers(c, 0, "0", data)
    BY <2>1 DEF Fstat
  <2> QED BY <1>2, <2>2
<1>9. ~Unlink(c)
  <2>1. Unlink(c) => r.code = "REQUEST_UNLINK"
    BY <1>1 DEF Unlink, Pending, Arg
  <2>2. Unlink(c) => UnlinkErrors(c, Where(c)) = {}
    BY <1>1, <2>1 DEF Where
  <2> QED BY <1>2, <2>2 DEF Unlink
<1>10. ~Flock(c)
  <2> SUFFICES ASSUME Flock(c) PROVE FALSE
    OBVIOUS
  <2>1. r.code = "REQUEST_FLOCK"
    BY <1>1 DEF Flock, Pending, Arg
  <2>2. Answers(c, 0, "0", << >>) \/ job'[c] = At("locking", Arg(c))
    BY <1>1, <2>1 DEF Flock
  <2>3. job'[c].phase = "done" /\ At("locking", Arg(c)).phase = "locking"
    BY DEF Failed, Done, At
  <2> QED BY <1>2, <2>2, <2>3
<1>11. ~FlockEnds(c)
  <2> SUFFICES ASSUME FlockEnds(c) PROVE FALSE
    OBVIOUS
  <2>1. r.code = "REQUEST_FLOCK"
    BY LockingFacts DEF FlockEnds
  <2>2. Answers(c, 0, "0", << >>)
    BY <1>1, <2>1 DEF FlockEnds
  <2> QED BY <1>2, <2>2
<1> QED BY <1>3, <1>4, <1>5, <1>6, <1>7, <1>8, <1>9, <1>10, <1>11 DEF Executes

\* What the test may do with its files, as ApplicationsAssumption and TestMaySucceed
\* have it.
LEMMA TestAllowed ==
    ASSUME TestMaySucceed, ProgramsOK, NEW c \in Sessions, NEW d \in Sessions,
           NEW t \in app[c].tasks, NEW u \in app[d].tasks, IsTest(app, c, d, t, u),
           NEW e \in Sessions, UserAt(e), session[e] # "none"
    PROVE  /\ MaxOffset >= 3 /\ Len(t.data) <= MaxOffset
           /\ \A right \in Rights : May(e, Resolved(root[e], t.file), right)
           /\ \A right \in Rights : May(e, Resolved(root[e], t.shared), right)
<1>1. /\ MaxOffset >= 3 /\ Len(t.data) <= MaxOffset
      /\ \A user \in Users : MayUse(user, t.file) /\ MayUse(user, t.shared)
  BY DEF TestMaySucceed, ProgramsOK
<1> PICK user : user = <<euid[e], root[e]>>
  OBVIOUS
<1>2. user \in Users /\ user[1] = euid[e] /\ user[2] = root[e]
  BY DEF UserAt
<1> QED BY <1>1, <1>2 DEF MayUse, May

\* A call of the test, except where client 1 reads the shared file, gets the right
\* answer if what it writes has room and it finds what it expects.
LEMMA AnswersWell ==
    ASSUME NEW e \in Sessions, ControlInv, SlotAt(e), NameAt(e), ServerActs(e), Executes(e),
           stage[e] = "work", app[e].kind = "test", task[e].kind \in {"client1", "client2"},
           ~Unchecked(e), ~AtRace(e), NEW r, r = waiting[e],
           r.code \in {"REQUEST_OPEN", "REQUEST_UNLINK"} =>
               \A right \in Rights : May(e, Resolved(root[e], r.path), right),
           r.code = "REQUEST_OPEN" => Named(root[e], r.path) \/ "CREAT" \in r.oflag,
           r.code = "REQUEST_UNLINK" => Named(root[e], r.path),
           r.code = "REQUEST_WRITE" => WriteCount(e, fd[e], r.data) = Len(r.data),
           r.code = "REQUEST_READ" => ReadData(e, fd[e], r.size) = task[e].data,
           r.code = "REQUEST_LSEEK" =>
               Target(e) = Len(task[e].data) /\ Target(e) \in 0..MaxOffset
    PROVE  WellAt(e)' /\ (Failed(e) => r.code = "REQUEST_OPEN")
<1>1. /\ r = NextCall(e) /\ CarriedOut(e, r) /\ Arg(e) = r /\ GoodCall(r)
      /\ FitsIn(r, task[e], at[e], fd[e]) /\ waiting' = waiting
  BY BeforeCall, ExecutesCases
<1>2. SameApps
  BY AppsKept
<1> PICK o : o = Opened(task[e], at[e] - 1)
  OBVIOUS
<1>3. /\ r.code \notin {"REQUEST_OPEN", "REQUEST_UNLINK"} => o # NoCall
      /\ r.code = "REQUEST_FLOCK" => ~r.nb
  BY <1>1, TestUses
<1>4. /\ r.code \notin {"REQUEST_OPEN", "REQUEST_UNLINK"} => r.fd = fd[e] /\ Fit(e, {})
      /\ r.code = "REQUEST_WRITE" => Fit(e, {"WR"})
  <2> SUFFICES ASSUME r.code \notin {"REQUEST_OPEN", "REQUEST_UNLINK"}
               PROVE  /\ r.fd = fd[e] /\ Fit(e, {})
                      /\ r.code = "REQUEST_WRITE" => Fit(e, {"WR"})
    OBVIOUS
  <2>1. o # NoCall
    BY <1>3
  <2>3. fd[e] \in Fds /\ IsFile(e, fd[e]) /\ fdt[e][fd[e]].rights = o.oflag \cap {"RD", "WR"}
    <3> PICK g : g = fd[e]
      OBVIOUS
    <3>1. /\ g \in Fds /\ IsFile(e, g) /\ fdt[e][g].ino \in Inodes
          /\ fdt[e][g].ino = dir[Resolved(root[e], o.path)]
          /\ fdt[e][g].append = ("APPEND" \in o.oflag)
          /\ fdt[e][g].rights = o.oflag \cap {"RD", "WR"}
      BY <2>1, TestFile
    <3> QED BY <3>1
  <2>2. r.fd = fd[e] /\ (r.code = "REQUEST_WRITE" => "WR" \in o.oflag)
    BY <1>1, <2>1 DEF FitsIn
  <2> QED BY <1>1, <2>2, <2>3 DEF Fit
<1>5. ASSUME Failed(e)
      PROVE  r.code = "REQUEST_OPEN" /\ job'[e].value = -1 /\ job'[e].errno \in Short
  <2> PICK p : p = Resolved(root[e], r.path)
    OBVIOUS
  <2>1. r.code = "REQUEST_OPEN" => OpenErrors(e, p, r.oflag) \subseteq Short
    BY OpensWell DEF Named
  <2>2. r.code = "REQUEST_UNLINK" => UnlinkErrors(e, p) = {}
    BY UnlinksWell DEF Named
  <2>3. r.code = "REQUEST_WRITE" => WriteCount(e, r.fd, r.data) # 0 \/ r.data = << >>
    <3>1. r.code = "REQUEST_WRITE" => r.data \in Seq(Nat)
      BY <1>1 DEF GoodCall
    <3> QED BY <1>4, <3>1, EmptySeq
  <2> QED BY <1>3, <1>4, <1>5, <2>1, <2>2, <2>3, FailsForWant
<1>6. job'[e].phase = "done" => RightAnswer(task[e], r, job'[e])
  <2>1. CASE Failed(e)
    BY <1>5, <2>1 DEF RightAnswer
  <2>2. CASE OpenDone(e, r)
    <3>1. r.code = "REQUEST_OPEN" /\ \E g \in Fds \ {0} : job'[e] = Done(g, "0", << >>)
      BY <2>2 DEF OpenDone
    <3>2. PICK g \in Fds \ {0} : job'[e].value = g
      BY <3>1 DEF Done
    <3>3. g > 0
      BY KernelAssumption DEF Fds
    <3> QED BY <3>1, <3>2, <3>3 DEF RightAnswer
  <2>3. CASE ReadDone(e, r)
    <3> PICK data : data = ReadData(e, r.fd, r.size)
      OBVIOUS
    <3>1. r.code = "REQUEST_READ" /\ job'[e].value = Len(data) /\ job'[e].data = data
      BY <2>3 DEF ReadDone, Done
    <3>2. data = task[e].data /\ r.fd \in Fds /\ r.size \in Int /\ IsFile(e, r.fd)
      BY <1>1, <1>4, <3>1 DEF GoodCall, Fit
    <3>3. data \in Seq(Nat)
      <4>1. KernelTypeOK /\ fdt[e][r.fd].ino \in Inodes
        BY <3>2 DEF ControlInv, VariablesOK, ClientAt, FilesAt
      <4> QED BY <3>2, <4>1, ReadDataType
    <3> QED BY <3>1, <3>2, <3>3 DEF RightAnswer
  <2>4. CASE WriteDone(e, r)
    <3>1. r.code = "REQUEST_WRITE" /\ job'[e].value = WriteCount(e, r.fd, r.data) /\ r.data \in Seq(Nat)
      BY <1>1, <2>4 DEF WriteDone, Done, GoodCall
    <3>2. job'[e].value = Len(r.data) /\ Len(r.data) \in Nat
      BY <1>4, <3>1
    <3> QED BY <3>1, <3>2 DEF RightAnswer
  <2>5. CASE LseekDone(e, r)
    <3>1. r.code = "REQUEST_LSEEK" /\ job'[e].value = Target(e)
      BY <2>5 DEF LseekDone, Done
    <3> QED BY <3>1, KernelAssumption DEF RightAnswer
  <2>6. CASE CloseDone(e, r) \/ FstatDone(e, r) \/ UnlinkDone(e, r) \/ FlockDone(e, r)
    <3>1. /\ r.code \in {"REQUEST_CLOSE", "REQUEST_FSTAT", "REQUEST_UNLINK", "REQUEST_FLOCK"}
          /\ job'[e].value = 0
      <4>1. r.code \in {"REQUEST_CLOSE", "REQUEST_FSTAT", "REQUEST_UNLINK", "REQUEST_FLOCK"}
            /\ \E data : job'[e] = Done(0, "0", data)
        BY <2>6, Zenon DEF CloseDone, FstatDone, UnlinkDone, FlockDone
      <4> QED BY <4>1 DEF Done
    <3> QED BY <3>1 DEF RightAnswer
  <2>7. CASE FlockWaits(e, r)
    BY <2>7 DEF FlockWaits, At
  <2> QED BY <1>1, <2>1, <2>2, <2>3, <2>4, <2>5, <2>6, <2>7 DEF CarriedOut
<1>7. WellAt(e)'
  <2>1. task'[e] = task[e] /\ waiting'[e] = r
    BY <1>1, <1>2 DEF SameApps
  <2>2. RightAnswer(task[e], waiting[e], job[e])' <=> RightAnswer(task[e], r, job'[e])
    BY <2>1 DEF RightAnswer
  <2> QED BY <1>6, <2>2 DEF WellAt
<1> QED BY <1>5, <1>7

\* A byte that has room is written.
LEMMA ByteFits ==
    ASSUME NEW e \in Sessions, NEW g \in Fds, NEW x \in Nat, KernelTypeOK,
           fdt[e][g].ino \in Inodes, fdt[e][g].append, Len(content[fdt[e][g].ino]) < MaxOffset
    PROVE  WriteCount(e, g, <<x>>) = Len(<<x>>)
<1> PICK l : l = Len(content[fdt[e][g].ino])
  OBVIOUS
<1>1. l \in Nat /\ MaxOffset \in Nat /\ WritePos(e, g) = l /\ l < MaxOffset /\ Len(<<x>>) = 1
  BY LenProperties, KernelAssumption DEF KernelTypeOK, WritePos
<1>2. WriteCount(e, g, <<x>>) = Minimum(1, MaxOffset - l)
  BY <1>1 DEF WriteCount
<1> QED BY <1>1, <1>2 DEF Minimum

\* Before the last of its writes the shared file has two bytes at most.
LEMMA HoldsTwo ==
    ASSUME NEW b, NEW n \in Int, NEW m \in Int, NEW w, Holds(b, n, m, w), n \in {15, 16} \/ m = 2
    PROVE  Len(b) <= 2
<1>1. b \in {<< >>, <<1>>, <<2>>, <<1, 1>>, <<2, 1>>}
  BY DEF Holds
<1>2. b = << >> => Len(b) = 0
  OBVIOUS
<1>3. (b = <<1>> => Len(b) = 1) /\ (b = <<2>> => Len(b) = 1)
  OBVIOUS
<1>4. (b = <<1, 1>> => Len(b) = 2) /\ (b = <<2, 1>> => Len(b) = 2)
  OBVIOUS
<1>5. Len(b) = 0 \/ Len(b) = 1 \/ Len(b) = 2
  BY <1>1, <1>2, <1>3, <1>4, Zenon
<1>6. PICK l : l = Len(b)
  OBVIOUS
<1> QED BY <1>5, <1>6

\* A file that is written from the start and had no bytes holds the data.
LEMMA WholeFileWritten ==
    ASSUME NEW e \in Sessions, NEW g \in Fds, NEW data \in Seq(Nat), NEW i \in Inodes, KernelTypeOK,
           fdt[e][g].ino = i, ~fdt[e][g].append, fdt[e][g].pos = 0, content[i] = << >>,
           Len(data) <= MaxOffset
    PROVE  /\ WriteCount(e, g, data) = Len(data)
           /\ SysWrite(e, g, data) => dir' = dir /\ content' = [content EXCEPT ![i] = data]
<1>1. Len(data) \in Nat /\ MaxOffset \in Nat /\ WritePos(e, g) = 0 /\ content \in [Inodes -> Seq(Nat)]
  BY LenProperties, KernelAssumption DEF WritePos, KernelTypeOK
<1> PICK n : n = Len(data)
  OBVIOUS
<1>2. WriteCount(e, g, data) = n
  BY <1>1 DEF WriteCount, Minimum
<1>3. ASSUME SysWrite(e, g, data) PROVE dir' = dir /\ content' = [content EXCEPT ![i] = data]
  <2>1. dir' = dir
    BY <1>3 DEF SysWrite
  <2>2. CASE n = 0
    <3>1. content' = content /\ data = << >>
      BY <1>2, <1>3, <2>2, EmptySeq DEF SysWrite
    <3> QED BY <1>1, <2>1, <3>1
  <2>3. CASE n # 0
    <3> PICK z, part, bytes, w : z = 0 /\ part = SubSeq(data, 1, n) /\ bytes = content[i]
                                 /\ w = Overwrite(bytes, z, part)
      OBVIOUS
    <3>1. content' = [content EXCEPT ![i] = w]
      <4>1. content' = [content EXCEPT ![i] = Overwrite(content[i], WritePos(e, g), SubSeq(data, 1, n))]
        BY <1>2, <1>3, <2>3 DEF SysWrite
      <4> QED BY <1>1, <4>1
    <3>2. part = data
      <4>1. part \in Seq(Nat) /\ Len(part) = n /\ \A k \in 1..n : part[k] = data[k]
        BY <1>1, SubSeqProperties
      <4> QED BY <4>1, SeqEqual
    <3>3. bytes \in Seq(Nat) /\ Len(bytes) = 0 /\ z \in Nat
      BY <1>1
    <3>4. w = data
      <4>1. /\ Len(w) = n /\ w \in Seq(Nat)
            /\ \A k \in 1..n : w[k] = ByteAfter(bytes, z, data, k)
        <5>1. w = Overwrite(bytes, z, data)
          BY <3>2, Zenon
        <5>2. w \in Seq(Nat)
          BY <3>3, <5>1, OverwriteType
        <5>3. /\ Len(w) = IF z + Len(data) > Len(bytes) THEN z + Len(data) ELSE Len(bytes)
              /\ \A k \in 1..Len(w) : w[k] = ByteAfter(bytes, z, data, k)
          <6>1. /\ Len(Overwrite(bytes, z, data)) =
                      IF z + Len(data) > Len(bytes) THEN z + Len(data) ELSE Len(bytes)
                /\ \A k \in 1..Len(Overwrite(bytes, z, data)) :
                      Overwrite(bytes, z, data)[k] = ByteAfter(bytes, z, data, k)
            BY ONLY <3>3, data \in Seq(Nat), OverwriteBytes, Zenon
          <6> QED BY <5>1, <6>1, Zenon
        <5>4. z + Len(data) = n /\ n > Len(bytes)
          BY <1>1, <2>3, <3>3
        <5>5. Len(w) = n
          BY <5>3, <5>4
        <5> QED BY <5>2, <5>3, <5>5
      <4>2. \A k \in 1..n : ByteAfter(bytes, z, data, k) = data[k]
        BY <1>1, <3>3 DEF ByteAfter
      <4> QED BY <4>1, <4>2, SeqEqual
    <3> QED BY <2>1, <3>1, <3>4
  <2> QED BY <2>2, <2>3
<1> QED BY <1>2, <1>3

\* A client that is left alone keeps what is said of it.
LEMMA AloneKept ==
    ASSUME NEW d \in Sessions, SameClient(d), AloneAt(d)
    PROVE  AloneAt(d)'
<1> USE DEF SameClient, SameRemote, SameProgram
<1>1. /\ Taken(d)' = Taken(d) /\ Current(d)' = Current(d)
      /\ (AtRace(d)' <=> AtRace(d)) /\ (Unchecked(d)' <=> Unchecked(d))
  BY DEF Taken, Current, Answered, AtRace, Unchecked
<1>2. UserAt(d)' /\ SessionAt(d)'
  BY <1>1 DEF AloneAt, UserAt, SessionAt
<1>3. WellAt(d)' /\ EndAt(d)'
  BY <1>1 DEF AloneAt, WellAt, EndAt, RightAnswer
<1>4. PositionAt(d)'
  BY <1>1 DEF AloneAt, PositionAt, Position
<1> QED BY <1>2, <1>3, <1>4 DEF AloneAt

\* A step of a program outside of its calls keeps it too.
LEMMA IdleAlone ==
    ASSUME NEW c \in Sessions, ControlInv, app[c].kind = "test", TaskAt(c), AloneAt(c),
           connects(c) \/ begins(c) \/ calls(c) \/ exits(c) \/ closed(c) \/ ends(c)
    PROVE  AloneAt(c)' /\ (root'[c] = root[c] \/ Steps(c) = 0)
<1> USE DEF ControlInv, VariablesOK, AloneAt
<1>1. ClientAt(c) /\ ProgramsOK /\ RemoteOK /\ KernelTypeOK
  OBVIOUS
<1>2. CASE connects(c)
  <2>1. /\ stage[c] = "connect" /\ stage'[c] = "menu" /\ UNCHANGED <<app, task, at, left, result>>
        /\ session'[c] = "on" /\ errno' = errno
    BY <1>1, <1>2 DEF connects, GoTo, ProgramsOK, LogIn, RemoteOK
  <2>2. <<euid'[c], root'[c]>> \in Users
    <3>1. PICK user \in Users : LogIn(c, user)
      BY <1>2 DEF connects
    <3>2. euid'[c] = user[1] /\ root'[c] = user[2]
      BY <1>1, <3>1 DEF LogIn, KernelTypeOK, RemoteOK, OfClients
    <3>3. user = <<user[1], user[2]>>
      BY <3>1, ApplicationsAssumption
    <3> QED BY <3>1, <3>2, <3>3
  <2>3. result[c] = 0 /\ left[c] > 0
    BY <1>1, <2>1 DEF ClientAt, StageAt, UserAt
  <2>4. Steps(c) = 0
    BY <2>3 DEF Steps
  <2>5. UserAt(c)' /\ SessionAt(c)' /\ WellAt(c)' /\ PositionAt(c)'
    BY <2>1, <2>2 DEF UserAt, SessionAt, WellAt, PositionAt
  <2>6. EndAt(c)'
    BY <2>1, <2>3 DEF EndAt
  <2> QED BY <2>4, <2>5, <2>6
<1>3. CASE begins(c)
  <2>1. /\ stage[c] = "menu" /\ stage'[c] = "work" /\ task'[c] \in app[c].tasks /\ app' = app
        /\ at'[c] = 1 /\ left[c] > 0 /\ left'[c] = left[c] - 1 /\ UNCHANGED remoteVars
        /\ result'[c] = 0
    BY <1>1, <1>3 DEF begins, GoTo, ProgramsOK, OfClients
  <2>2. job[c] = Idle /\ job'[c] = Idle /\ ~Answered(c)' /\ session[c] # "none" /\ ~ended[c]
    BY <1>1, <2>1 DEF ClientAt, StageAt, JobAt, Answered, Idle, remoteVars, apiVars
  <2>3. session[c] # "over" /\ session' = session /\ euid' = euid /\ root' = root
    BY <2>1, <2>2 DEF SessionAt, remoteVars, apiVars, kernelVars
  <2>4. Taken(c)' = 0
    BY <2>1, <2>2 DEF Taken
  <2>5. UserAt(c)' /\ SessionAt(c)' /\ PositionAt(c)'
    BY <2>1, <2>2, <2>3, <2>4 DEF UserAt, SessionAt, PositionAt
  <2>6. WellAt(c)' /\ EndAt(c)'
    BY <2>1, <2>2 DEF WellAt, EndAt, Idle
  <2> QED BY <2>3, <2>5, <2>6
<1>4. CASE calls(c)
  <2>1. UNCHANGED appVars /\ UNCHANGED <<fdt, euid, session, root, errno, ended>>
    BY <1>4 DEF calls, Call, kernelVars
  <2>2. ~Answered(c) /\ ~Answered(c)' /\ job'[c].phase # "done"
    <3>1. waiting[c] = NoCall
      BY <1>4 DEF calls, Call
    <3>2. job[c] = Idle
      BY <1>1, <3>1 DEF ClientAt, JobAt
    <3>3. \E r : job'[c] \in {Idle, At("pending", r)}
      BY <1>1, <1>4, <3>2 DEF calls, Call, RemoteOK, OfClients
    <3> QED BY <3>2, <3>3 DEF Answered, Idle, At
  <2>3. Taken(c)' = Taken(c) /\ Current(c)' = Current(c) /\ (AtRace(c)' <=> AtRace(c))
    BY <2>1, <2>2 DEF appVars, Taken, Current, AtRace
  <2>4. UserAt(c)' /\ SessionAt(c)' /\ EndAt(c)'
    BY <2>1, <2>3 DEF appVars, UserAt, SessionAt, EndAt
  <2>5. WellAt(c)'
    BY <2>2 DEF WellAt
  <2>6. PositionAt(c)'
    BY <2>1, <2>3 DEF appVars, PositionAt, Position
  <2> QED BY <2>1, <2>4, <2>5, <2>6
<1>5. CASE exits(c) \/ ends(c)
  <2>1. /\ stage'[c] \in {"leaving", "off"} /\ UNCHANGED <<app, task, at, left, result>>
    BY <1>1, <1>5 DEF exits, ends, GoTo, ProgramsOK
  <2>2. UNCHANGED <<root, session, euid, errno>> /\ (ended[c] => ended'[c])
    BY <1>1, <1>5 DEF exits, ends, remoteVars, apiVars, kernelVars, Ends, RemoteOK
  <2>3. AtRace(c)' <=> AtRace(c)
    BY <2>1 DEF AtRace
  <2>4. UserAt(c)' /\ SessionAt(c)' /\ WellAt(c)' /\ EndAt(c)' /\ PositionAt(c)'
    BY <2>1, <2>2, <2>3 DEF UserAt, SessionAt, WellAt, EndAt, PositionAt
  <2> QED BY <2>2, <2>4
<1>6. ~closed(c)
  BY DEF closed, UserAt
<1> QED BY <1>2, <1>3, <1>4, <1>5, <1>6

\* When a call of the test comes back, it succeeds as it should.
LEMMA ReturnsChecked ==
    ASSUME NEW c \in Sessions, ControlInv, app[c].kind = "test",
           task[c].kind \in {"client1", "client2"}, AloneAt(c), returns(c)
    PROVE  /\ ~Unchecked(c) /\ ~AtRace(c) =>
                  /\ Succeeded(c) <=> Answered(c)
                  /\ ~Answered(c) => errno'[c] \in Short
                  /\ Answered(c) /\ waiting[c].code = "REQUEST_WRITE" => ret'[c].value \in Nat
           /\ Succeeded(c) => session[c] # "over"
<1>1. /\ stage[c] = "work" /\ Outcome(c) /\ waiting[c] = NextCall(c) /\ ClientAt(c)
      /\ GoodCall(waiting[c])
  BY ReturnFacts DEF ControlInv, FitsIn
<1> PICK r, value, data : r = waiting[c] /\ value = ret'[c].value /\ data = ret'[c].data
  OBVIOUS
<1>2. value \in Int
  BY <1>1, OutcomeType
<1>3. Succeeded(c) <=> Succeeds(c, r, value, data)
  BY DEF Succeeded
<1>4. session[c] = "over" => AtRace(c)
  BY <1>1 DEF AloneAt, SessionAt, ClientAt, StageAt
<1>5. ASSUME ~Unchecked(c), ~AtRace(c)
      PROVE  /\ Succeeded(c) <=> Answered(c)
             /\ ~Answered(c) => errno'[c] \in Short
             /\ Answered(c) /\ r.code = "REQUEST_WRITE" => value \in Nat
  <2>1. /\ job[c].phase = "done" /\ value = job[c].value /\ data = job[c].data
        /\ value < 0 => errno'[c] = job[c].errno
    BY <1>1, <1>4, <1>5 DEF Outcome
  <2>2. RightAnswer(task[c], r, job[c])
    BY <1>1, <1>5, <2>1 DEF AloneAt, WellAt
  <2>3. Answered(c) <=> value >= 0
    BY <2>1 DEF Answered
  <2>4. CASE r.code = "REQUEST_OPEN"
    BY <1>2, <1>3, <1>5, <2>1, <2>2, <2>3, <2>4, TestSucceeds DEF RightAnswer
  <2>5. CASE r.code = "REQUEST_WRITE"
    <3>1. value >= 0 /\ value = Len(r.data)
      BY <2>1, <2>2, <2>5 DEF RightAnswer
    <3>2. Succeeded(c) <=> value = Len(r.data)
      BY <1>2, <1>3, <1>5, <2>5, TestSucceeds
    <3> QED BY <1>2, <2>3, <3>1, <3>2
  <2>6. CASE r.code = "REQUEST_READ"
    <3>1. value >= 0 /\ data = task[c].data
      BY <2>1, <2>2, <2>6 DEF RightAnswer
    <3>2. at[c] # RaceStep
      <4>1. ~Loose(c) => r.code # "REQUEST_READ"
        BY <1>1, TestCalls
      <4>2. task[c].kind = "client2" => r.code # "REQUEST_READ"
        <5>1. task[c].kind = "client2" /\ Loose(c) => r = close_(fd[c])
          BY <1>1, Client2Calls DEF NextCall, Loose
        <5> QED BY <4>1, <5>1 DEF close_
      <4> QED BY <1>5, <2>6, <4>2 DEF AtRace
    <3>3. Succeeded(c) <=> data = task[c].data
      BY <1>2, <1>3, <1>5, <2>6, <3>2, ReadSucceeds
    <3> QED BY <2>3, <2>6, <3>1, <3>3
  <2>7. CASE r.code = "REQUEST_LSEEK"
    <3>1. value >= 0 /\ value = Len(task[c].data)
      BY <2>1, <2>2, <2>7 DEF RightAnswer
    <3>2. Succeeded(c) <=> value = Len(task[c].data)
      BY <1>2, <1>3, <1>5, <2>7, ReadSucceeds
    <3> QED BY <2>3, <2>7, <3>1, <3>2
  <2>8. CASE r.code \notin {"REQUEST_OPEN", "REQUEST_WRITE", "REQUEST_READ", "REQUEST_LSEEK"}
    <3>1. value >= 0
      BY <2>1, <2>2, <2>8 DEF RightAnswer
    <3>2. Succeeded(c) <=> value >= 0
      BY <1>2, <1>3, <1>5, <2>8, TestSucceeds
    <3> QED BY <2>3, <2>8, <3>1, <3>2
  <2> QED BY <2>4, <2>5, <2>6, <2>7, <2>8
<1>6. ASSUME session[c] = "over" PROVE ~Succeeded(c)
  <2>1. AtRace(c) /\ data = << >>
    BY <1>1, <1>4, <1>6 DEF Outcome
  <2>2. at[c] = RaceStep /\ ~Unchecked(c) /\ r = read_(fd[c], 4)
    BY <1>1, <2>1, Client1Calls DEF AtRace, Unchecked, RaceStep, NextCall
  <2>3. r.code = "REQUEST_READ"
    BY <2>2 DEF read_
  <2>4. Succeeded(c) <=> data = <<1, 1, 2>>
    BY <1>2, <1>3, <2>2, <2>3, ReadSucceeds
  <2>5. Len(<<1, 1, 2>>) = 3 /\ Len(<< >>) = 0
    OBVIOUS
  <2> QED BY <2>1, <2>4, <2>5
<1> QED BY <1>5, <1>6

\* A call that comes back keeps what is said of a client.
LEMMA ReturnsAlone ==
    ASSUME NEW c \in Sessions, ControlInv, SlotAt(c), app[c].kind = "test", TaskAt(c),
           task[c].kind \in {"client1", "client2"}, AloneAt(c), returns(c)
    PROVE  /\ AloneAt(c)' /\ root' = root
           /\ task[c].kind = "client1" => Steps(c)' = Steps(c) \/ (Steps(c) >= 13 /\ Steps(c)' >= 13)
<1> USE DEF ControlInv, VariablesOK, AloneAt
<1>1. /\ stage[c] = "work" /\ Outcome(c) /\ BackAgain(c) /\ Remembers(c) /\ at[c] \in Nat
      /\ GoesOn(c) \/ Completes(c) \/ GivesUp(c)
      /\ result' = [result EXCEPT ![c] = ResultOfCall(c)] /\ waiting[c] = NextCall(c)
  BY ReturnFacts
<1>2. /\ ~Unchecked(c) /\ ~AtRace(c) =>
             /\ Succeeded(c) <=> Answered(c)
             /\ ~Answered(c) => errno'[c] \in Short
             /\ Answered(c) /\ waiting[c].code = "REQUEST_WRITE" => ret'[c].value \in Nat
      /\ Succeeded(c) => session[c] # "over"
  BY ReturnsChecked
<1>3. /\ UNCHANGED <<app, task, left, session, root, ended, fdt>> /\ job'[c] = Idle
      /\ result'[c] = ResultOfCall(c) /\ left[c] = 0 /\ ProgramsOK
  BY <1>1 DEF BackAgain, Remembers, TaskAt, ProgramsOK
<1>4. euid' = euid
  BY DEF returns, ComesBack, ReturnsAnswer, ReturnsFailure, Return, kernelVars
<1>5. stage'[c] \in {"work", "menu"}
      /\ (stage'[c] = "work" <=> GoesOn(c)) /\ (GoesOn(c) => at'[c] = at[c] + 1)
      /\ (~GoesOn(c) => at' = at)
  <2>1. GoesOn(c) => stage'[c] = "work" /\ at'[c] = at[c] + 1
    BY <1>1, <1>3 DEF GoesOn, ProgramsOK
  <2>2. Completes(c) \/ GivesUp(c) => stage'[c] = "menu" /\ at' = at
    BY <1>3 DEF Completes, GivesUp, GoTo, ProgramsOK
  <2>3. GoesOn(c) \/ Completes(c) \/ GivesUp(c)
    BY <1>1
  <2> QED BY <2>1, <2>2, <2>3
<1>6. UserAt(c)'
  BY <1>1, <1>3, <1>4, <1>5 DEF UserAt
<1>7. SessionAt(c)'
  BY <1>2, <1>3, <1>5 DEF SessionAt, GoesOn
<1>8. WellAt(c)'
  BY <1>3 DEF WellAt, Idle
<1>9. Succeeded(c) => result'[c] >= 0
  <2> SUFFICES ASSUME Succeeded(c) PROVE result'[c] >= 0
    OBVIOUS
  <2>1. CASE waiting[c].code = "REQUEST_WRITE"
    <3>1. ~Unchecked(c) /\ ~AtRace(c)
      <4>1. task[c].kind = "client1" /\ at[c] \in 20..22 => waiting[c].code # "REQUEST_WRITE"
        <5>1. task[c].kind = "client1" /\ at[c] \in 20..22 =>
                waiting[c] \in {open_(task[c].shared, {"RD"}), read_(fd[c], 4), close_(fd[c])}
          <6> PICK l : l = CallsOf(task[c], fd[c], size[c])
            OBVIOUS
          <6>1. waiting[c] = l[at[c]]
            BY <1>1 DEF NextCall
          <6>2. task[c].kind = "client1" =>
                  l[20] = open_(task[c].shared, {"RD"}) /\ l[21] = read_(fd[c], 4) /\ l[22] = close_(fd[c])
            BY Client1Calls
          <6> QED BY <1>1, <6>1, <6>2
        <5> QED BY <5>1 DEF open_, read_, close_
      <4> QED BY <2>1, <4>1 DEF Unchecked, AtRace, RaceStep
    <3> QED BY <1>2, <1>3, <2>1, <3>1 DEF ResultOfCall
  <2>2. CASE waiting[c].code # "REQUEST_WRITE"
    <3>1. result'[c] = result[c]
      BY <1>3, <2>2 DEF ResultOfCall
    <3> QED BY <1>1, <3>1 DEF EndAt
  <2> QED BY <2>1, <2>2
<1>10. EndAt(c)'
  <2>1. CASE Succeeded(c)
    <3>1. result'[c] >= 0 /\ result'[c] # -1
      BY <1>9, <2>1
    <3> QED BY <3>1 DEF EndAt
  <2>2. CASE ~Succeeded(c)
    <3>1. ~Unchecked(c) /\ stage'[c] # "work" /\ at' = at
      BY <1>5, <2>2 DEF Succeeded, Succeeds, GoesOn
    <3>2. ~AtRace(c) => errno'[c] \in Short
      BY <1>2, <2>2, <3>1
    <3>3. AtRace(c)' <=> AtRace(c)
      BY <1>3, <3>1 DEF AtRace
    <3> QED BY <3>1, <3>2, <3>3 DEF EndAt
  <2> QED BY <2>1, <2>2
<1>11. PositionAt(c)'
  <2> SUFFICES ASSUME stage'[c] = "work", task[c].kind = "client1", Taken(c)' \in {1, 4}
               PROVE  Position(c)' = 0
    BY <1>3 DEF PositionAt
  <2>1. GoesOn(c) /\ Taken(c)' = at[c] /\ Current(c)' = fd'[c]
    BY <1>5, AfterReturn
  <2>2. ~Unchecked(c) /\ ~AtRace(c) /\ at[c] \in {1, 4}
    BY <2>1 DEF Unchecked, AtRace, RaceStep
  <2>3. Answered(c) /\ Taken(c) = at[c]
    BY <1>1, <1>2, <2>1, <2>2 DEF GoesOn, Taken
  <2>4. waiting[c].code = "REQUEST_OPEN"
    <3>1. waiting[c] \in {open_(task[c].file, {"WR", "CREAT"}), open_(task[c].file, {"RD"})}
      <4> PICK l : l = CallsOf(task[c], fd[c], size[c])
        OBVIOUS
      <4>1. waiting[c] = l[at[c]]
        BY <1>1 DEF NextCall
      <4>2. l[1] = open_(task[c].file, {"WR", "CREAT"}) /\ l[4] = open_(task[c].file, {"RD"})
        BY Client1Calls
      <4> QED BY <2>2, <4>1, <4>2
    <3> QED BY <3>1 DEF open_
  <2>5. Current(c)' = Current(c)
    BY <2>1, <2>2, <2>4, AfterReturn
  <2>6. Position(c) = 0
    BY <1>1, <2>2, <2>3 DEF PositionAt
  <2> QED BY <1>3, <2>5, <2>6 DEF Position
<1>12. ASSUME task[c].kind = "client1"
       PROVE  Steps(c)' = Steps(c) \/ (Steps(c) >= 13 /\ Steps(c)' >= 13)
  <2>1. Steps(c) = Taken(c) /\ Steps(c)' = Taken(c)'
    BY <1>3 DEF Steps
  <2>2. Taken(c) = IF Answered(c) THEN at[c] ELSE at[c] - 1
    BY <1>1 DEF Taken
  <2>3. Taken(c)' = IF Succeeded(c) THEN at[c] ELSE at[c] - 1
    <3>1. CASE GoesOn(c)
      BY <3>1, AfterReturn DEF GoesOn
    <3>2. CASE ~GoesOn(c)
      <4>1. stage'[c] = "menu" /\ at' = at
        BY <1>5, <3>2
      <4>2. Succeeded(c) <=> result'[c] # -1
        BY <1>3, <1>9 DEF ResultOfCall
      <4> QED BY <4>1, <4>2 DEF Taken
    <3> QED BY <3>1, <3>2
  <2>4. Unchecked(c) \/ AtRace(c) => at[c] \in 20..22
    BY DEF Unchecked, AtRace, RaceStep
  <2>5. CASE Unchecked(c) \/ AtRace(c)
    BY <2>1, <2>2, <2>3, <2>4, <2>5
  <2>6. CASE ~Unchecked(c) /\ ~AtRace(c)
    BY <1>2, <2>1, <2>2, <2>3, <2>6
  <2> QED BY <2>5, <2>6
<1> QED BY <1>3, <1>6, <1>7, <1>8, <1>10, <1>11, <1>12

\* So does the end of a session.
LEMMA QuietAlone ==
    ASSUME NEW c \in Sessions, ControlInv, SlotAt(c), app[c].kind = "test", TaskAt(c),
           task[c].kind \in {"client1", "client2"} \/ stage[c] # "work",
           AloneAt(c), ServerActs(c), ~(Executes(c) /\ stage[c] = "work")
    PROVE  AloneAt(c)'
<1> USE DEF ControlInv, VariablesOK, AloneAt
<1>1. SameApps /\ ClientAt(c) /\ RemoteOK
  BY AppsKept
<1>2. ~Executes(c)
  <2>1. Executes(c) => stage[c] \in {"work", "closing"}
    BY ExecutesCases
  <2> QED BY <2>1 DEF UserAt
<1>3. SessionEnds(c) \/ Releases(c) \/ Drops(c)
  BY <1>2 DEF ServerActs, SystemActs
<1>4. /\ euid' = euid /\ root' = root /\ errno' = errno /\ ended' = ended /\ waiting' = waiting
      /\ session[c] = "none" <=> session'[c] = "none"
      /\ job'[c] \in {job[c], Idle}
      /\ session'[c] = session[c] \/ SessionEnds(c)
  BY <1>1, <1>3 DEF SessionEnds, Releases, Drops, SysClose, kernelVars, apiVars, RemoteOK, OfClients
<1>5. /\ stage' = stage /\ task' = task /\ at' = at /\ left' = left /\ result' = result /\ fd' = fd
      /\ (AtRace(c)' <=> AtRace(c)) /\ (Unchecked(c)' <=> Unchecked(c))
  BY <1>1 DEF SameApps, AtRace, Unchecked
<1>6. UserAt(c)' /\ EndAt(c)'
  BY <1>4, <1>5 DEF UserAt, EndAt
<1>7. WellAt(c)'
  BY <1>4, <1>5 DEF WellAt, RightAnswer, Idle
<1>8. ASSUME SessionEnds(c), ~ended[c] PROVE AtRace(c) /\ left[c] = 0 /\ stage[c] = "work"
  <2>1. session[c] = "on" /\ job[c].phase = "pending" /\ job[c].request.code = "REQUEST_READ"
        /\ ~Fit(c, {"RD"})
    BY <1>8 DEF SessionEnds, Pending
  <2>2. waiting[c] = Calling(c) /\ Arg(c) = waiting[c] /\ stage[c] = "work"
    BY <2>1, PendingFacts DEF UserAt
  <2>3. waiting[c] = NextCall(c) /\ waiting[c].code = "REQUEST_READ" /\ left[c] = 0
    BY <2>1, <2>2 DEF Calling, Arg, TaskAt
  <2>4. task[c].kind = "client1" /\ at[c] \in {5, 21}
    <3>1. Loose(c)
      BY <2>2, <2>3, TestCalls
    <3>2. task[c].kind = "client2" /\ at[c] = 5 => waiting[c] = close_(fd[c])
      BY <2>3, Client2Calls DEF NextCall
    <3>3. task[c].kind = "client1" =>
            /\ at[c] = 2 => waiting[c] = write_(fd[c], task[c].data)
            /\ at[c] = 8 => waiting[c] = lseek_(fd[c], 0, "END")
            /\ at[c] = 20 => waiting[c] = open_(task[c].shared, {"RD"})
            /\ at[c] = 22 => waiting[c] = close_(fd[c])
      BY <2>3, Client1Calls DEF NextCall
    <3> QED BY <2>3, <3>1, <3>2, <3>3 DEF Loose, close_, write_, lseek_, open_
  <2>5. at[c] # 5
    <3> SUFFICES ASSUME at[c] = 5 PROVE FALSE
      OBVIOUS
    <3> PICK o : o = Opened(task[c], 4)
      OBVIOUS
    <3>1. o = open_(task[c].file, {"RD"}) /\ o # NoCall /\ o.oflag = {"RD"}
      BY <2>4, OpensAreCalls DEF Opened, open_
    <3>2. Taken(c) = 4 /\ Current(c) = fd[c]
      BY <2>1, <2>2 DEF Taken, Current, Answered
    <3>3. OpenAs(c, fd[c], o)
      BY <2>2, <3>1, <3>2 DEF SlotAt
    <3>4. waiting[c].fd = fd[c]
      <4>1. waiting[c] = read_(fd[c], Len(task[c].data))
        BY <2>3, <2>4, Client1Calls DEF NextCall
      <4> QED BY <4>1 DEF read_
    <3> QED BY <2>1, <2>2, <3>1, <3>3, <3>4 DEF OpenAs, Fit
  <2> QED BY <2>2, <2>3, <2>4, <2>5 DEF AtRace, RaceStep
<1>9. SessionAt(c)'
  BY <1>4, <1>5, <1>8 DEF SessionAt
<1>10. PositionAt(c)'
  <2> SUFFICES ASSUME stage[c] = "work", task[c].kind = "client1", Taken(c)' \in {1, 4}
               PROVE  Position(c)' = 0
    BY <1>5 DEF PositionAt
  <2>1. ~ended[c] /\ ~Drops(c) /\ at[c] \in Nat
    BY <1>1 DEF ClientAt, StageAt, Drops, ProgramsOK
  <2>2. ~AtRace(c)
    <3>1. Taken(c)' \in {at[c] - 1, at[c]}
      BY <1>5 DEF Taken
    <3> QED BY <2>1, <3>1 DEF AtRace, RaceStep
  <2>3. ~SessionEnds(c)
    BY <1>8, <2>1, <2>2
  <2>4. ~Releases(c)
    BY <2>1, <2>2 DEF Releases, SessionAt
  <2> QED BY <1>3, <2>1, <2>3, <2>4
<1> QED BY <1>6, <1>7, <1>9, <1>10

\* A step that spares the file of client 1 and brings client 1 neither to its
\* write nor past its removal.
LEMMA FileKept ==
    ASSUME NEW c \in Sessions, NEW t, FileAt(c, t), KeepsShared(t.file),
           Steps(c)' \in 1..12 => Named(root[c], t.file)',
           \A D \in Dirs : StepsIn(c, D)' \in 2..12 <=> StepsIn(c, D) \in 2..12
    PROVE  FileAt(c, t)'
<1> PICK s : s = t.file
  OBVIOUS
<1>1. ASSUME NEW D \in Dirs, Named(D, s)'
      PROVE  In(D, s)' = IF StepsIn(c, D)' \in 2..12 THEN t.data ELSE << >>
  <2>1. CASE Named(D, s)
    <3>1. In(D, s)' = In(D, s)
      BY <2>1 DEF KeepsShared, In
    <3>2. In(D, s) = IF StepsIn(c, D) \in 2..12 THEN t.data ELSE << >>
      BY <2>1 DEF FileAt
    <3> QED BY <3>1, <3>2
  <2>2. CASE ~Named(D, s)
    <3>1. In(D, s)' = << >>
      BY <1>1, <2>2 DEF KeepsShared, In, Named
    <3>2. ~(StepsIn(c, D) \in 2..12)
      <4>1. StepsIn(c, D) \in 2..12 => D = root[c] /\ Steps(c) \in 1..12
        BY DEF StepsIn
      <4> QED BY <2>2, <4>1 DEF FileAt
    <3> QED BY <3>1, <3>2
  <2> QED BY <2>1, <2>2
<1>2. Steps(c)' \in 1..12 => Named(root[c], s)'
  OBVIOUS
<1> QED BY <1>1, <1>2 DEF FileAt

\* The files of the two clients have different inodes.
LEMMA TwoFiles ==
    ASSUME NEW p \in Strings, NEW s \in Strings, p # s, IsPlain(p), IsPlain(s),
           NEW D \in Dirs, NEW F \in Dirs, UniqueNames, Named(F, p)
    PROVE  dir[Resolved(D, s)] # dir[Resolved(F, p)]
<1> PICK a, b : a = Resolved(D, s) /\ b = Resolved(F, p)
  OBVIOUS
<1>1. a \in Paths /\ b \in Paths /\ a # b
  BY NamesArePaths DEF IsPlain
<1> QED BY <1>1 DEF UniqueNames, Named

\* No other call of the test than the second and the thirteenth of client 1
\* touches its file, unless it creates it.
LEMMA FileSpared ==
    ASSUME NEW c \in Sessions, NEW d \in Sessions, NEW t \in app[c].tasks, NEW u \in app[d].tasks,
           IsTest(app, c, d, t, u), ControlInv, SlotsInv, UniqueNames, TestInv,
           NEW e \in {c, d}, ServerActs(e), Executes(e), stage[e] = "work",
           e = c => at[c] \notin {2, 13}
    PROVE  KeepsShared(t.file)
<1> PICK s, r : s = t.shared /\ r = waiting[e]
  OBVIOUS
<1>1. /\ e \in Sessions /\ app[e].kind = "test" /\ root[e] \in Dirs /\ c # d
      /\ task[e].kind \in {"client1", "client2"} /\ task[e].shared = s
      /\ (task[e].kind = "client1" <=> e = c)
      /\ s \in Strings /\ t.file \in Strings /\ t.file # s /\ IsPlain(t.file) /\ IsPlain(s)
  BY TestFacts DEF IsTest, Client1Tasks
<1>2. SlotAt(e) /\ NameAt(e) /\ KernelTypeOK
  BY <1>1 DEF SlotsInv, ControlInv, VariablesOK
<1>3. /\ r = NextCall(e) /\ CarriedOut(e, r) /\ Arg(e) = r /\ GoodCall(r)
      /\ FitsIn(r, task[e], at[e], fd[e])
  BY <1>1, BeforeCall, ExecutesCases
<1>4. /\ r.code = "REQUEST_OPEN" => "TRUNC" \notin r.oflag
      /\ r.code = "REQUEST_WRITE" =>
             \/ task[e].kind = "client1" /\ at[e] \in {2, 16, 17}
             \/ task[e].kind = "client2" /\ at[e] = 3
  BY <1>1, <1>3, TestCodes
<1>5. r.code # "REQUEST_UNLINK"
  BY <1>1, <1>3 DEF FitsIn
<1>6. ASSUME r.code = "REQUEST_WRITE", NEW D \in Dirs, Named(D, t.file)
      PROVE  fdt[e][r.fd].ino # dir[Resolved(D, t.file)]
  <2> PICK k, o : k = at[e] - 1 /\ o = Opened(task[e], k)
    OBVIOUS
  <2>1. o = SharedOpen(task[e])
    <3>1. (task[e].kind = "client1" /\ k \in 14..18) \/ (task[e].kind = "client2" /\ k \in 1..4)
      BY <1>1, <1>4, <1>6
    <3> QED BY <3>1, TestOpened
  <2>2. o # NoCall /\ o.path = s
    BY <1>1, <2>1, OpensAreCalls DEF SharedOpen, open_
  <2>3. r.fd = fd[e]
    BY <1>3, <1>6, <2>2 DEF FitsIn
  <2>4. fdt[e][fd[e]].ino = dir[Resolved(root[e], s)]
    BY <1>1, <1>2, <2>2, TestFile
  <2> QED BY <1>1, <1>6, <2>3, <2>4, TwoFiles
<1> QED BY <1>1, <1>2, <1>3, <1>4, <1>5, <1>6, CallsKeepShared

\* A byte that the test writes in its shared file has room there.
LEMMA SharedRoom ==
    ASSUME NEW c \in Sessions, NEW d \in Sessions, NEW t \in app[c].tasks, NEW u \in app[d].tasks,
           IsTest(app, c, d, t, u), ControlInv, SlotsInv, TestInv, MaxOffset >= 3,
           NEW e \in {c, d}, Executes(e), stage[e] = "work",
           e = c => at[c] \in {16, 17}, e = d => at[d] = 3
    PROVE  WriteCount(e, fd[e], waiting[e].data) = Len(waiting[e].data)
<1> PICK s : s = t.shared
  OBVIOUS
<1>1. /\ e \in Sessions /\ app[e].kind = "test" /\ root[e] \in Dirs /\ c # d /\ PairAt(c, d, s)
      /\ task[e].shared = s /\ s \in Strings /\ Steps(e) = Taken(e)
      /\ (e = c => task[e].kind = "client1") /\ (e = d => task[e].kind = "client2")
  BY TestFacts DEF IsTest
<1>2. SlotAt(e) /\ NameAt(e) /\ KernelTypeOK
  BY <1>1 DEF SlotsInv, ControlInv, VariablesOK
<1>3. waiting[e] = NextCall(e) /\ Taken(e) = at[e] - 1 /\ ~Refused(e)
  BY <1>1, BeforeCall
<1> PICK k, o : k = at[e] - 1 /\ o = Opened(task[e], k)
  OBVIOUS
<1>4. o = SharedOpen(task[e])
  <2>1. (task[e].kind = "client1" /\ k \in 14..18) \/ (task[e].kind = "client2" /\ k \in 1..4)
    BY <1>1
  <2> QED BY <2>1, TestOpened
<1>5. o # NoCall /\ o.path = s /\ "APPEND" \in o.oflag
  BY <1>1, <1>4, OpensAreCalls DEF SharedOpen, open_
<1> PICK g, i : g = fd[e] /\ i = fdt[e][g].ino
  OBVIOUS
<1>6. g \in Fds /\ i \in Inodes /\ fdt[e][g].append /\ i = dir[Resolved(root[e], s)]
  <2>1. /\ g \in Fds /\ IsFile(e, g) /\ fdt[e][g].ino \in Inodes
        /\ fdt[e][g].ino = dir[Resolved(root[e], o.path)]
        /\ fdt[e][g].append = ("APPEND" \in o.oflag)
        /\ fdt[e][g].rights = o.oflag \cap {"RD", "WR"}
    BY <1>1, <1>2, <1>5, TestFile
  <2> QED BY <1>5, <2>1
<1>7. Len(content[i]) <= 2
  <2> PICK n, m, w : n = StepsIn(c, root[e]) /\ m = StepsIn(d, root[e]) /\ w = Writing(c)
    OBVIOUS
  <2>1. n \in Int /\ m \in Int
    BY StepsType DEF StepsIn, ControlInv, VariablesOK, ClientAt
  <2>2. Holds(content[i], n, m, w)
    BY <1>1, <1>6, KernelAssumption DEF PairAt, SharedAt, Named, In, NoInode
  <2>3. n \in {15, 16} \/ m = 2
    BY <1>1, <1>3 DEF StepsIn
  <2> QED BY <2>1, <2>2, <2>3, HoldsTwo
<1>8. Len(content[i]) < MaxOffset
  BY <1>2, <1>6, <1>7, KernelAssumption DEF KernelTypeOK
<1>9. PICK x \in Nat : waiting[e] = write_(g, <<x>>)
  <2>1. e = c => waiting[e] = write_(g, <<1>>)
    BY <1>1, <1>3, Client1Calls DEF NextCall
  <2>2. e = d => waiting[e] = write_(g, <<2>>)
    BY <1>1, <1>3, Client2Calls DEF NextCall
  <2> QED BY <2>1, <2>2
<1>10. waiting[e].data = <<x>>
  BY <1>9 DEF write_
<1>11. WriteCount(e, g, <<x>>) = Len(<<x>>)
  BY <1>1, <1>2, <1>6, <1>8, ByteFits
<1> QED BY <1>10, <1>11

\* What the system does for the test, whose calls end as the test expects.
LEMMA ExecutesAlone ==
    ASSUME TestMaySucceed,
           NEW c \in Sessions, NEW d \in Sessions, NEW t \in app[c].tasks, NEW u \in app[d].tasks,
           IsTest(app, c, d, t, u), ControlInv, SlotsInv, UniqueNames, TestInv, WellInv,
           NEW e \in {c, d}, ServerActs(e), Executes(e), stage[e] = "work"
    PROVE  /\ AloneAt(e)'
           /\ ~Unchecked(e) /\ ~AtRace(e) /\ Failed(e) => waiting[e].code = "REQUEST_OPEN"
           /\ e = c /\ at[c] = 2 /\ ~Failed(c) =>
                  /\ Named(root[c], t.file) /\ dir' = dir
                  /\ content' = [content EXCEPT ![dir[Resolved(root[c], t.file)]] = t.data]
<1> PICK r, g, D0 : r = waiting[e] /\ g = fd[e] /\ D0 = root[e]
  OBVIOUS
<1>1. /\ e \in Sessions /\ app[e].kind = "test" /\ D0 \in Dirs /\ c # d
      /\ task[e].kind \in {"client1", "client2"} /\ task[e].shared = t.shared
      /\ (e = c => task[e] = t /\ task[e].kind = "client1")
      /\ (e = d => task[e] = u /\ task[e].kind = "client2")
      /\ t.file \in Strings /\ t.data \in Seq(Nat) /\ Steps(e) = Taken(e)
  BY TestFacts DEF IsTest, Client1Tasks
<1>2. SlotAt(e) /\ NameAt(e) /\ KernelTypeOK /\ AloneAt(e) /\ FileAt(c, t)
  BY <1>1 DEF SlotsInv, ControlInv, VariablesOK, WellInv
<1>3. /\ r = NextCall(e) /\ CarriedOut(e, r) /\ Arg(e) = r /\ GoodCall(r) /\ Taken(e) = at[e] - 1
      /\ at[e] \in Nat /\ Current(e) = g /\ ~Answered(e) /\ session[e] = "on"
      /\ session' = session /\ root' = root
  BY <1>1, BeforeCall, ExecutesCases
<1>4. /\ MaxOffset >= 3 /\ Len(t.data) <= MaxOffset
      /\ \A right \in Rights : May(e, Resolved(D0, t.file), right) /\ May(e, Resolved(D0, t.shared), right)
  BY <1>1, <1>2, <1>3, TestAllowed DEF AloneAt, ControlInv, VariablesOK
<1>5. SameApps /\ euid' = euid /\ errno' = errno /\ ended' = ended
  <2>1. Executed(e)
    BY <1>1, OpenExecuted, CloseExecuted, ReadExecuted, WriteExecuted, LseekExecuted, FstatExecuted,
       UnlinkExecuted, FlockExecuted, FlockEndsExecuted DEF Executes
  <2> QED BY <1>1, <2>1, AppsKept DEF Executed
<1> PICK i : i = dir[Resolved(D0, t.file)]
  OBVIOUS
<1>6. ASSUME e = c, at[c] \in {2, 5, 8}
      PROVE  /\ g \in Fds /\ i \in Inodes /\ fdt[e][g].ino = i /\ Named(D0, t.file)
             /\ at[c] = 2 => ~fdt[e][g].append /\ fdt[e][g].pos = 0 /\ content[i] = << >>
             /\ at[c] = 5 => fdt[e][g].pos = 0
             /\ at[c] # 2 => content[i] = t.data
  <2> PICK k, o : k = at[e] - 1 /\ o = Opened(task[e], k)
    OBVIOUS
  <2>1. k \in {1, 4, 7} /\ Steps(c) = k
    BY <1>1, <1>3, <1>6
  <2>2. /\ o # NoCall /\ o.path = t.file /\ "APPEND" \notin o.oflag
    <3>1. o \in {open_(t.file, {"RD"}), open_(t.file, {"WR", "CREAT"})}
      BY <1>1, <1>6, <2>1 DEF Opened
    <3> QED BY <3>1, OpensAreCalls DEF open_
  <2>3. g \in Fds /\ i \in Inodes /\ fdt[e][g].ino = i /\ ~fdt[e][g].append
    <3>1. /\ g \in Fds /\ IsFile(e, g) /\ fdt[e][g].ino \in Inodes
          /\ fdt[e][g].ino = dir[Resolved(root[e], o.path)]
          /\ fdt[e][g].append = ("APPEND" \in o.oflag)
          /\ fdt[e][g].rights = o.oflag \cap {"RD", "WR"}
      BY <1>1, <1>2, <2>2, TestFile
    <3> QED BY <2>2, <3>1
  <2>4. Named(D0, t.file)
    BY <1>6, <2>1, <1>2 DEF FileAt
  <2>5. content[i] = IF k = 1 THEN << >> ELSE t.data
    BY <1>1, <1>2, <1>6, <2>1, <2>4 DEF FileAt, In, StepsIn
  <2>6. k # 7 => fdt[e][g].pos = 0
    BY <1>1, <1>2, <1>3, <1>6, <2>1 DEF AloneAt, PositionAt, Position
  <2> QED BY <1>6, <2>1, <2>3, <2>4, <2>5, <2>6
<1>7. ASSUME e = c, at[c] = 2
      PROVE  /\ r = write_(g, t.data) /\ WriteCount(e, g, t.data) = Len(t.data)
             /\ ~Failed(c) => dir' = dir /\ content' = [content EXCEPT ![i] = t.data]
  <2>1. r = write_(g, t.data) /\ r.code = "REQUEST_WRITE" /\ r.fd = g /\ r.data = t.data
    <3>1. r = write_(g, t.data)
      BY <1>1, <1>3, <1>7, Client1Calls DEF NextCall
    <3> QED BY <3>1 DEF write_
  <2>2. /\ g \in Fds /\ i \in Inodes /\ fdt[e][g].ino = i
        /\ ~fdt[e][g].append /\ fdt[e][g].pos = 0 /\ content[i] = << >>
    BY <1>6, <1>7
  <2>3. /\ WriteCount(e, g, t.data) = Len(t.data)
        /\ SysWrite(e, g, t.data) => dir' = dir /\ content' = [content EXCEPT ![i] = t.data]
    <3>1. e \in Sessions /\ t.data \in Seq(Nat) /\ KernelTypeOK /\ Len(t.data) <= MaxOffset
      BY <1>1, <1>2, <1>4
    <3> QED BY ONLY <2>2, <3>1, WholeFileWritten
  <2>4. ~Failed(c) => SysWrite(e, g, t.data)
    <3>1. ~Failed(c) => WriteDone(e, r)
      BY <1>3, <1>7, <2>1 DEF CarriedOut, OpenDone, CloseDone, ReadDone, LseekDone, FstatDone,
                              UnlinkDone, FlockDone, FlockWaits
    <3> QED BY <2>1, <3>1 DEF WriteDone
  <2> QED BY <2>1, <2>3, <2>4
<1>8. ~Unchecked(e) /\ ~AtRace(e) => WellAt(e)' /\ (Failed(e) => r.code = "REQUEST_OPEN")
  <2> SUFFICES ASSUME ~Unchecked(e), ~AtRace(e)
               PROVE  WellAt(e)' /\ (Failed(e) => r.code = "REQUEST_OPEN")
    OBVIOUS
  <2>1. /\ r.code = "REQUEST_OPEN" =>
               \/ r.path = t.shared /\ "CREAT" \in r.oflag
               \/ e = c /\ r.path = t.file /\ ("CREAT" \in r.oflag \/ at[c] \in 2..12)
        /\ r.code = "REQUEST_READ" => e = c /\ at[c] = 5
        /\ r.code = "REQUEST_LSEEK" => e = c /\ at[c] = 8
        /\ r.code = "REQUEST_UNLINK" => e = c /\ at[c] = 13 /\ r.path = t.file
    BY <1>1, <1>3, TestUses
  <2>2. at[c] \in 2..13 /\ e = c => Named(D0, t.file)
    BY <1>1, <1>2, <1>3 DEF FileAt
  <2>3. r.code \in {"REQUEST_OPEN", "REQUEST_UNLINK"} => \A right \in Rights : May(e, Resolved(D0, r.path), right)
    BY <1>4, <2>1
  <2>4. r.code = "REQUEST_OPEN" => Named(D0, r.path) \/ "CREAT" \in r.oflag
    BY <2>1, <2>2
  <2>5. r.code = "REQUEST_UNLINK" => Named(D0, r.path)
    BY <2>1, <2>2
  <2>6. r.code = "REQUEST_WRITE" => WriteCount(e, g, r.data) = Len(r.data)
    <3>1. r.code = "REQUEST_WRITE" =>
            (e = c /\ at[c] \in {2, 16, 17}) \/ (e = d /\ at[d] = 3)
      BY <1>1, <1>3, TestCodes
    <3>2. e = c /\ at[c] = 2 => WriteCount(e, g, r.data) = Len(r.data)
      BY <1>7 DEF write_
    <3>3. (e = c /\ at[c] \in {16, 17}) \/ (e = d /\ at[d] = 3) =>
            WriteCount(e, g, r.data) = Len(r.data)
      BY <1>1, <1>4, SharedRoom
    <3> QED BY <3>1, <3>2, <3>3
  <2>7. r.code = "REQUEST_READ" => ReadData(e, g, r.size) = task[e].data
    <3> SUFFICES ASSUME e = c, at[c] = 5 PROVE ReadData(e, g, r.size) = t.data
      BY <1>1, <2>1
    <3>1. r.size = Len(t.data)
      <4>1. r = read_(g, Len(t.data))
        BY <1>1, <1>3, Client1Calls DEF NextCall
      <4> QED BY <4>1 DEF read_
    <3>2. g \in Fds /\ i \in Inodes /\ fdt[e][g].ino = i /\ fdt[e][g].pos = 0 /\ content[i] = t.data
      BY <1>6
    <3>3. ReadData(e, g, Len(content[i])) = content[i]
      BY <1>1, <1>2, <3>2, WholeFileRead
    <3> QED BY <3>1, <3>2, <3>3
  <2>8. r.code = "REQUEST_LSEEK" => Target(e) = Len(task[e].data) /\ Target(e) \in 0..MaxOffset
    <3> SUFFICES ASSUME e = c, at[c] = 8 PROVE Target(e) = Len(t.data) /\ Target(e) \in 0..MaxOffset
      BY <1>1, <2>1
    <3>1. r = lseek_(g, 0, "END")
      BY <1>1, <1>3, Client1Calls DEF NextCall
    <3>2. Target(e) = SeekTarget(e, g, 0, "END")
      BY <1>3, <3>1 DEF Target, lseek_
    <3>3. g \in Fds /\ i \in Inodes /\ fdt[e][g].ino = i /\ content[i] = t.data
      BY <1>6
    <3>4. Target(e) = Len(t.data)
      BY <1>1, <1>2, <3>2, <3>3, SeekTargets
    <3>5. Len(t.data) \in Nat /\ MaxOffset \in Nat
      BY <1>1, KernelAssumption
    <3> QED BY <1>4, <3>4, <3>5
  <2> QED BY <1>1, <1>2, <2>3, <2>4, <2>5, <2>6, <2>7, <2>8, AnswersWell
<1>9. /\ (Unchecked(e)' <=> Unchecked(e)) /\ (AtRace(e)' <=> AtRace(e))
      /\ stage' = stage /\ task' = task /\ at' = at /\ left' = left /\ result' = result /\ fd' = fd
  BY <1>5 DEF SameApps, Unchecked, AtRace
<1>10. UserAt(e)' /\ SessionAt(e)' /\ EndAt(e)'
  BY <1>2, <1>3, <1>5, <1>9 DEF AloneAt, UserAt, SessionAt, EndAt
<1>11. WellAt(e)'
  BY <1>8, <1>9 DEF WellAt
<1>12. PositionAt(e)'
  <2> SUFFICES ASSUME task[e].kind = "client1", Taken(e)' \in {1, 4} PROVE Position(e)' = 0
    BY <1>9 DEF PositionAt
  <2>1. /\ Failed(e) \/ FlockWaits(e, r) => Taken(e)' = at[e] - 1
        /\ ~Failed(e) /\ ~FlockWaits(e, r) => Taken(e)' = at[e]
        /\ r.code = "REQUEST_OPEN" /\ ~Failed(e) => Current(e)' = job'[e].value
    BY <1>1, AfterCall
  <2>2. at[e] \in {1, 2, 4, 5} /\ ~Unchecked(e) /\ ~AtRace(e)
    BY <1>3, <2>1 DEF Unchecked, AtRace, RaceStep
  <2>3. /\ at[e] \in {1, 4} => r.code = "REQUEST_OPEN" /\ "TRUNC" \notin r.oflag
        /\ at[e] = 2 => r.code = "REQUEST_WRITE"
        /\ at[e] = 5 => r.code = "REQUEST_READ"
    <3>1. /\ at[e] = 1 => r = open_(task[e].file, {"WR", "CREAT"})
          /\ at[e] = 4 => r = open_(task[e].file, {"RD"})
          /\ at[e] = 2 => r = write_(g, task[e].data)
          /\ at[e] = 5 => r = read_(g, Len(task[e].data))
      <4> PICK l : l = CallsOf(task[e], g, size[e])
        OBVIOUS
      <4>1. r = l[at[e]]
        BY <1>3 DEF NextCall
      <4>2. /\ l[1] = open_(task[e].file, {"WR", "CREAT"}) /\ l[4] = open_(task[e].file, {"RD"})
            /\ l[2] = write_(g, task[e].data) /\ l[5] = read_(g, Len(task[e].data))
        BY Client1Calls
      <4> QED BY <4>1, <4>2
    <3> QED BY <3>1 DEF open_, write_, read_
  <2>4. r.code = "REQUEST_OPEN" /\ ~Failed(e)
    <3>1. ~FlockWaits(e, r)
      BY <2>2, <2>3 DEF FlockWaits
    <3>2. at[e] \in {2, 5} => ~Failed(e)
      BY <1>8, <2>2, <2>3
    <3> QED BY <2>1, <2>2, <2>3, <3>1, <3>2
  <2>5. OpenDone(e, r)
    BY <1>3, <2>4 DEF CarriedOut, CloseDone, ReadDone, WriteDone, LseekDone, FstatDone, UnlinkDone,
                      FlockDone, FlockWaits
  <2> PICK p : p = Resolved(root[e], r.path)
    OBVIOUS
  <2>6. PICK h \in Fds : OpenAt(e, p, r.oflag, h) /\ job'[e] = Done(h, "0", << >>)
    BY <2>5 DEF OpenDone
  <2>7. p \in Paths
    BY <1>1, <1>3, <2>4, NamesArePaths DEF GoodCall
  <2>8. fdt'[e][h].pos = 0
    BY <1>1, <1>2, <2>6, <2>7, FileOpened
  <2>9. Current(e)' = h
    BY <2>1, <2>4, <2>6 DEF Done
  <2> QED BY <2>8, <2>9 DEF Position
<1>13. e = c /\ at[c] = 2 /\ ~Failed(c) => Named(root[c], t.file)
  BY <1>6
<1> QED BY <1>7, <1>8, <1>10, <1>11, <1>12, <1>13 DEF AloneAt

\* What client 1 has the system do to its file.
LEMMA ExecutesFile ==
    ASSUME TestMaySucceed,
           NEW c \in Sessions, NEW d \in Sessions, NEW t \in app[c].tasks, NEW u \in app[d].tasks,
           IsTest(app, c, d, t, u), ControlInv, SlotsInv, UniqueNames, TestInv, WellInv,
           ServerActs(c), Executes(c), stage[c] = "work"
    PROVE  FileAt(c, t)'
<1> PICK s, r, D0 : s = t.file /\ r = waiting[c] /\ D0 = root[c]
  OBVIOUS
<1>1. /\ app[c].kind = "test" /\ D0 \in Dirs /\ task[c] = t /\ task[c].kind = "client1"
      /\ s \in Strings /\ Steps(c) = Taken(c) /\ IsPlain(s)
  BY TestFacts DEF IsTest, Client1Tasks
<1>2. TaskAt(c) /\ left[c] = 0 /\ KernelTypeOK /\ FileAt(c, t)
  BY <1>1 DEF TestInv, TaskAt, ControlInv, VariablesOK, WellInv
<1>3. /\ r = NextCall(c) /\ CarriedOut(c, r) /\ GoodCall(r) /\ Taken(c) = at[c] - 1
      /\ root' = root
  BY <1>1, BeforeCall, ExecutesCases
<1>4. at[c] \in 1..22
  BY <1>1, TestCalls
<1>5. /\ Steps(c)' = Taken(c)'
      /\ Failed(c) \/ FlockWaits(c, r) => Taken(c)' = at[c] - 1
      /\ ~Failed(c) /\ ~FlockWaits(c, r) => Taken(c)' = at[c]
  BY <1>2, AppsKept, AfterCall DEF SameApps, Steps
<1>6. Steps(c) = at[c] - 1 /\ Steps(c)' \in {at[c] - 1, at[c]}
  BY <1>1, <1>3, <1>5
<1>7. ASSUME NEW D \in Dirs
      PROVE  /\ D = D0 => StepsIn(c, D) = Steps(c) /\ StepsIn(c, D)' = Steps(c)'
             /\ D # D0 => StepsIn(c, D) = 0 /\ StepsIn(c, D)' = 0
  BY <1>3 DEF StepsIn
<1>8. ASSUME NEW D \in Dirs, Named(D, s), StepsIn(c, D) = 0 PROVE In(D, s) = << >>
  <2>1. In(D, s) = IF StepsIn(c, D) \in 2..12 THEN t.data ELSE << >>
    BY <1>2, <1>8 DEF FileAt
  <2>2. ~(StepsIn(c, D) \in 2..12)
    BY <1>8
  <2> QED BY <2>1, <2>2
<1>9. ASSUME at[c] \in {2, 13} PROVE ~Failed(c) /\ ~FlockWaits(c, r)
  <2>1. ~Unchecked(c) /\ ~AtRace(c)
    BY <1>9 DEF Unchecked, AtRace, RaceStep
  <2>2. r.code \notin {"REQUEST_OPEN", "REQUEST_FLOCK"}
    <3>1. (at[c] = 2 => r = write_(fd[c], t.data)) /\ (at[c] = 13 => r = unlink_(s))
      BY <1>1, <1>3, Client1Calls DEF NextCall
    <3> QED BY <1>9, <3>1 DEF write_, unlink_
  <2> QED BY <2>1, <2>2, ExecutesAlone DEF FlockWaits
<1>10. CASE at[c] = 2
  <2> PICK p, i : p = Resolved(D0, s) /\ i = dir[p]
    OBVIOUS
  <2>1. dir' = dir /\ i # NoInode /\ content' = [content EXCEPT ![i] = t.data] /\ p \in Paths
    BY <1>1, <1>9, <1>10, ExecutesAlone, NamesArePaths DEF Named
  <2>2. Steps(c)' = 2 /\ Steps(c) = 1
    BY <1>5, <1>6, <1>9, <1>10
  <2>3. ASSUME NEW D \in Dirs, Named(D, s)'
        PROVE  In(D, s)' = IF StepsIn(c, D)' \in 2..12 THEN t.data ELSE << >>
    <3> PICK q : q = Resolved(D, s)
      OBVIOUS
    <3>1. q \in Paths /\ dir[q] # NoInode /\ dir[q] \in Inodes /\ Named(D, s) /\ In(D, s) = content[dir[q]]
          /\ In(D, s)' = content'[dir[q]]
      BY <1>1, <1>2, <2>1, <2>3, NamesArePaths DEF Named, In, KernelTypeOK
    <3>2. CASE D = D0
      BY <1>2, <1>7, <2>1, <2>2, <3>1, <3>2 DEF KernelTypeOK
    <3>3. CASE D # D0
      <4>1. dir[q] # i
        <5>1. q # p
          BY <1>1, <3>3 DEF IsPlain
        <5> QED BY <2>1, <3>1, <5>1 DEF UniqueNames
      <4>2. content'[dir[q]] = content[dir[q]]
        BY <1>2, <2>1, <3>1, <4>1 DEF KernelTypeOK
      <4>3. StepsIn(c, D) = 0 /\ StepsIn(c, D)' = 0
        BY <1>7, <3>3
      <4>4. In(D, s) = << >>
        BY <1>8, <3>1, <4>3
      <4> QED BY <3>1, <4>2, <4>3, <4>4
    <3> QED BY <3>2, <3>3
  <2>4. Named(root[c], s)'
    BY <1>3, <2>1 DEF Named
  <2> QED BY <2>3, <2>4 DEF FileAt
<1>11. CASE at[c] = 13
  <2> PICK p : p = Resolved(D0, s)
    OBVIOUS
  <2>1. r.code = "REQUEST_UNLINK" /\ r.path = s
    <3>1. r = unlink_(s)
      BY <1>1, <1>3, <1>11, Client1Calls DEF NextCall
    <3> QED BY <3>1 DEF unlink_
  <2>2. UnlinkDone(c, r)
    BY <1>3, <1>9, <1>11, <2>1 DEF CarriedOut, OpenDone, CloseDone, ReadDone, WriteDone, LseekDone,
                                   FstatDone, FlockDone
  <2>3. dir' = [dir EXCEPT ![p] = NoInode] /\ content' = content /\ p \in Paths
    BY <1>1, <2>1, <2>2, NamesArePaths DEF UnlinkDone, SysUnlink
  <2>4. Steps(c)' = 13
    BY <1>5, <1>9, <1>11
  <2>5. ASSUME NEW D \in Dirs, Named(D, s)'
        PROVE  In(D, s)' = IF StepsIn(c, D)' \in 2..12 THEN t.data ELSE << >>
    <3> PICK q : q = Resolved(D, s)
      OBVIOUS
    <3>1. q \in Paths /\ dir'[q] # NoInode
      BY <1>1, <2>5, NamesArePaths DEF Named
    <3>2. q # p
      BY <1>2, <2>3, <3>1 DEF KernelTypeOK
    <3>3. dir'[q] = dir[q] /\ D # D0
      BY <1>2, <2>3, <3>1, <3>2 DEF KernelTypeOK
    <3>4. StepsIn(c, D) = 0 /\ StepsIn(c, D)' = 0
      BY <1>7, <3>3
    <3>5. In(D, s)' = In(D, s) /\ Named(D, s)
      BY <2>3, <3>1, <3>3 DEF In, Named
    <3>6. In(D, s) = << >>
      BY <1>8, <3>4, <3>5
    <3> QED BY <3>4, <3>5, <3>6
  <2> QED BY <2>4, <2>5 DEF FileAt
<1>12. CASE at[c] \notin {2, 13}
  <2>1. KeepsShared(s)
    BY <1>12, FileSpared
  <2>2. \A D \in Dirs : StepsIn(c, D)' \in 2..12 <=> StepsIn(c, D) \in 2..12
    <3>1. Steps(c)' \in 2..12 <=> Steps(c) \in 2..12
      BY <1>4, <1>6, <1>12
    <3> QED BY <1>7, <3>1
  <2>3. Steps(c)' \in 1..12 => Named(root[c], s)'
    <3> SUFFICES ASSUME Steps(c)' \in 1..12 PROVE Named(root[c], s)'
      OBVIOUS
    <3>1. CASE Steps(c) \in 1..12
      BY <1>1, <1>2, <1>3, <2>1, <3>1 DEF FileAt, KeepsShared, Named
    <3>2. CASE Steps(c) \notin 1..12
      <4>1. at[c] = 1 /\ ~Failed(c) /\ ~FlockWaits(c, r)
        BY <1>4, <1>5, <1>6, <3>2
      <4>2. r.code = "REQUEST_OPEN" /\ r.path = s
        <5>1. r = open_(s, {"WR", "CREAT"})
          BY <1>1, <1>3, <4>1, Client1Calls DEF NextCall
        <5> QED BY <5>1 DEF open_
      <4>3. OpenDone(c, r)
        BY <1>3, <4>1, <4>2 DEF CarriedOut, CloseDone, ReadDone, WriteDone, LseekDone, FstatDone,
                                UnlinkDone, FlockDone
      <4> PICK p : p = Resolved(root[c], s)
        OBVIOUS
      <4>4. PICK g \in Fds : OpenAt(c, p, r.oflag, g)
        BY <4>2, <4>3 DEF OpenDone
      <4>5. dir'[p] \in Inodes
        BY <1>1, <1>2, <4>4, FileOpened, NamesArePaths
      <4> QED BY <1>3, <4>5, KernelAssumption DEF Named, NoInode
    <3> QED BY <3>1, <3>2
  <2> QED BY <1>2, <2>1, <2>2, <2>3, FileKept
<1> QED BY <1>10, <1>11, <1>12

\* Every step keeps what the file of client 1 holds.
LEMMA FileNext ==
    ASSUME TestMaySucceed, NEW e \in Sessions, ControlInv, SlotsInv, UniqueNames, TestInv, WellInv,
           ApplicationActs(e) \/ ServerActs(e),
           NEW c \in Sessions, NEW d \in Sessions, NEW t \in app[c].tasks, NEW u \in app[d].tasks,
           IsTest(app, c, d, t, u)
    PROVE  FileAt(c, t)'
<1>1. \A f \in Sessions \ {e} : SameClient(f)
  BY NextControl DEF StepOK
<1>2. /\ app[c].kind = "test" /\ c # d /\ t.kind = "client1" /\ (stage[c] = "work" => task[c] = t)
      /\ \A f \in Sessions \ {c, d} : stage[f] # "work"
  BY TestFacts DEF IsTest
<1>3. FileAt(c, t) /\ AloneAt(c) /\ TaskAt(c) /\ ByteAt(c) /\ SlotAt(c) /\ Steps(c) \in Int
  BY <1>2, StepsType DEF WellInv, TestInv, SlotsInv, ControlInv, VariablesOK, ClientAt
<1>4. ASSUME KeepsShared(t.file), root'[c] = root[c] \/ (Steps(c) = 0 /\ Steps(c)' = 0),
             Steps(c)' = Steps(c) \/ (Steps(c) >= 13 /\ Steps(c)' >= 13)
      PROVE  FileAt(c, t)'
  <2>1. \A D \in Dirs : StepsIn(c, D)' \in 2..12 <=> StepsIn(c, D) \in 2..12
    <3>1. CASE root'[c] = root[c]
      <4>1. Steps(c)' \in 2..12 <=> Steps(c) \in 2..12
        BY <1>4
      <4> QED BY <3>1, <4>1 DEF StepsIn
    <3>2. CASE Steps(c) = 0 /\ Steps(c)' = 0
      BY <3>2 DEF StepsIn
    <3> QED BY <1>4, <3>1, <3>2
  <2>2. Steps(c)' \in 1..12 => Named(root[c], t.file)'
    <3> SUFFICES ASSUME Steps(c)' \in 1..12 PROVE Named(root[c], t.file)'
      OBVIOUS
    <3>1. Steps(c) \in 1..12 /\ root'[c] = root[c]
      BY <1>4
    <3>2. Steps(c) > 0 /\ root[c] \in Dirs
      <4>1. session[c] # "none"
        BY <1>3, <3>1 DEF AloneAt, UserAt, Steps
      <4> QED BY <3>1, <4>1 DEF ControlInv, ClientAt, StageAt
    <3> QED BY <1>3, <1>4, <3>1, <3>2 DEF FileAt, KeepsShared, Named
  <2> QED BY <1>3, <1>4, <2>1, <2>2, FileKept
<1>5. e # c => Steps(c)' = Steps(c) /\ root'[c] = root[c]
  BY <1>1, StepsKept
<1>6. dir' = dir /\ content' = content => KeepsShared(t.file)
  BY DEF KeepsShared, In, Named
<1>7. CASE ApplicationActs(e)
  <2>1. KeepsShared(t.file)
    BY <1>6, <1>7, ActsKeepFiles
  <2>2. CASE e # c
    BY <1>4, <1>5, <2>1, <2>2
  <2>3. CASE e = c /\ returns(c)
    <3>1. task[c].kind = "client1"
      BY <1>2, <2>3 DEF returns
    <3>2. root' = root /\ (Steps(c)' = Steps(c) \/ (Steps(c) >= 13 /\ Steps(c)' >= 13))
      BY <1>2, <1>3, <2>3, <3>1, ReturnsAlone
    <3> QED BY <1>4, <2>1, <3>2
  <2>4. CASE e = c /\ ~returns(c)
    <3>1. connects(c) \/ begins(c) \/ calls(c) \/ exits(c) \/ closed(c) \/ ends(c)
      BY <1>7, <2>4 DEF ApplicationActs
    <3>2. Steps(c)' = Steps(c) /\ (root'[c] = root[c] \/ Steps(c) = 0)
      BY <1>2, <1>3, <3>1, IdleSteps, IdleAlone
    <3> QED BY <1>4, <2>1, <3>2
  <2> QED BY <2>2, <2>3, <2>4
<1>8. CASE ServerActs(e) /\ ~(Executes(e) /\ stage[e] = "work")
  <2>1. SlotAt(e) /\ TaskAt(e) /\ ByteAt(e)
    BY DEF SlotsInv, TestInv
  <2>2. KeepsShared(t.file) /\ Steps(e)' = Steps(e) /\ root' = root
    BY <1>6, <1>8, <2>1, QuietSteps
  <2> QED BY <1>4, <1>5, <2>2
<1>9. CASE ServerActs(e) /\ Executes(e) /\ stage[e] = "work"
  <2>1. CASE e = c
    BY <1>9, <2>1, ExecutesFile
  <2>2. CASE e = d
    <3>1. KeepsShared(t.file)
      <4>1. e \in {c, d} /\ e # c
        BY <1>2, <2>2
      <4> QED BY <1>9, <4>1, FileSpared
    <3> QED BY <1>2, <1>4, <1>5, <2>2, <3>1
  <2> QED BY <1>2, <1>9, <2>1, <2>2
<1> QED BY <1>7, <1>8, <1>9

\* Every step keeps what is said of the clients of the test.
LEMMA NextWell ==
    ASSUME TestMaySucceed, NEW e \in Sessions, ControlInv, SlotsInv, UniqueNames, TestInv, WellInv,
           ApplicationActs(e) \/ ServerActs(e)
    PROVE  WellInv'
<1>1. app' = app /\ \A f \in Sessions \ {e} : SameClient(f)
  <2>1. ApplicationActs(e) => app' = app
    BY DEF ApplicationActs, connects, begins, calls, returns, exits, closed, ends, appVars
  <2>2. ServerActs(e) => app' = app
    BY DEF ServerActs
  <2> QED BY <2>1, <2>2, NextControl DEF StepOK
<1>2. ASSUME app[e].kind = "test" PROVE AloneAt(e)'
  <2>1. PICK c \in Sessions, d \in Sessions :
            \E t \in app[c].tasks, u \in app[d].tasks : IsTest(app, c, d, t, u) /\ e \in {c, d}
    BY <1>2, TestPair DEF ControlInv, VariablesOK
  <2>2. PICK t \in app[c].tasks, u \in app[d].tasks : IsTest(app, c, d, t, u) /\ e \in {c, d}
    BY <2>1
  <2>3. TaskAt(e) /\ SlotAt(e) /\ AloneAt(e)
    BY <1>2 DEF TestInv, SlotsInv, WellInv
  <2>4. stage[e] = "work" => task[e].kind \in {"client1", "client2"}
    BY <2>2, TestFacts DEF IsTest
  <2>5. CASE returns(e)
    <3>1. stage[e] = "work"
      BY <2>5 DEF returns
    <3> QED BY <1>2, <2>3, <2>4, <2>5, <3>1, ReturnsAlone
  <2>6. CASE ApplicationActs(e) /\ ~returns(e)
    BY <1>2, <2>3, <2>6, IdleAlone DEF ApplicationActs
  <2>7. CASE ServerActs(e) /\ ~(Executes(e) /\ stage[e] = "work")
    BY <1>2, <2>3, <2>4, <2>7, QuietAlone
  <2>8. CASE ServerActs(e) /\ Executes(e) /\ stage[e] = "work"
    BY <2>2, <2>8, ExecutesAlone
  <2> QED BY <2>5, <2>6, <2>7, <2>8
<1>3. \A f \in Sessions : app'[f].kind = "test" => AloneAt(f)'
  <2>1. \A f \in Sessions \ {e} : app[f].kind = "test" => AloneAt(f)'
    BY <1>1, AloneKept DEF WellInv
  <2> QED BY <1>1, <1>2, <2>1
<1>4. ASSUME NEW c \in Sessions, NEW d \in Sessions, NEW t \in app'[c].tasks, NEW u \in app'[d].tasks,
             IsTest(app', c, d, t, u)
      PROVE  FileAt(c, t)'
  <2>1. t \in app[c].tasks /\ u \in app[d].tasks /\ IsTest(app, c, d, t, u)
    BY <1>1, <1>4
  <2> QED BY <2>1, FileNext
<1> QED BY <1>3, <1>4 DEF WellInv

\* It holds at the start ...
LEMMA InitWell ==
    ASSUME ApplicationsInit
    PROVE  WellInv
<1>1. /\ \A c \in Sessions : /\ stage[c] = "connect" /\ result[c] = 0 /\ session[c] = "none"
                             /\ app[c].kind = "test" => left[c] = 1
      /\ dir = InitialDir /\ content = [i \in Inodes |-> << >>]
  BY DEF ApplicationsInit, RemoteInit, KernelInit
<1>2. ASSUME NEW c \in Sessions, app[c].kind = "test" PROVE AloneAt(c)
  <2>1. UserAt(c) /\ SessionAt(c) /\ WellAt(c) /\ EndAt(c) /\ PositionAt(c)
    BY <1>1, <1>2 DEF UserAt, SessionAt, WellAt, EndAt, PositionAt
  <2> QED BY <2>1 DEF AloneAt
<1>3. ASSUME NEW c \in Sessions, NEW d \in Sessions, NEW t \in app[c].tasks, NEW u \in app[d].tasks,
             IsTest(app, c, d, t, u)
      PROVE  FileAt(c, t)
  <2>1. app[c].kind = "test" /\ t.kind = "client1" /\ t \in app[c].tasks
    BY <1>3 DEF IsTest
  <2>2. t.file \in Strings
    <3>1. app[c] \in Programs
      BY ApplicationsAssumption DEF ApplicationsInit
    <3> QED BY <2>1, <3>1 DEF Programs, Client1Tasks, Client2Tasks
  <2>3. Steps(c) = 0
    BY <1>1, <2>1 DEF Steps
  <2>4. ASSUME NEW D \in Dirs, Named(D, t.file)
        PROVE  In(D, t.file) = << >> /\ ~(StepsIn(c, D) \in 2..12)
    <3> PICK p : p = Resolved(D, t.file)
      OBVIOUS
    <3>1. p \in Paths
      BY <2>2, NamesArePaths
    <3> QED BY <1>1, <2>3, <2>4, <3>1, KernelAssumption DEF Named, In, StepsIn
  <2> QED BY <2>3, <2>4 DEF FileAt
<1> QED BY <1>2, <1>3 DEF WellInv

\* ... and stuttering keeps it.
LEMMA StutterWell ==
    ASSUME WellInv, UNCHANGED applicationVars
    PROVE  WellInv'
<1> USE DEF applicationVars, remoteVars, kernelVars, apiVars, appVars
<1>1. \A c \in Sessions : SameClient(c)
  BY DEF SameClient, SameRemote, SameProgram
<1>2. \A c \in Sessions : app'[c].kind = "test" => AloneAt(c)'
  BY <1>1, AloneKept DEF WellInv
<1>3. ASSUME NEW c \in Sessions, NEW t, FileAt(c, t) PROVE FileAt(c, t)'
  <2>1. Steps(c)' = Steps(c)
    BY <1>1, StepsKept
  <2> QED BY <1>3, <2>1 DEF FileAt, StepsIn, Named, In
<1>4. \A c, d \in Sessions : \A t \in app'[c].tasks, u \in app'[d].tasks :
          IsTest(app', c, d, t, u) => FileAt(c, t)'
  BY <1>3 DEF WellInv
<1> QED BY <1>2, <1>4 DEF WellInv

\* No check of the acceptance test fails for want of anything but files and
\* descriptors, except where client 1 reads what both have written
\* (acceptance_test.cpp:276), if its user may do everything and its files have room.
THEOREM TestFailsAtTheRace ==
    ASSUME TestMaySucceed
    PROVE  ApplicationsSpec => []TestFailsOnlyAtTheRace
<1>1. ApplicationsInit => LocksTogether /\ WellInv
  BY InitTogether, InitWell
<1>2. ApplicationsSpec => []LocksTogether
  BY TogetherAlways
<1>3. LocksTogether /\ WellInv /\ [ApplicationsNext]_applicationVars => WellInv'
  BY NextWell, StutterWell DEF LocksTogether, ApplicationsNext
<1>4. WellInv => TestFailsOnlyAtTheRace
  BY DEF WellInv, AloneAt, EndAt, AtRace, Short, TestFailsOnlyAtTheRace
<1> QED BY <1>1, <1>2, <1>3, <1>4, PTL DEF ApplicationsSpec
=============================================================================
