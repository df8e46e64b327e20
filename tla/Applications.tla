---------------------------- MODULE Applications ----------------------------
(***************************************************************************)
(* The programs under examples/ that use the library: NFSUserApp,          *)
(* copy_file_to_server, copy_file_from_server and the two clients of the   *)
(* acceptance test, on top of what RemoteFiles.tla says that calls do.     *)
(***************************************************************************)
EXTENDS RemoteFiles

CONSTANTS
    Scenarios,      \* each the applications that the clients are, a function
                    \* to records: kind "user", "copy" or "test", tasks
    MaxTasks        \* bound: commands that somebody gives to a user application

NoTask == [kind |-> "none"]

\* What somebody can have a program do: the command of a user goes to the
\* library as it is, except that the application fills in its descriptor.
DownloadTasks == [kind : {"download"}, file : Strings]
SendTasks     == [kind : {"send"}, file : Strings, data : Seq(Nat)]
CommandTasks  == [kind : {"command"},
                  call : {r \in Request : "path" \in DOMAIN r => r.path \in Strings}]
Client1Tasks  == [kind : {"client1"}, file : Strings, data : Seq(Nat), shared : Strings]
Client2Tasks  == [kind : {"client2"}, shared : Strings]

Programs == [kind : {"user"}, tasks : SUBSET (DownloadTasks \cup SendTasks \cup CommandTasks)]
            \cup [kind : {"copy"}, tasks : SUBSET (DownloadTasks \cup SendTasks)]
            \cup [kind : {"test"}, tasks : SUBSET (Client1Tasks \cup Client2Tasks)]

\* A file of that name is in the directory itself.
IsPlain(name) == \A D \in Dirs : Resolved(D, name) = <<D, name>>

\* The acceptance test runs its two clients, c and d, beside nobody at work, on
\* files that it has in its own directory (acceptance_test.cpp:21, 59, 149).
IsTest(sc, c, d, t, u) ==
    /\ c # d
    /\ sc[c] = [kind |-> "test", tasks |-> {t}] /\ t.kind = "client1"
    /\ sc[d] = [kind |-> "test", tasks |-> {u}] /\ u.kind = "client2"
    /\ t.shared = u.shared /\ t.file # t.shared
    /\ IsPlain(t.file) /\ IsPlain(t.shared)
    /\ \A e \in Sessions \ {c, d} : sc[e].tasks = {} /\ sc[e].kind # "test"

ASSUME ApplicationsAssumption ==
    /\ Scenarios \subseteq [Sessions -> Programs]
    /\ MaxTasks \in Nat \ {0}
    /\ Users \subseteq Uids \X Dirs
    /\ \A sc \in Scenarios : (\E c \in Sessions : sc[c].kind = "test") =>
           \E c, d \in Sessions : \E t \in sc[c].tasks, u \in sc[d].tasks :
               IsTest(sc, c, d, t, u)

\* No file of the server has two names.
ASSUME NamesAssumption ==
    \A p, q \in Paths : InitialDir[p] = InitialDir[q] /\ InitialDir[p] # NoInode => p = q

VARIABLES
    app,            \* the application each client is
    stage,          \* "connect", "menu", "work", "closing", "leaving" or "off"
    task, at,       \* the command it carries out, and the call it has come to
    left,           \* the commands it may still get
    fd,             \* NFSUserApp::fd, and int fd of the other programs
    size, buffer,   \* fileSize, and what has been read
    saved,          \* the local file that a download has written
    result,         \* of the command: -1, or what its write has returned
    undisturbed     \* history: no other client has changed a file meanwhile

appVars == <<app, stage, task, at, left, fd, size, buffer, saved, result, undisturbed>>
applicationVars == <<remoteVars, appVars>>

ApplicationsInit ==
    /\ RemoteInit
    /\ app \in Scenarios
    /\ stage = [c \in Sessions |-> "connect"]
    /\ task = [c \in Sessions |-> NoTask] /\ at = [c \in Sessions |-> 1]
    /\ left = [c \in Sessions |-> IF app[c].kind = "user" THEN MaxTasks ELSE 1]
    /\ fd = [c \in Sessions |-> -1] /\ size = [c \in Sessions |-> 0]
    /\ buffer = [c \in Sessions |-> << >>] /\ saved = [c \in Sessions |-> << >>]
    /\ result = [c \in Sessions |-> 0]
    /\ undisturbed = [c \in Sessions |-> TRUE]

-----------------------------------------------------------------------------
(* The calls that a command makes, with the descriptor and the file size   *)
(* that the application has at that time.                                  *)

open_(p, flags)   == [code |-> "REQUEST_OPEN", path |-> p, oflag |-> flags]
close_(d)         == [code |-> "REQUEST_CLOSE", fd |-> d]
read_(d, n)       == [code |-> "REQUEST_READ", fd |-> d, size |-> n]
write_(d, bytes)  == [code |-> "REQUEST_WRITE", fd |-> d, data |-> bytes]
lseek_(d, n, w)   == [code |-> "REQUEST_LSEEK", fd |-> d, offset |-> n, whence |-> w]
fstat_(d)         == [code |-> "REQUEST_FSTAT", fd |-> d]
unlink_(p)        == [code |-> "REQUEST_UNLINK", path |-> p]
flock_(d, mode)   == [code |-> "REQUEST_FLOCK", fd |-> d, operation |-> mode,
                      nb |-> FALSE]

\* Mutant: the position stays at the end of the file.
downloadFile_no_seek(t, d, n) ==
    <<open_(t.file, {"RD"}), lseek_(d, 0, "END"), read_(d, n), close_(d)>>
downloadFile(t, d, n) ==
    <<open_(t.file, {"RD"}), lseek_(d, 0, "END"), lseek_(d, 0, "SET"),
      read_(d, n), close_(d)>>

\* Mutant: the file is opened for appending.
sendFile_append(t, d) ==
    <<open_(t.file, {"WR", "CREAT", "APPEND"}), write_(d, t.data), close_(d)>>
sendFile(t, d) ==
    <<open_(t.file, {"WR", "CREAT"}), write_(d, t.data), close_(d)>>

\* runOperantionCall: the other commands are one call, on the descriptor of the
\* application if they take one.
Command(t, d) ==
    <<IF "fd" \in DOMAIN t.call THEN [t.call EXCEPT !.fd = d] ELSE t.call>>

\* client1_test (without its part about a directory) and client2_test.
client1_test(t, d) ==
    <<open_(t.file, {"WR", "CREAT"}), write_(d, t.data), close_(d),
      open_(t.file, {"RD"}), read_(d, Len(t.data)), close_(d),
      open_(t.file, {"RD"}), lseek_(d, 0, "END"), close_(d),
      open_(t.file, {"RD"}), fstat_(d), close_(d), unlink_(t.file),
      open_(t.shared, {"WR", "CREAT", "APPEND"}), flock_(d, "EX"),
      write_(d, <<1>>), write_(d, <<1>>), flock_(d, "UN"), close_(d),
      open_(t.shared, {"RD"}), read_(d, 4), close_(d)>>
\* Mutant: nobody asks for the lock.
client2_test_unlocked(t, d) ==
    <<open_(t.shared, {"WR", "CREAT", "APPEND"}), flock_(d, "UN"),
      write_(d, <<2>>), flock_(d, "UN"), close_(d)>>
client2_test(t, d) ==
    <<open_(t.shared, {"WR", "CREAT", "APPEND"}), flock_(d, "EX"),
      write_(d, <<2>>), flock_(d, "UN"), close_(d)>>

CallsOf(t, d, n) ==
    CASE t.kind = "download" -> downloadFile(t, d, n)
      [] t.kind = "send"     -> sendFile(t, d)
      [] t.kind = "command"  -> Command(t, d)
      [] t.kind = "client1"  -> client1_test(t, d)
      [] OTHER               -> client2_test(t, d)

NextCall(c) == CallsOf(task[c], fd[c], size[c])[at[c]]
IsLast(c)  == at[c] = Len(CallsOf(task[c], fd[c], size[c]))

\* What the programs take for success.  The test compares the results of write,
\* read and lseek with what it expects: where it reads the shared file, three
\* bytes, which have to be 1, 1 and 2.  After the open before that read and the
\* close behind it, it looks at a result of an earlier call instead.
RaceStep == 21
Unchecked(c) ==
    task[c].kind = "client1" /\ at[c] \in {RaceStep - 1, RaceStep + 1}
\* Mutant: no program looks at what it gets.
SucceedsAnyway(c, r, value, data) == TRUE
Succeeds(c, r, value, data) ==
    \/ Unchecked(c)
    \/ CASE r.code = "REQUEST_OPEN" -> value > 0
         [] app[c].kind = "test" /\ r.code = "REQUEST_WRITE" -> value = Len(r.data)
         [] app[c].kind = "test" /\ r.code = "REQUEST_READ" ->
                data = IF at[c] = RaceStep THEN <<1, 1, 2>> ELSE task[c].data
         [] app[c].kind = "test" /\ r.code = "REQUEST_LSEEK" ->
                value = Len(task[c].data)
         [] OTHER -> value >= 0

-----------------------------------------------------------------------------
(* The control of the programs.                                            *)

GoTo(c, st) == stage' = [stage EXCEPT ![c] = st]

\* connect: a user application asks again when it fails, and may give up; the
\* other programs end.
connects(c) ==
    /\ stage[c] = "connect"
    /\ \E user \in Users : LogIn(c, user)
    /\ GoTo(c, "menu")
    /\ UNCHANGED <<app, task, at, left, fd, size, buffer, saved, result, undisturbed>>

\* A program carries out its one command; a user gives one after the other.
begins(c) ==
    /\ stage[c] = "menu" /\ left[c] > 0
    /\ \E t \in app[c].tasks : task' = [task EXCEPT ![c] = t]
    /\ at' = [at EXCEPT ![c] = 1] /\ left' = [left EXCEPT ![c] = @ - 1]
    /\ size' = [size EXCEPT ![c] = 0] /\ buffer' = [buffer EXCEPT ![c] = << >>]
    /\ result' = [result EXCEPT ![c] = 0]
    /\ undisturbed' = [undisturbed EXCEPT ![c] = TRUE]
    /\ GoTo(c, "work")
    /\ UNCHANGED <<remoteVars, app, fd, saved>>

calls(c) ==
    /\ \/ stage[c] = "work" /\ Call(c, NextCall(c))
       \/ stage[c] = "closing" /\ Call(c, close_(fd[c]))
    /\ UNCHANGED appVars

ComesBack(c) ==
    \/ ReturnsAnswer(c)
    \/ waiting[c] # NoCall /\ ReturnsFailure(c, waiting[c])

\* A call of the command comes back: the next one follows, or the command is
\* over; what has been downloaded is written to the local file after the close.
\* A check of the test that fails ends both of its clients; here the other one
\* goes on.
returns(c) ==
    /\ stage[c] = "work"
    /\ ComesBack(c)
    /\ LET r == waiting[c]  value == ret'[c].value  data == ret'[c].data
           ok == Succeeds(c, r, value, data)
       IN  /\ fd' = IF r.code = "REQUEST_OPEN" THEN [fd EXCEPT ![c] = value] ELSE fd
           /\ size' = IF r.code = "REQUEST_LSEEK" /\ r.whence = "END"
                      THEN [size EXCEPT ![c] = value] ELSE size
           /\ buffer' = IF r.code = "REQUEST_READ" THEN [buffer EXCEPT ![c] = data]
                        ELSE buffer
           /\ result' = IF ~ok THEN [result EXCEPT ![c] = -1]
                        ELSE IF r.code = "REQUEST_WRITE" THEN [result EXCEPT ![c] = value]
                        ELSE result
           /\ \/ /\ ok /\ ~IsLast(c)
                 /\ at' = [at EXCEPT ![c] = @ + 1]
                 /\ UNCHANGED <<stage, saved>>
              \/ /\ ok /\ IsLast(c)
                 /\ saved' = IF task[c].kind = "download"
                             THEN [saved EXCEPT ![c] = buffer[c]] ELSE saved
                 /\ GoTo(c, "menu") /\ UNCHANGED at
              \/ ~ok /\ GoTo(c, "menu") /\ UNCHANGED <<at, saved>>
    /\ UNCHANGED <<app, task, left, undisturbed>>

\* exit, or the end of main.  The destructor of NFSUserApp closes what fd names,
\* if it is not -1, and then the connection is destroyed.
exits(c) ==
    /\ stage[c] = "menu"
    /\ app[c].kind = "user" \/ left[c] = 0
    /\ GoTo(c, IF app[c].kind = "user" /\ fd[c] # -1 THEN "closing" ELSE "leaving")
    /\ UNCHANGED <<remoteVars, app, task, at, left, fd, size, buffer, saved, result,
                   undisturbed>>
closed(c) ==
    /\ stage[c] = "closing"
    /\ ComesBack(c)
    /\ GoTo(c, "leaving")
    /\ UNCHANGED <<app, task, at, left, fd, size, buffer, saved, result, undisturbed>>
ends(c) ==
    /\ stage[c] \in {"connect", "leaving"}
    /\ Ends(c)
    /\ GoTo(c, "off")
    /\ UNCHANGED <<app, task, at, left, fd, size, buffer, saved, result, undisturbed>>

ApplicationActs(c) ==
    \/ connects(c) \/ begins(c) \/ calls(c) \/ returns(c)
    \/ exits(c) \/ closed(c) \/ ends(c)

\* The system carries out a call of client c.
ServerActs(c) ==
    /\ SystemActs(c)
    /\ undisturbed' = [d \in Sessions |->
           undisturbed[d] /\ (d = c \/ UNCHANGED <<dir, content>>)]
    /\ UNCHANGED <<app, stage, task, at, left, fd, size, buffer, saved, result>>

ApplicationsNext == \E c \in Sessions : ApplicationActs(c) \/ ServerActs(c)

ApplicationsSpec == ApplicationsInit /\ [][ApplicationsNext]_applicationVars

-----------------------------------------------------------------------------
(* What the programs promise.                                              *)

\* The variables have their types, and what a program asks the library for is a
\* call that it may make: a file size that lseek has failed to give is no size of
\* a buffer (NFSUserApp.cpp:264-283).
ApplicationsTypeOK ==
    /\ KernelTypeOK
    /\ app \in Scenarios
    /\ stage \in [Sessions -> {"connect", "menu", "work", "closing", "leaving", "off"}]
    /\ at \in [Sessions -> Nat] /\ left \in [Sessions -> 0..MaxTasks]
    /\ fd \in [Sessions -> -1..MaxFd] /\ size \in [Sessions -> -1..MaxOffset]
    /\ buffer \in [Sessions -> Seq(Nat)] /\ saved \in [Sessions -> Seq(Nat)]
    /\ result \in [Sessions -> Int]
    /\ \A c \in Sessions :
          /\ stage[c] = "work" => /\ task[c] \in app[c].tasks
                                  /\ at[c] \in 1..Len(CallsOf(task[c], fd[c], size[c]))
                                  /\ NextCall(c) \in Request
          /\ stage[c] # "off" => ~ended[c]
          /\ waiting[c] # NoCall => stage[c] \in {"work", "closing"}

Bytes(c, file) == content[dir[Resolved(root[c], file)]]
HasDone(c, kind) ==
    stage[c] = "menu" /\ task[c].kind = kind /\ result[c] >= 0 /\ undisturbed[c]

\* A download that succeeds has saved the whole file, unless another client has
\* changed a file meanwhile (NFSUserApp.cpp:258-294, copy_file_from_server.cpp).
DownloadIsComplete ==
    \A c \in Sessions :
        HasDone(c, "download") => saved[c] = Bytes(c, task[c].file)

\* As many bytes as write has accepted are at the start of the file that has
\* been sent (NFSUserApp.cpp:314-335, copy_file_to_server.cpp).
SentBytesAreStored ==
    \A c \in Sessions : HasDone(c, "send") =>
        SubSeq(Bytes(c, task[c].file), 1, result[c])
            = SubSeq(task[c].data, 1, result[c])

\* "send file" "sends a file to the server and then saves it in the place given"
\* (README.md:389): the file there is the one that was sent.
SentFileIsCopied ==
    \A c \in Sessions :
        HasDone(c, "send") => Bytes(c, task[c].file) = task[c].data

\* What a client of the acceptance test writes while it has the exclusive lock
\* stays together (README.md:490).
LockedWritesStayTogether ==
    \A c \in Sessions : task[c].kind = "client1" =>
        LET i == dir[Resolved(root[c], task[c].shared)]
        IN  i # NoInode =>
                \E end \in {<<1, 1, 2>>, <<2, 1, 1>>} :
                    content[i] = SubSeq(end, 1, Len(content[i]))

\* The test has a directory where its user may do everything, and files have room
\* for what it writes (acceptance_test.cpp:20-26).
MayUse(user, s) == \A right \in Rights : <<Resolved(user[2], s), right>> \in Allowed[user[1]]
TestMaySucceed ==
    \A sc \in Scenarios, c, d \in Sessions : \A t \in sc[c].tasks, u \in sc[d].tasks :
        IsTest(sc, c, d, t, u) =>
            /\ MaxOffset >= 3 /\ Len(t.data) <= MaxOffset
            /\ \A user \in Users : MayUse(user, t.file) /\ MayUse(user, t.shared)

\* No check of the acceptance test can fail for want of anything but files and
\* descriptors, except where client 1 reads what both have written: client 2 may
\* not have written yet, or may have been first (acceptance_test.cpp:276).
TestFailsOnlyAtTheRace ==
    \A c \in Sessions :
        app[c].kind = "test" /\ result[c] = -1
            /\ errno[c] \notin {"EMFILE", "ENFILE", "ENOSPC"} =>
                task[c].kind = "client1" /\ at[c] = RaceStep
=============================================================================
