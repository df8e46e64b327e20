# TIN-NFS: a TLA+ verification project

TIN-NFS is a small network file system: a client library whose calls mirror
`open(2)`, `read(2)` and their sisters, and a server that executes them on its own
files as the user who has logged in. This directory holds TLA+ models of both sides
and of the protocol between them, the configurations that TLC checks, and proofs that
TLAPS checks. Paths such as `src/NFSServerWorker.cpp` are those of the repository.

## 1. The system

### Components, their state and their operations

| component | code | state | operations |
|---|---|---|---|
| client library | `src/NFSConnection.cpp` | `m_sockfd`, `m_access`, `m_errno` of an `NFSConnection` | `connect`, `open`, `close`, `read`, `write`, `lseek`, `fstat`, `unlink`, `flock`, `get_error`, the destructor |
| server worker | `src/NFSServerWorker.cpp` | one process per connection: `authenticated`, `userid`, `filesystem_prefix`, `descriptor_map`, `next_descriptor`, the effective user id, the kernel's descriptor table | `run`: authentication, then the loop of `handle_requests` with eight handlers; the destructor |
| listener | `src/NFSCommunication.cpp` `listen_for_connections`, called by `src/NFSServer.cpp` | the listening socket, the child processes | `accept`, `fork` |
| message transfer | `send_message`, `wait_for_message`, `connect_to_server` in `src/NFSCommunication.cpp` | the two directions of a TCP connection | size, then body, in loops of partial transfers |
| messages | `include/NFSMessages.hpp` | | the message structures, each pushed to and popped from a buffer field by field |
| buffer | `src/MessageBuffer.cpp` | a vector of bytes | push and pop of integers and character data |
| server start | `src/NFSServer.cpp` | port, table of filesystems | root check, `load_config` |
| applications | `examples/` | an open descriptor | a shell-like program, two copy programs, an acceptance test |
| logging | `include/Logging.hpp` | | output only |

### How they interact

A client connects, the listener accepts and forks, and from then on one client process
and one worker process talk over one TCP connection. The worker asks three times
(`PROVIDE_USERNAME`, `PROVIDE_PASSWORD`, `PROVIDE_FSNAME`), compares the password with
the shadow database, looks the filesystem up in the configuration and sends its
verdict. Then the client sends one request at a time and waits for its result. Around
each request the worker calls `seteuid` with the user's id and goes back afterwards.
Workers share nothing but the files: they meet in the kernel, over names, inodes and
`flock` locks. The client names files by *client descriptors*, which the worker maps to
its own through `descriptor_map`.

### What is hard here

- Identity: every path through the loop has to switch to the user and back.
- Two levels of descriptors: client descriptors grow for ever, the kernel reuses its own.
- Closing: a file can outlive the client, the request that opened it, and its own name.
- Ends of processes: a client may die between any two messages, a worker may die by
  signal or `exit(123)` in the middle of a request, `fork` and `accept` fail.
- Messages and calls can get out of step when a call ends before its answer comes.
- Waiting: the client has no timeout, the worker waits in `flock(2)` without looking at
  its socket.
- The stream: a message is two loops of partial sends and receives, and each loop can
  fail, or its process die, after any byte.
- Numbers: an `off_t` in an `int`, a size of -1 in an unsigned, an `int` compared with
  a `sizeof`.

PROJECT.json lists these hazards one by one, at the line where each bites.

### What makes each component correct

- Worker: it opens and changes only what the user whose password was given may open and
  change; its map stands for open files, distinct ones, and never changes its meaning; nothing it opens is out of the client's
  reach; a failure carries its reason; it lets go of everything when its client is gone.
- Library: access means that a worker has accepted the credentials; an answer belongs to
  its call; every call comes back; what `open` returns is a descriptor.
- Transfer: messages arrive whole, once and in order; what is pushed is what is popped.
- Server start: it listens with the configuration that its file states, and with nothing
  else.
- Applications: a download is the whole file, what `write` accepted is stored, and the
  acceptance test passes where the system is right.
- Together: what an application sees is a local process of the server's system; the
  conversation is synchronous, no worker ever meets a wrong message, and
  locks exclude.

## 2. The modules

```
NFSMessages <-+- Tcp, UnixKernel <- NFSServerWorker <- NFSServer <-+
              |                                                    +- NFSSystem <- MCSystem
              +- NFSConnection ------------------------------------+     |
              |                                                          | ImplementsRemoteFiles
              +- UnixKernel <- RemoteFiles <-----------------------------+ (INSTANCE)
                                    ^
                                    +- Applications <- MCApplications

MessageCodec <- Transfer <- Transfer_proofs <- MCTransfer
                   | ImplementsChannel
                   +-> MessageChannel (INSTANCE)

NFSServer_proofs, ServerConfig <- MCServer

proofs: UnixKernel_proofs <-+- NFSServer_proofs <- NFSSystem_proofs <- NFSConversation_proofs
                            |      <- NFSRemote_proofs <- NFSRefinement_proofs
                            +- Applications_proofs
```

| module | models | remarks |
|---|---|---|
| `NFSMessages` | `include/NFSMessages.hpp` | a message is a record; its size fields are the lengths of its data |
| `Tcp` | sockets, as queues of whole messages | two queues per session and the state of both ends; `Transfer` is what justifies them |
| `UnixKernel` | external: the calls that the worker makes | names, inodes, descriptor tables, locks, effective user ids |
| `NFSServerWorker` | `src/NFSServerWorker.cpp` | one action per receive, handler and send |
| `NFSServer` | `listen_for_connections`, `NFSServer::run` | the listener and all workers, in an environment of arbitrary clients |
| `NFSConnection` | `src/NFSConnection.cpp` | clients that use the library |
| `NFSSystem` | both | the clients of `NFSConnection` in place of the arbitrary ones |
| `RemoteFiles` | abstract: what the library and the server promise together | a client is a local process; calls take effect at one point |
| `MessageCodec` | `src/MessageBuffer.cpp`, layouts of `include/NFSMessages.hpp` | pure functions: push and pop of every message, on hosts of either byte order |
| `Transfer` | `send_message`, `wait_for_message` | one direction of a connection, byte by byte |
| `MessageChannel` | abstract: the queue of messages that the two functions promise | |
| `ServerConfig` | the start of the server in `src/NFSServer.cpp` | `load_config` as a fold over the words of a file |
| `Applications` | `examples/user_app`, the two copy programs, `examples/acceptance_test` | programs on top of `RemoteFiles` |
| `*_proofs` | | lemmas and theorems, section 5 |
| `MC*` | | values of the constants for TLC |

### Worker

`wpc[s]` says where the worker of session `s` is. Its values follow the control flow:
`ask` and `await` alternate three times (`request_username`, `request_password`,
`request_fsname`, told apart by the number of credentials in `info[s]`), `select` is
`select_user` with `select_filesystem`, `verdict` the answer to them, `serve` the `recv`
of the loop, `handle` the request being executed, `flock` a wait inside `flock(2)`,
`reply` the `send` of the answer, `unwind` the destructor, `exit` the end of the
process, `zombie` what is left, since the server never waits for its children.

A handler is one action. The system calls that it makes are not interleaved with the
steps of others where the kernel makes them atomic or where nobody can tell; `flock` is
two actions, because the kernel gives up the old lock before it tries for the new one
and other processes run in between. `receive_request` includes `enter_user_mode`,
`send_result` includes `exit_user_mode`, so the effective user id is the user's exactly
from `handle` to `reply`.

Points of the code that the actions keep:

- A request with a path that does not end in 0 gets no answer; the session ends.
- `open` returns the lowest free descriptor; one above 0 enters the map, 0 does not.
- A failed `read` kills the worker (section 3, `read_failure`), and so does one that
  asks for more memory than there is (`Readable`): the buffer is allocated before the
  descriptor is looked at.
- The map takes an `int`, a request carries 64 bits (`ClientFd`).
- The path of a request is put behind the prefix of the filesystem as it is. What it
  leads to is `Resolved`, which may be outside: `README.md:473-477` says that the protocol
  does not confine clients, and that the rights of users have to.
- `close` never fails for a mapped descriptor; the destructor closes all mapped ones.
- A message code without a case, `CONNECT_START`, ends the process with `exit(123)`
  and without the destructor.
- `select_user` on a stored hash that `crypt(3)` rejects may kill the worker.
- The second `enter_user_mode` fails when the real user id is not root and not the
  user: `exit_user_mode` has given root up.

### Clients, and what they may do to the server

In `NFSConnection`, `cpc[c]` is `idle` between calls, `login` and `verdict` inside
`connect`, `call` while a request waits for its answer. A call is two actions, the part
up to the `send` and the part after the `recv`; the eight functions share them and
differ in `ResultCode`, `Failed` and `ReturnValue`. They return to the application
through `ret` and `m_errno`. `connect` never clears `m_access` and forgets the old
socket without closing it, so `owner` remembers which process has it open until the
process ends.

`NFSServer` knows nothing of the library. Its environment connects, sends any message of
`ClientMessages` at any time, and closes any set of sockets (a process that ends closes
all of its own at once); `EnvDisconnects` is the destructor of the library, which sends
and closes without looking. That `NFSSystem` is an instance of this, `ImplementsServer`,
is checked and proved, so that the server's properties are known for the system without
being checked again.

### RemoteFiles: what an application may rely on

`README.md:445` says that the functions behave like the system's own. `RemoteFiles`
says what that means for programs that run side by side. Every client has a descriptor
table of its own, filled with client descriptors. A call is submitted, takes effect in
one step somewhere between its start and its return, on the file its descriptor was
opened for and with the rights of the logged-in user, and returns the values of that
very step. Only `flock` takes two steps, as in the kernel. What a local process never
meets is in it as well: `EACCES` before a login, the loss of the session
(`EHOSTUNREACH`, `EBADMSG`), which may happen at a failing read only while the client is
alive, and the closing of everything that a gone client had open.

The refinement mapping (`Remote` in `NFSSystem`) builds the table of a client from its
worker's map and descriptor table (`RemoteTable`), and its call from wherever the call is
at the time (`JobAt`): a request in `c2s`, in `request`, in `response`, or an answer in
`s2c`. A client that has no access, or whose worker has stopped serving, has no call with
the system (`RemoteSession`, `RemoteJob`). That a step of
the listener, a request on its way, or a `seteuid` is a stutter, and that no step of the
worker is visible before the one that does the work, is what `ImplementsRemoteFiles`
says. `RemoteFiles` leaves open what the property does not need: which descriptor
number comes back, and whether a table is full (`EMFILE` and `ENFILE` are always
possible).

### Transfer and the codec

`Transfer` has the two loops of each function as `spc` and `rpc`: `size`, then `body`.
`send_some(n)` and `receive_some(n)` are one turn that moves `n` bytes; `send_fails` and
`receive_fails` are the early returns, `Signals` lets a handler interrupt a call that has
nothing to move; either end may die at any point. Bytes are really encoded:
`wait_for_message` decodes what is in the stream, also when its frames are lost, and then
meets lengths that are 0 or beyond what `operator new` gives (`MaxAlloc`). A buffer of
length 0 is read at index 0 (undefined: the process may end), and `exit(123)` is the end
of the receiver.

`MessageChannel` is the queue that `Tcp` takes for granted. It says nothing of messages
once `broken`, and `broken` is set in two places only, a failure of either function
inside a message. A process that dies inside a message sets it as well, at the other
end's next `recv`.

`MessageCodec` computes with words of `2 * HalfWord` digits in base `Base`: `htonll` as
the swap of halves and of bytes, two's complement, the order of pushes and pops of every
structure including `struct stat`.

### ServerConfig

A configuration file is the sequence of its words; `operator>>` into an `int` takes the
digits at the start of a word and leaves the rest, so `RestOf` gives the next word. The
specification `Stated` next to it says what `README.md:413-415` says a configuration is.
What the code accepts beyond that is files in which the text behind the digits of a port
is the next option: `port 80filesystem share d1` loads what
`port 80 filesystem share d1` does.
`MCServer` takes its filesystems from a file through `run`.

### Applications

A program is a list of calls on `RemoteFiles`, made one after the other, with the checks
it makes on each result. `fd` is the member of `NFSUserApp` that open, download and send
share; `left` counts the commands still to come. In the test, `RaceStep` is the read of
the shared file; the open before it and the close behind it are checked through results
of earlier calls (`acceptance_test.cpp:270`, `285`), which `Unchecked` keeps.

### Abstractions and bounds

- In `Tcp` a message is sent and received whole; `Transfer` shows when that is right.
- Strings are members of a small set; `Unterminated` stands for every buffer that does
  not end in 0. Bytes are numbers, files are sequences of them.
- Permissions are a table `Allowed` from effective user ids to rights on paths, where
  `DIR` is the right to create and remove the name. It stands for what a process with
  that user id *and the server's groups* may do; see section 4.
- `NameOf` says once and for all what each path of a directory and a text leads to. It
  stands for `..` and for links, which no call of the library makes or changes.
- errno values are those that the model can tell apart; `"stale"` is an errno that an
  earlier call has left behind.
- Bounds of the system: `Sessions` (connections ever made), `BufCap` (messages in a
  direction; a sender waits for room), `MaxAlloc` (what `operator new` gives a worker that
  is to read; more kills it), `MaxFd` (EMFILE), `Inodes` (ENOSPC), `MaxOffset`
  (EFBIG, EINVAL), `MaxDescriptor` (client descriptors of a worker; beyond it `open`
  fails with ENFILE), `MaxProcs` (processes that can be forked; `SyscallsFail` lets
  `accept` and `fork` fail at any time as well), `IntMax`. Each shows itself as an error
  that the code handles anyway.
- Bounds of the transfer: `Base` and `HalfWord` (the width of bytes and words),
  `WireCap` (bytes in the socket buffers), `MaxAlloc` (what `operator new` gives),
  `IntMax`. Bounds of the applications: `MaxTasks` (commands a user gives).

## 3. The runs

Every run but the last group passes. Deadlock is not checked: applications may stop
calling, processes may die, and the system then rests. The numbers are distinct states.

| run | question | instance | states |
|---|---|---|---|
| `server` | Does a worker serve anybody as somebody else, and do descriptors keep their meaning? | a setuid-root server started by bob, its configuration read from a file; a client that logs in right, wrong, unterminated or with a locked account to one of two filesystems, and sends its messages at any stage: opens by a name and by a path that leads to the other filesystem, a descriptor wider than an `int`, a read larger than the memory; two files, three client descriptors; `accept` and `fork` may fail | SERVERSTATES |
| `system_single` | Is one client of the library like a local process? | three logins (two right, one wrong), every call, failing and not, two files, three client descriptors | 480,969 |
| `system_shared` | Are two clients on one file like two local processes, with the conversations in step? | one name that both create and remove, so that it stands for several files; shared and exclusive locks, waiting and not, conversions | 746,116 |
| `system_live` | Does everything come back, and is everything released? | one client, right and wrong passwords, EINTR in any `recv`, a second connect on the same object, death at any point, failing `accept` and `fork`, room for one worker; with fairness | 43,154 |
| `transfer` | Are whole messages what arrives? | three messages of different layout, partial transfers of one to three bytes, signals, ends that die | 61,031 |
| `applications` | Do the programs do what they say, side by side? | a user with two commands of five next to a copy program that sends or downloads the same file; the two clients of the acceptance test | 453,649 |

What each property says stands above its definition; in short:

- `TypeOK`, `TransferTypeOK`, `ApplicationsTypeOK` and `ServerTypeOK`, the type
  invariants, say besides the types what a reader of the code takes for granted: a client
  in a call has access and a socket, and calls what it may (`WaitsForAnAnswer`); a loop of
  `wait_for_message` is left as soon as nothing is missing; what a program keeps in `fd`,
  in its size and in its buffer is what a call has given it.
- `FilesOpenedAsUser`, `FilesChangeAsUser`: the identity of the worker is right whenever
  it opens a file, creates or removes a name, or changes bytes. `Grants` is computed
  from the credentials that were received and not from the worker's own `userid`. A
  change of bytes is tied to the file (`Reaches`): the worker that makes it gets at that
  very inode, by a name that it has or through a descriptor opened by that name, and its
  user may write there. Neither property says that the place is inside a filesystem.
- `DescriptorMapSound`, `DescriptorsKeepTheirFile`, `NoDescriptorLeak`: the map of
  client descriptors, over all orders of open and close.
- `FailuresHaveErrno`: no failure without a reason.
- `IInv`: the inductive invariant of the proofs, section 5.
- `ConfigurationIsLoaded`: of all files of up to six words, `load_config` accepts those
  that state a configuration, with the values they state, and beside them only those
  that would if a space followed each port. The sample words have `80filesystem`.
- `ImplementsServer`, `ImplementsRemoteFiles`: the two refinements of the system.
- `OneMessageAtATime`, `AnswersMatchCalls`, `OnlyCorrectCommunication`: the protocol of
  `README.md:86`, `269-276` and `282`.
- `LocksExclude`, `OpenReturnsDescriptor`: what the calls mean to the applications.
- `AccessMeansAuthenticated`: both sides agree on who is logged in.
- `CallsReturn`, `FilesReleased`, `SendsReturn`, `HandedOverArrives`: liveness.
- `ImplementsChannel`: the refinement of `Transfer`. `RoundTrip`, `NetworkOrder`: the
  codec, about constants, so that one state is enough to evaluate them. `RoundTrip`
  includes the hypotheses of the theorems about `Transfer`.
- `DownloadIsComplete`, `SentBytesAreStored`, `LockedWritesStayTogether`,
  `TestFailsOnlyAtTheRace`: the programs.

Why the bounds are enough. Two workers are the fewest that can conflict over a file or a
lock, and the code has no operation that involves three. Two files with three client
descriptors let a kernel number be closed, reused by another file and closed again while
an old client descriptor is still around. `Inherited` leaves a gap (0, 1, 2 and 4), so
that the lowest free descriptor is not always above the ones in use. One place in a
process table separates a fork that works from one that fails. Buffers of one and of two
messages let a send block or not, and a synchronous protocol never has more under way
(`OneMessageAtATime`). In `transfer`, words of four bytes in base 32 are the smallest in
which the halves of a word differ from its bytes; `WireCap` 3 is less than a word, so
that a length never fits the buffer and every loop takes several turns; `MaxAlloc` 12
lies between the lengths of the messages and those that a stream out of frame can hold;
`IntMax` is above both (section 4). In `applications`, files of three bytes are longer,
as long and shorter than what is sent to them. `system_shared` uses the symmetry of
clients and of sessions; no liveness property is checked with symmetry.

### Fairness

`system_live` assumes weak fairness of each worker, of the accepting and forking of each
connection, of the steps a client library takes inside a call, and of the end of a
process that has begun to die. The operating system schedules every process that can
run, TCP delivers what was sent between ends that are open, and the code has no step
that another one of the same process can starve. The clause for the client asks for
progress that takes or adds a message or meets a hangup: an interruption by a signal
also ends a call, but no fairness may count on it. Nothing is assumed of applications
(they may stop calling and never destroy their connection), of signals, of deaths, or
of `accept` or `fork` failing. A worker that waits in `flock(2)` without getting the
lock is not able to take a step: no fairness helps it.

`transfer` assumes weak fairness of the turns of the sender's loops and of the receiver,
which always goes back to `wait_for_message`, as the loop of a server does. Nothing is
assumed of failures, deaths, or of another message being sent.

### Runs that show a disagreement

Each of these checks one property that the repository states and the code does not keep.

| run | what it shows |
|---|---|
| `read_failure` | A read that fails is answered with `data_size` -1, and building the answer copies 2^64-1 bytes: the worker dies and the client loses its session, where `read(2)` returns -1 (`src/NFSServerWorker.cpp:321`, `include/NFSMessages.hpp:403`). |
| `lseek_truncation` | The new position passes through an `int`; beyond `INT_MAX` a successful seek can come back as a failure with a leftover errno (`src/NFSServerWorker.cpp:365`). The run uses a narrow `int` to keep numbers small. |
| `sigpipe` | The destructor of a connection whose login was refused sends to a closed socket, and SIGPIPE kills the application (`src/NFSConnection.cpp:18`). |
| `interrupted_recv` | After a signal has interrupted a `recv`, the next call finds the answer to the one before (`src/NFSCommunication.cpp:138`). |
| `flock_blocks_release` | A worker that waits in `flock(2)` never learns that its client is gone and keeps its files and locks (`src/NFSServerWorker.cpp:438`). |
| `send_file` | Sending a file opens without `O_TRUNC`: a longer file that was there keeps its tail (`examples/user_app/NFSUserApp.cpp:318`). |

## 4. Met on the way, without a run

- **connect twice.** A second `connect` on an object that has access puts another socket
  into `m_sockfd` and leaves `m_access` as it was (`src/NFSConnection.cpp:27`): when it
  fails, the object goes on as if it were logged in. `AccessMeansAuthenticated` is
  checked and proved where an object connects once (`Reconnects` FALSE). The library
  states nowhere that `connect` may be called again.
- **Descriptor 0.** A server started with its standard input closed gets 0 from
  `open(2)`, sends it to the client and does not enter it in the map
  (`src/NFSServerWorker.cpp:267`). With 0 outside `Inherited`, `NoDescriptorLeak` and
  `OpenReturnsDescriptor` fail; all runs, and the theorem `NothingLeaks`, have 0 in it.
- **Groups.** The worker changes its effective user id and nothing else
  (`src/NFSServerWorker.cpp:514`): group and supplementary groups stay those of the
  server, where `README.md:441` speaks of "natywne wsparcie ... grup użytkowników". The
  model has no groups, so "what the user may do" is about user ids throughout.
- **Zombies.** The server never waits for its children, so ended workers count against
  the limit of processes; once it is reached `fork` returns -1, which the code takes for
  the parent's branch, and every later connection is closed without a word
  (`src/NFSCommunication.cpp:87`). `MaxProcs` and `fork_fails` are this in the model.
- **Large messages.** `send_message` adds up what it has sent in 64 bits and returns the
  sum as an `int` (`src/NFSCommunication.cpp:130`): a message of 2 GiB or more is handed
  over and reported as a failure, where `include/NFSCommunication.hpp:26` promises the
  number of bytes sent and `README.md:31` files of up to 8 EB. In `transfer.cfg`,
  `IntMax` is above every size; with `IntMax = 7` TLC finds `ImplementsChannel` violated.
- **The port.** The library connects to `DEFAULT_PORT`, whatever the configuration of
  the server says.
- **The acceptance test.** Client 1 reads the shared file without a lock after letting
  go of its own (`acceptance_test.cpp:276`); only `sleep` stands between it and a client 2
  that has not written yet or was first. `TestFailsOnlyAtTheRace` shows that this is
  the only check that can fail for a reason other than a full table or disk.

## 5. What is proved

For every value of the constants that satisfies their named assumptions: any number of
sessions, clients, users, files and descriptors, any table of rights. The assumptions
say that tables are functions of the right type, the descriptors a process is born with
exist, bounds are natural numbers, the calls of the library are requests whose paths are
strings and whose descriptors fit an `int`, the type that its functions take
(`ConnectionAssumption`), and (`SystemAssumption`) that the messages of the library are
among those that the server's environment may send and that applications do not read
more at a time than a worker has memory for. For the applications,
`ApplicationsAssumption` says what the scenarios are: each client is a user, a copy
program or a client of the test, with commands of that kind, and where the test runs,
its two clients are the only ones at work (as in `acceptance_test.cpp:20-37`);
`NamesAssumption` says that no file of the server has two names at the start (hard links
are not modelled, and the code makes none). About `RealUid` only
its type is assumed, unless the theorem says otherwise: they cover a server started by
root and one that is setuid root.

| theorem | says | where |
|---|---|---|
| `TypesHold` | `ServerSpec => []ServerTypeOK` | `NFSServer_proofs` |
| `IInvHolds` | `ServerSpec => []IInv` | |
| `FilesAreOpenedAsUser` | `ServerSpec => []FilesOpenedAsUser` | |
| `DescriptorMapIsSound` | `ServerSpec => []DescriptorMapSound` | |
| `FilesAreChangedAsUser` | `ServerSpec => FilesChangeAsUser` | |
| `ClientDescriptorsKeepFiles` | `ServerSpec => DescriptorsKeepTheirFile` | |
| `NothingLeaks` | `ServerSpec => []NoDescriptorLeak`, if `0 \in Inherited` | |
| `FailuresAreExplained` | `ServerSpec => []FailuresHaveErrno`, if `MaxOffset <= IntMax` | |
| `SystemImplementsServer` | `Spec => ImplementsServer` | `NFSSystem_proofs` |
| `SystemTypesHold` | `Spec => []TypeOK` | |
| `AccessIsAuthenticated` | `Spec => []AccessMeansAuthenticated`, if `~Reconnects` | |
| `TurnsAreTaken` | `Spec => []OneMessageAtATime`, if `~SignalsHandled` | `NFSConversation_proofs` |
| `AnswersAreMatched` | `Spec => []AnswersMatchCalls`, if `~SignalsHandled` | |
| `CommunicationIsCorrect` | `Spec => []OnlyCorrectCommunication`, if `~SignalsHandled` | |
| `DescriptorsAreKnown` | `Spec => []OpenReturnsDescriptor`, if `~SignalsHandled`, `0 \in Inherited` | |
| `LocksAreExclusive` | `Spec => []LocksExclude`, if `~SignalsHandled` | |
| `SystemImplementsRemoteFiles` | `Spec => ImplementsRemoteFiles`, if `~SignalsHandled`, `~Reconnects`, `0 \in Inherited`, `RealUid = Root`, `MaxDescriptor <= MaxFd`, `MaxOffset <= IntMax` | `NFSRefinement_proofs` |
| `TransferTypesHold` | `TransferSpec => []TransferTypeOK`, if `CodecIsRight` | `Transfer_proofs` |
| `TransferImplementsChannel` | `TransferSpec => ImplementsChannel`, if `CodecIsRight`, `TotalsFit` | |
| `ApplicationsTypesHold` | `ApplicationsSpec => []ApplicationsTypeOK` | `Applications_proofs` |
| `DownloadsAreComplete` | `ApplicationsSpec => []DownloadIsComplete` | |
| `SentBytesAreThere` | `ApplicationsSpec => []SentBytesAreStored` | |
| `LockedWritesHold` | `ApplicationsSpec => []LockedWritesStayTogether` | |
| `TestFailsAtTheRace` | `ApplicationsSpec => []TestFailsOnlyAtTheRace`, if `TestMaySucceed` | |

What the conditions mean, and why they are there:

- `~SignalsHandled`: no signal handler of the application interrupts a `recv`. Otherwise
  client and worker get out of step for good (run `interrupted_recv`).
- `~Reconnects`: an object connects once. After a second `connect` that fails,
  `m_access` belongs to another socket (section 4). The theorems about the conversation
  do without this condition: the runs check those properties on objects that connect
  once, the theorems hold for the others as well.
- `0 \in Inherited`: the server has its standard input, so that `open(2)` never returns
  0 (section 4).
- `MaxOffset <= IntMax`: every position in a file fits an `int` (run `lseek_truncation`).
- `RealUid = Root`: the server was started by root. A setuid-root server keeps the
  user's real id, and the worker's second `enter_user_mode` fails unless the client logs
  in as that user: the session ends, where a local process would go on.
- `MaxDescriptor <= MaxFd`: this one is about the models only. `RemoteTable` indexes
  client descriptors by the numbers of descriptors, so there must be enough of these.
- `CodecIsRight`: of every message that is sent, the length fills a word and is read back
  as it was written, and the bytes, at least one, are decoded to the message. What the
  codec computes takes induction over data, so it is a hypothesis here; TLC evaluates it
  in the run `transfer` (`RoundTrip`).
- `TestMaySucceed`: the test can succeed at all: its user may do everything with the
  files it names, and these have room for what it writes, three bytes and the data. The
  instance of the run satisfies it, and TLC evaluates it there.
- `TotalsFit`: a message and its length are counted by an `int` (section 4, large
  messages). Without it `send_message` reports a failure for a message that arrives.

### The argument for the server

None of the invariants is inductive. That a file is opened as the right user depends on
the effective user id while a request is handled, which depends on `userid`, which is
right because a worker that serves has been through `select` with three credentials.
Even the types need that: the path of an open file is a path only because
`filesystem_prefix` has been set by then, and the next credential to ask for exists only
because fewer than three have been received. `IInv` says all this stage by stage:

- `SocketAt`: a worker belongs to a connection that was made and accepted.
- `LoginAt`: how many credentials there are at each stage; who is `authenticated` has
  credentials that are right, and `userid` and `filesystem_prefix` come from them.
- `IdentityAt`: from `handle` to `reply` the effective user is `userid`.
- `MessagesAt`: the request and the answer at hand are of the right kind, and a worker
  that waits for a lock waits for one of an open file.
- `FilesAt`: no file before the login; later every open file exists and is open only for
  what the credentials grant.
- `MapAt`: entries lie below `next_descriptor`, stand for open files, no two for one.

`StepOK(s)` is the shape of the proof: a step of the worker of session `s` keeps the
types, establishes `SessionInv(s)`, and leaves what the invariant says of every other
session alone (`SameAt`), because descriptor tables, maps and identities belong to one
process. There is one lemma per action. Handlers end in `AnswerOK`, or in `AnswerKept`
when they touch neither the map nor what a slot stands for; those that end the loop use
`AbandonKept`. `ConnectionsChange` covers the environment and failing accepts and forks,
which change connections only. `FilesChangeAsUser` then follows from `IInv`, step by
step: `OpenChanges`, `UnlinkChanges` and `WriteChanges` are the three places that touch
names or bytes. TLC checks `IInv` itself in the run `server`.

The last part of `NFSServer_proofs` sorts the steps of a worker by what they do to its open files:
nothing that shows (`KeepsFiles`), one more in the map (`AddsFile`), one fewer in both
map and table (`RemovesFile`), or the end of the map (`DropsMap`). The three classes of
change settle `DescriptorsKeepTheirFile` at once; `NoDescriptorLeak` needs in addition
that 0 never becomes a file and that a worker in its destructor still has its map
(`LeakInv`).

### The argument for the system

`ClientIsEnvironment` maps each action of the library to one of the server's
environment: `connect` to `EnvConnect`, every send to `EnvTalks`, the destructor to
`EnvDisconnects`, deaths to `EnvCloses` with all sockets the process owns, and what
stays inside the library to a stutter. It needs to know that a client inside `connect`
or a call has a socket of an existing connection (`ClientsInv`). The invariant of the
system is `IInv` together with `ClientsInv`; the worker's half of each step is a lemma of
the server. `AccessMeansAuthenticated` connects the two sides: `AccessAt` holds the
client's end, `VerdictAt` says that an `AUTHORIZATION_OK` on its way was sent by a worker
that has accepted (`WorkerSends`), and a worker never takes that back
(`AcceptedForGood`).

### The argument for the conversation

Whose turn it is in a conversation is stored nowhere: it is in the stages of two
processes and in the two queues between them. `ConversationInv` spells it out. `TurnAt(s)` is the worker's side: the two queues of a session hold at most one
message between them, none while the worker is at work (`OneAt`), and what is there is
of the kind that the worker, or its client, waits for at that stage (`ExpectedAt`).
`TalkOf(c)` is the client's side, one conjunct per stage: in `login` the client has sent
as many credentials as the worker has asked for, in `verdict` all three, in `call` the
request under way, at work or answered is the one of the call, and in `idle` nothing is
under way. Neither side is inductive without the other. A step of a worker concerns the
one client at the other end (`WorkerTalks`), since a living client owns its socket
(`ClientsInv`); all handlers of requests are alike here (`HandlerStep`): they answer with
the result code of the request, wait for a lock, or end, and never over a bad message. A
client that dies drops out of `TalkOf`, and its worker finds the queue empty and closed.
The three theorems of `NFSConversation_proofs` follow at once.

### The argument for answers and locks

`Holds(s, r, m)` is what an answer claims about the worker: the descriptor that `open`
returned is in the map, the file that `flock` locked is locked in that mode. It is true
when the handler makes the answer (`AnswerAt`), and it stays true on the way and until
the client calls again (`AnswerOf`), because the worker waits in `recv` all that time:
this is where `ConversationInv` is needed. `LocksInv` says that two locks of one file are
both shared, over all descriptors of all workers. It holds because `flock_ends` is the
only step that takes a lock, and the kernel refuses it on a conflict; every other step
keeps locks, drops them, or opens a file without one. `LocksExclude` puts the two
together: what two clients have been told is what the kernel has.

### The argument for the refinement

`SystemImplementsRemoteFiles` is the central theorem: for any number of clients, files
and calls, each step of the system is a step of `RemoteFiles` for one client, or changes
nothing there. `RemoteInv` has the facts of the mapping that the other invariants do not
give. Two clients never share a session (`OwnAt`); a client with access has a worker that
serves or has served (`StageAt`), and the credentials that this worker has heard are the
arguments of the client's `connect` (`CredentialsOf`), so that a login in the system is
the login in `RemoteFiles`. Requests, open files and answers exist only in sessions
whose client has access (`ServedAt`), a message of success finds its worker serving, a
negative result is -1 without data (`WireAt`), and a worker between requests is in server
mode (`ServerModeAt`). `MappingInv` is all of this with the invariants before it.

`Simulated(c)` is the shape of the proof: a step of `RemoteFiles` for client `c`, or a
stutter. `NFSRemote_proofs` has the clients' steps (`ClientSimulated`): the verdict of a
login is `LogIn`, the first half of a call is `Call`, the second `ReturnsAnswer` or
`ReturnsFailure`; deaths are `Ends`. `NFSRefinement_proofs` has the workers' steps
(`WorkerSimulated`), one lemma per handler. These rest on a handful of facts about the
mapping: the call that the worker handles is the pending call of the client
(`PendingFacts`); a descriptor is usable for the worker when it is so for the client, and
the slots are the same (`FitSeen`, `SlotSeen`); opening adds, and closing removes, one
entry on both sides (`EntrySeen`); an inode is in use, and a lock is in the way, on both
sides alike (`InodeSeen`, `ConflictSeen`), since every open file of a worker stands behind
a client descriptor, which is `LeakInv`. The steps around a handler, taking the request,
changing the user id, sending the answer, do not show, and neither does the listener.

### The argument for the transfer

What makes a stream of bytes a queue of messages is again stored nowhere. `StreamInv`
speaks of the stream `S`: everything that has come since the last message was received,
whether it is on its way or the receiver has taken it. A length that has been taken
exists only as the number `size`, so `S` is some word with that value, and then the rest
(`StreamIs`). `S` begins with the frames of the messages in `handed_over`, whose ends are
at `cut` (`Framed`), and ends inside the frame of the message that is being sent, of which
`unsent` has the rest (`Begun`, `Ahead`). A frame whose sender died stays there for ever:
its rest never comes, and `m`, which is not in `message` any more, is what the bytes were
meant for. That is all until a call fails inside a frame (`broken`).

A turn of the sender makes `S` longer by what it moves (`PartSent`); its last turn turns
the begun frame into the last one of the queue (`FrameJoins`). A turn of the receiver
leaves `S` alone (`Moved`), until the last one takes the first frame off (`FrameLeaves`,
`BodyTaken`). The step that the theorem hangs on is `BodyArrives`: when nothing is missing
of a body, a message has been handed over, and these are its bytes. For if none had been,
`S` would be a part of one frame, and shorter than its length says. `ControlInv` holds
what the loops have in common: they are left as soon as nothing is missing.
`SenderImplements` and `ReceiverImplements` then name the step of `MessageChannel` for
each step of `Transfer`.

### The argument for the applications

`Applications_proofs` stands on `RemoteFiles`, so what it proves holds for any system
that implements `RemoteFiles`, and `SystemImplementsRemoteFiles` says that this one does.

`ControlInv` ties the three parts of a client together, its program (`stage`, `task`,
`at`), its call (`waiting`) and what the system does with it (`job`): the call that is
under way is the one that the program has come to, and an answer has the type that this
call returns. That gives the types, for every command list. Each step of a client
satisfies `StepOK(c)`: it leaves the other clients alone and keeps `ClientAt(c)`.

Every other fact about a program is about how far it is, and an answer that has not yet
come back already counts: `Taken(c)` is the number of calls of the command that have
*taken effect*, `Current(c)` the descriptor that the last open has given, returned or
not. `Opened(t, n)` is the open whose descriptor is in use after `n` calls, and
`SlotsInv` says that this descriptor names a file opened just so (`SlotAt`), and that the
file still has its name as long as nobody changes files (`NameAt`). `ExecutesCases` lists
the ways in which the system carries out a call.

`CopiesInv` follows a download and a send from call to call while `undisturbed`: the
size that `lseek` returned is the length of the file, the position is back at 0, and
the buffer is the whole file (`DownloadAt`); the bytes that `write` has counted are the
first ones of the file (`SendAt`). The lemmas about `read` and `write` that this takes
(`WholeFileRead`, `StartWritten`) are in `UnixKernel_proofs`.

`TestInv` is for the test. `Steps(c)` counts the calls of a client of the test that have
taken effect; `Holds(b, n, m, w)` lists what the shared file can contain when client 1
has taken `n` steps and client 2 `m`: client 2's byte is before or behind those of
client 1, never between. That the lists suffice is a matter of exclusion: a client
between its `flock` and its unlock has the lock (`HasLock`); both descriptors stand for
the file with the shared name (`NameAt`), which is one file since no inode gets a second
name (`UniqueNames`); and no two descriptors hold an exclusive lock on one file
(`LocksInv`). So while client 1 has written one byte, client 2 is not about to write, and
the other way round (`SharedWrite`). Steps that write nothing to the shared file are calm
(`Calm1`, `Calm2`, `KeepsShared`), whoever makes them. The flag `w` is for a client 1 whose
second write failed: that happens only for want of room, and then client 2's write fails
too, so that the counts of steps and the bytes still agree.

`TestFailsAtTheRace` is about all calls of the two clients with every error that each of
them can return. `WellInv` says of a client of the test that the answer that has come is
the one it takes for success, or an open that failed for want of descriptors or inodes
(`WellAt`, `RightAnswer`); that it fails and loses its session at `RaceStep` only
(`EndAt`, `SessionAt`); and that it writes and reads its own file from the start
(`PositionAt`). Of that file, `FileAt` says that it has its name from client 1's first
call to the thirteenth and holds the data from the second on; a file of that name in any
other directory is empty. `FailsForWant` is the reason why no other call can fail: the
descriptor was opened with the rights that the call needs (`SlotsInv`), the name is there
(`FileAt`), and a write has room (`SharedRoom`: the shared file has two bytes at most
before a write, by `TestInv`). `FileSpared` says that no call but the second and the
thirteenth touches the file: every other write is to the shared one, which is a different
inode (`UniqueNames`).

### Only model-checked

What the codec computes (`RoundTrip`, `NetworkOrder`) and `ConfigurationIsLoaded`: what
the codec and `load_config` compute for every input takes induction over data. Liveness
under fairness (`CallsReturn`, `FilesReleased`, `SendsReturn`, `HandedOverArrives`) is
beyond the prover, which has no rule for ENABLED.

## 6. What is not modelled

- The server's `main`, which picks the path of the configuration, and logging.
- Sockets that cannot be created or bound; a name that DNS does not know is
  `connect_fails`.
- Directories inside a filesystem, making or changing links (`NameOf` fixes what a path
  leads to), file modes, groups; of `struct stat` the system's modules keep inode and size, the codec every field.
- Two hosts of different byte orders: the codec is checked for either order, the same at
  both ends. `htonll` also swaps the halves of a word on a big-endian host, so that a
  client and a server of different orders would not understand each other.
- Applications of the library that ask for more bytes than the server's worker can
  allocate (`SystemAssumption`); the environment of `NFSServer` may do so.
- Reads and writes that are interrupted inside the server, or return less than asked for
  a reason other than a limit.
- Of the examples: the parsing of commands, output, and errors of local files; in the
  acceptance test the part about a directory, the comparisons with local files and the
  sleeps. A check that fails there ends both clients; in the model the other goes on,
  which only adds behaviours.

## 7. Plan

Done: the server, the library, the whole system with faults and liveness; `RemoteFiles`
and the refinement; the codec, the transfer and its refinement; the configuration; the
applications; the theorems of section 5.

Not done: directories inside a filesystem, one of which the acceptance test opens, and
what the codec computes for every message, which takes an induction that the prover does
not have.
