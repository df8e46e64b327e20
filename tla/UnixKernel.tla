----------------------------- MODULE UnixKernel -----------------------------
(***************************************************************************)
(* The operating system under the server, as NFSServerWorker.cpp uses it:  *)
(* files, the descriptor table of each process, flock(2) and seteuid(2).   *)
(* A worker process is named by the session it serves.                     *)
(***************************************************************************)
EXTENDS NFSMessages

CONSTANTS
    Dirs,           \* directories that can be the root of a filesystem
    Inodes,         \* bound: the files that can exist at a time
    MaxFd,          \* bound: largest descriptor of a process (RLIMIT_NOFILE)
    Inherited,      \* descriptors a worker is born with: stdio, its socket
    MaxOffset,      \* largest offset and size of a file
    Uids,           \* user ids
    Root,           \* user id 0
    RealUid,        \* real user id of the server process
    Allowed,        \* Allowed[u]: the <<path, right>> of a process with the
                    \* effective user id u and the groups of the server
    InitialDir,     \* the files there at the start, all of them empty
    NameOf          \* the name that the system finds at the end of a path

NoInode == 0
NoPath  == << >>
Paths   == Dirs \X Strings      \* and the names of files: a path may be one
Rights  == {"RD", "WR", "DIR"}  \* DIR: create and remove that name
Fds     == 0..MaxFd

ASSUME KernelAssumption ==
    /\ Inodes \subseteq Nat \ {0}
    /\ MaxFd \in Nat /\ MaxOffset \in Nat
    /\ Inherited \subseteq Fds
    /\ Root \in Uids /\ RealUid \in Uids
    /\ Allowed \in [Uids -> SUBSET (Paths \X Rights)]
    /\ InitialDir \in [Paths -> Inodes \cup {NoInode}]
    /\ NameOf \in [Paths -> Paths]

VARIABLES
    dir,            \* the inode each path names
    content,        \* the bytes of each inode
    fdt,            \* the descriptor table of each worker process
    euid            \* the effective user id of each worker process

kernelVars == <<dir, content, fdt, euid>>

\* An entry of a descriptor table; path is the name the file was opened by.
Slot == [kind : {"free", "inherited", "file"}, ino : Inodes \cup {NoInode},
         path : Paths \cup {NoPath}, rights : SUBSET {"RD", "WR"},
         append : BOOLEAN, pos : Nat, lock : LockModes]

EmptySlot(kind) == [kind |-> kind, ino |-> NoInode, path |-> NoPath,
                    rights |-> {}, append |-> FALSE, pos |-> 0, lock |-> "UN"]
FreeSlot == EmptySlot("free")

NoTable   == [fd \in Fds |-> FreeSlot]
BornTable == [fd \in Fds |->
                 IF fd \in Inherited THEN EmptySlot("inherited") ELSE FreeSlot]

KernelTypeOK ==
    /\ dir \in [Paths -> Inodes \cup {NoInode}]
    /\ content \in [Inodes -> Seq(Nat)]
    /\ fdt \in [Sessions -> [Fds -> Slot]]
    /\ euid \in [Sessions -> Uids]

KernelInit ==
    /\ dir = InitialDir
    /\ content = [i \in Inodes |-> << >>]
    /\ fdt = [s \in Sessions |-> NoTable]
    /\ euid = [s \in Sessions |-> Root]

-----------------------------------------------------------------------------
\* What the path "D/text" leads to.  The system follows ".." and links, so that
\* it may be a name in another directory; nothing the server does changes them.
Resolved(D, text) == NameOf[<<D, text>>]

Minimum(a, b) == IF a < b THEN a ELSE b

IsFree(s, fd) == fdt[s][fd].kind = "free"
IsFile(s, fd) == fdt[s][fd].kind = "file"

\* open(2) returns the lowest descriptor not in use.
LowestFree(s, fd) == IsFree(s, fd) /\ \A g \in Fds : IsFree(s, g) => fd <= g

\* An inode is in use while a name or an open descriptor refers to it.
InodeInUse(i) ==
    \/ \E p \in Paths : dir[p] = i
    \/ \E s \in Sessions : \E fd \in Fds : IsFile(s, fd) /\ fdt[s][fd].ino = i

May(s, path, right) == <<path, right>> \in Allowed[euid[s]]

\* The errors open(2) can give; with none of them it succeeds.
OpenErrors(s, path, flags) ==
    {e \in Errnos :
        \/ e = "ENOENT" /\ dir[path] = NoInode /\ "CREAT" \notin flags
        \/ e = "EACCES" /\ \/ \E r \in flags \cap {"RD", "WR"} : ~May(s, path, r)
                           \/ "TRUNC" \in flags /\ ~May(s, path, "WR")
                           \/ dir[path] = NoInode /\ ~May(s, path, "DIR")
        \/ e = "ENOSPC" /\ dir[path] = NoInode /\ \A i \in Inodes : InodeInUse(i)
        \/ e = "EMFILE" /\ \A fd \in Fds : ~IsFree(s, fd)}

OpenAt(s, path, flags, fd) ==
    /\ \E i \in Inodes :
          /\ IF dir[path] = NoInode THEN ~InodeInUse(i) ELSE i = dir[path]
          /\ dir' = [dir EXCEPT ![path] = i]
          /\ content' = IF dir[path] = NoInode \/ "TRUNC" \in flags
                        THEN [content EXCEPT ![i] = << >>] ELSE content
          /\ fdt' = [fdt EXCEPT ![s][fd] =
                        [kind |-> "file", ino |-> i, path |-> path,
                         rights |-> flags \cap {"RD", "WR"},
                         append |-> "APPEND" \in flags,
                         pos |-> 0, lock |-> "UN"]]
    /\ UNCHANGED euid

SysOpen(s, path, flags, fd) ==
    /\ OpenErrors(s, path, flags) = {}
    /\ LowestFree(s, fd)
    /\ OpenAt(s, path, flags, fd)

\* No descriptor is ever duplicated, so close(2) also releases the lock.
SysClose(s, fds) ==
    /\ fdt' = [fdt EXCEPT ![s] =
                  [fd \in Fds |-> IF fd \in fds THEN FreeSlot ELSE @[fd]]]
    /\ UNCHANGED <<dir, content, euid>>

\* read(2): the bytes from the file position on.
ReadData(s, fd, size) ==
    LET slot == fdt[s][fd]  bytes == content[slot.ino]
    IN  SubSeq(bytes, slot.pos + 1, Minimum(slot.pos + size, Len(bytes)))

SysRead(s, fd, size) ==
    /\ fdt' = [fdt EXCEPT ![s][fd].pos = @ + Len(ReadData(s, fd, size))]
    /\ UNCHANGED <<dir, content, euid>>

\* write(2) writes what fits below MaxOffset and fails when nothing does.
WritePos(s, fd) ==
    IF fdt[s][fd].append THEN Len(content[fdt[s][fd].ino]) ELSE fdt[s][fd].pos
WriteCount(s, fd, data) ==
    IF WritePos(s, fd) >= MaxOffset THEN 0
    ELSE Minimum(Len(data), MaxOffset - WritePos(s, fd))

\* bytes with data written over them from position pos on; a hole reads as 0.
Overwrite(bytes, pos, data) ==
    [k \in 1..(IF pos + Len(data) > Len(bytes) THEN pos + Len(data)
                                               ELSE Len(bytes)) |->
        IF k > pos /\ k <= pos + Len(data) THEN data[k - pos]
        ELSE IF k <= Len(bytes) THEN bytes[k] ELSE 0]

SysWrite(s, fd, data) ==
    LET i == fdt[s][fd].ino  n == WriteCount(s, fd, data)
    IN  /\ IF n = 0
           THEN UNCHANGED <<content, fdt>>
           ELSE /\ content' = [content EXCEPT ![i] =
                      Overwrite(@, WritePos(s, fd), SubSeq(data, 1, n))]
                /\ fdt' = [fdt EXCEPT ![s][fd].pos = WritePos(s, fd) + n]
        /\ UNCHANGED <<dir, euid>>

\* The position lseek(2) goes to; it fails outside 0..MaxOffset.
SeekTarget(s, fd, offset, whence) ==
    LET slot == fdt[s][fd]
    IN  offset + CASE whence = "SET" -> 0
                   [] whence = "CUR" -> slot.pos
                   [] OTHER          -> Len(content[slot.ino])

SysLseek(s, fd, pos) ==
    /\ fdt' = [fdt EXCEPT ![s][fd].pos = pos]
    /\ UNCHANGED <<dir, content, euid>>

UnlinkErrors(s, path) ==
    {e \in Errnos : \/ e = "ENOENT" /\ dir[path] = NoInode
                    \/ e = "EACCES" /\ ~May(s, path, "DIR")}

SysUnlink(s, path) ==
    /\ dir' = [dir EXCEPT ![path] = NoInode]
    /\ UNCHANGED <<content, fdt, euid>>

\* flock(2): another open file description holds an incompatible lock.
LockConflict(s, fd, mode) ==
    \E t \in Sessions : \E g \in Fds :
        /\ <<t, g>> # <<s, fd>>
        /\ IsFile(t, g) /\ fdt[t][g].ino = fdt[s][fd].ino
        /\ fdt[t][g].lock = "EX" \/ (mode = "EX" /\ fdt[t][g].lock = "SH")

SetLock(s, fd, mode) ==
    /\ fdt' = [fdt EXCEPT ![s][fd].lock = mode]
    /\ UNCHANGED <<dir, content, euid>>

\* seteuid(2) of a process whose saved user id is Root.
MaySetEuid(s, uid) == euid[s] = Root \/ uid \in {RealUid, Root}
=============================================================================
