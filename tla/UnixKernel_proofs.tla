-------------------------- MODULE UnixKernel_proofs --------------------------
(***************************************************************************)
(* Lemmas about the system calls of UnixKernel.tla, for everything that is *)
(* built on them: what each preserves of the types, and of the locks.      *)
(***************************************************************************)
EXTENDS UnixKernel, SequenceTheorems, TLAPS

-----------------------------------------------------------------------------
(* What the system calls preserve.                                         *)

\* What is read is a sequence of bytes (read(2)).
LEMMA ReadDataType ==
    ASSUME NEW s \in Sessions, NEW fd \in Fds, NEW size \in Int,
           KernelTypeOK, IsFile(s, fd), fdt[s][fd].ino \in Inodes
    PROVE  ReadData(s, fd, size) \in Seq(Nat)
<1> DEFINE bytes == content[fdt[s][fd].ino]
           lo == fdt[s][fd].pos + 1
           hi == Minimum(fdt[s][fd].pos + size, Len(bytes))
<1>1. fdt[s][fd] \in Slot
  BY DEF KernelTypeOK
<1>2. bytes \in Seq(Nat) /\ fdt[s][fd].pos \in Nat
  BY <1>1 DEF KernelTypeOK, Slot
<1>3. Len(bytes) \in Nat /\ hi \in Int /\ lo \in Nat /\ lo >= 1 /\ hi <= Len(bytes)
  BY <1>2, LenProperties DEF Minimum
<1>4. ASSUME NEW i \in lo..hi PROVE bytes[i] \in Nat
  <2>1. i \in 1..Len(bytes)
    <3> HIDE DEF bytes, lo, hi
    <3> QED BY <1>3
  <2> HIDE DEF bytes
  <2> QED BY <1>2, <2>1, ElementOfSeq
<1>5. SubSeq(bytes, lo, hi) \in Seq(Nat)
  <2> HIDE DEF bytes, lo, hi
  <2> QED BY <1>3, <1>4, SubSeqProperties
<1> QED BY <1>5 DEF ReadData

\* Writing over a sequence of bytes gives a sequence of bytes (write(2)).
LEMMA OverwriteType ==
    ASSUME NEW bytes \in Seq(Nat), NEW pos \in Nat, NEW data \in Seq(Nat)
    PROVE  Overwrite(bytes, pos, data) \in Seq(Nat)
<1> DEFINE n == IF pos + Len(data) > Len(bytes) THEN pos + Len(data) ELSE Len(bytes)
           Byte(k) == IF k > pos /\ k <= pos + Len(data) THEN data[k - pos]
                      ELSE IF k <= Len(bytes) THEN bytes[k] ELSE 0
<1>1. n \in Nat /\ Len(data) \in Nat /\ Len(bytes) \in Nat
  BY LenProperties
<1>2. ASSUME NEW k \in 1..n PROVE Byte(k) \in Nat
  <2>1. CASE k > pos /\ k <= pos + Len(data)
    <3>1. k - pos \in 1..Len(data)
      BY <1>1, <2>1
    <3> QED BY <2>1, <3>1, ElementOfSeq
  <2>2. CASE ~(k > pos /\ k <= pos + Len(data)) /\ k <= Len(bytes)
    <3>1. k \in 1..Len(bytes)
      BY <1>1, <2>2
    <3> QED BY <2>2, <3>1, ElementOfSeq
  <2>3. CASE ~(k > pos /\ k <= pos + Len(data)) /\ ~(k <= Len(bytes))
    BY <2>3
  <2> QED BY <2>1, <2>2, <2>3
<1>3. [k \in 1..n |-> Byte(k)] \in [1..n -> Nat]
  BY <1>2
<1>4. [k \in 1..n |-> Byte(k)] \in Seq(Nat)
  <2> HIDE DEF n, Byte
  <2> QED BY <1>1, <1>3, SeqDef
<1> QED BY <1>4 DEF Overwrite

\* open(2) makes one more slot of the worker that calls it a file.
LEMMA OpenAtType ==
    ASSUME NEW s \in Sessions, NEW path \in Paths, NEW flags \in OFlags,
           NEW fd \in Fds, KernelTypeOK, OpenAt(s, path, flags, fd)
    PROVE  KernelTypeOK'
<1>1. PICK i \in Inodes :
        /\ dir' = [dir EXCEPT ![path] = i]
        /\ content' = IF dir[path] = NoInode \/ "TRUNC" \in flags
                      THEN [content EXCEPT ![i] = << >>] ELSE content
        /\ fdt' = [fdt EXCEPT ![s][fd] =
                      [kind |-> "file", ino |-> i, path |-> path,
                       rights |-> flags \cap {"RD", "WR"},
                       append |-> "APPEND" \in flags, pos |-> 0, lock |-> "UN"]]
  BY DEF OpenAt
<1>2. [kind |-> "file", ino |-> i, path |-> path, rights |-> flags \cap {"RD", "WR"},
       append |-> "APPEND" \in flags, pos |-> 0, lock |-> "UN"] \in Slot
  BY DEF Slot, LockModes
<1>3. fdt' \in [Sessions -> [Fds -> Slot]]
  BY <1>1, <1>2 DEF KernelTypeOK
<1>4. content' \in [Inodes -> Seq(Nat)]
  BY <1>1 DEF KernelTypeOK
<1>5. dir' \in [Paths -> Inodes \cup {NoInode}]
  BY <1>1 DEF KernelTypeOK
<1> QED BY <1>3, <1>4, <1>5 DEF KernelTypeOK, OpenAt

\* The empty slots of a descriptor table.
LEMMA EmptySlotType ==
    ASSUME NEW kind \in {"free", "inherited"}
    PROVE  EmptySlot(kind) \in Slot
BY DEF EmptySlot, Slot, LockModes

\* close(2) frees slots.
LEMMA SysCloseType ==
    ASSUME NEW s \in Sessions, NEW fds, KernelTypeOK, SysClose(s, fds)
    PROVE  KernelTypeOK'
<1>1. FreeSlot \in Slot
  BY EmptySlotType DEF FreeSlot
<1>2. [fd \in Fds |-> IF fd \in fds THEN FreeSlot ELSE fdt[s][fd]] \in [Fds -> Slot]
  BY <1>1 DEF KernelTypeOK
<1>3. fdt' \in [Sessions -> [Fds -> Slot]]
  BY <1>2 DEF KernelTypeOK, SysClose
<1> QED BY <1>3 DEF KernelTypeOK, SysClose

\* A slot whose position changes is still a slot (read, write, lseek).
LEMMA SlotPosition ==
    ASSUME NEW slot \in Slot, NEW n \in Nat
    PROVE  [slot EXCEPT !.pos = n] \in Slot
BY DEF Slot

\* A slot whose lock changes is still a slot (flock).
LEMMA SlotLock ==
    ASSUME NEW slot \in Slot, NEW mode \in LockModes
    PROVE  [slot EXCEPT !.lock = mode] \in Slot
BY DEF Slot

\* read(2) moves the position by what it has read.
LEMMA SysReadType ==
    ASSUME NEW s \in Sessions, NEW fd \in Fds, NEW size \in Int, KernelTypeOK,
           ReadData(s, fd, size) \in Seq(Nat), SysRead(s, fd, size)
    PROVE  KernelTypeOK'
<1>1. fdt[s][fd] \in Slot /\ fdt[s][fd].pos \in Nat
  BY DEF KernelTypeOK, Slot
<1>2. fdt[s][fd].pos + Len(ReadData(s, fd, size)) \in Nat
  BY <1>1, LenProperties
<1>3. [fdt[s][fd] EXCEPT !.pos = @ + Len(ReadData(s, fd, size))] \in Slot
  BY <1>1, <1>2, SlotPosition
<1>4. fdt' \in [Sessions -> [Fds -> Slot]]
  BY <1>3 DEF KernelTypeOK, SysRead
<1> QED BY <1>4 DEF KernelTypeOK, SysRead

\* lseek(2) moves the position to where it is told.
LEMMA SysLseekType ==
    ASSUME NEW s \in Sessions, NEW fd \in Fds, NEW pos \in Nat, KernelTypeOK,
           SysLseek(s, fd, pos)
    PROVE  KernelTypeOK'
<1>1. [fdt[s][fd] EXCEPT !.pos = pos] \in Slot
  BY SlotPosition DEF KernelTypeOK
<1>2. fdt' \in [Sessions -> [Fds -> Slot]]
  BY <1>1 DEF KernelTypeOK, SysLseek
<1> QED BY <1>2 DEF KernelTypeOK, SysLseek

\* flock(2) changes the lock of one slot.
LEMMA SetLockType ==
    ASSUME NEW s \in Sessions, NEW fd \in Fds, NEW mode \in LockModes,
           KernelTypeOK, SetLock(s, fd, mode)
    PROVE  KernelTypeOK'
<1>1. [fdt[s][fd] EXCEPT !.lock = mode] \in Slot
  BY SlotLock DEF KernelTypeOK
<1>2. fdt' \in [Sessions -> [Fds -> Slot]]
  BY <1>1 DEF KernelTypeOK, SetLock
<1> QED BY <1>2 DEF KernelTypeOK, SetLock

\* unlink(2) removes a name.
LEMMA SysUnlinkType ==
    ASSUME NEW s \in Sessions, NEW path \in Paths, KernelTypeOK, SysUnlink(s, path)
    PROVE  KernelTypeOK'
BY DEF KernelTypeOK, SysUnlink

\* write(2) changes the bytes of one file and the position of one slot.
LEMMA SysWriteType ==
    ASSUME NEW s \in Sessions, NEW fd \in Fds, NEW data \in Seq(Nat),
           fdt[s][fd].ino \in Inodes, KernelTypeOK, SysWrite(s, fd, data)
    PROVE  /\ KernelTypeOK'
           /\ WriteCount(s, fd, data) \in 0..Len(data)
<1> DEFINE i == fdt[s][fd].ino
           n == WriteCount(s, fd, data)
           p == WritePos(s, fd)
<1>1. fdt[s][fd] \in Slot /\ fdt[s][fd].pos \in Nat /\ content[i] \in Seq(Nat)
  BY DEF KernelTypeOK, Slot
<1>2. p \in Nat /\ Len(data) \in Nat /\ MaxOffset \in Nat
  BY <1>1, LenProperties, KernelAssumption DEF WritePos
<1>3. n \in 0..Len(data)
  BY <1>2 DEF WriteCount, Minimum
<1>4. CASE n = 0
  BY <1>3, <1>4 DEF SysWrite, KernelTypeOK
<1>5. CASE n # 0
  <2>1. SubSeq(data, 1, n) \in Seq(Nat)
    <3>1. \A k \in 1..n : data[k] \in Nat
      BY <1>2, <1>3, ElementOfSeq
    <3> HIDE DEF n
    <3> QED BY <1>3, <3>1, SubSeqProperties
  <2>2. Overwrite(content[i], p, SubSeq(data, 1, n)) \in Seq(Nat)
    BY <1>1, <1>2, <2>1, OverwriteType
  <2>3. [fdt[s][fd] EXCEPT !.pos = p + n] \in Slot
    <3>1. p + n \in Nat
      BY <1>2, <1>3
    <3> QED BY <1>1, <3>1, SlotPosition
  <2>4. /\ content' = [content EXCEPT ![i] = Overwrite(@, p, SubSeq(data, 1, n))]
        /\ fdt' = [fdt EXCEPT ![s][fd].pos = p + n]
        /\ UNCHANGED <<dir, euid>>
    BY <1>5 DEF SysWrite
  <2>5. content' \in [Inodes -> Seq(Nat)]
    BY <2>2, <2>4 DEF KernelTypeOK
  <2>6. fdt' \in [Sessions -> [Fds -> Slot]]
    BY <2>3, <2>4 DEF KernelTypeOK
  <2> QED BY <1>3, <2>4, <2>5, <2>6 DEF KernelTypeOK
<1> QED BY <1>4, <1>5

-----------------------------------------------------------------------------
(* Locks.                                                                  *)

\* Two locks of one file are both shared (flock(2)).
LocksInv ==
    \A s, t \in Sessions : \A fd, g \in Fds :
        /\ <<s, fd>> # <<t, g>> /\ IsFile(s, fd) /\ IsFile(t, g)
        /\ fdt[s][fd].ino = fdt[t][g].ino /\ fdt[s][fd].lock = "EX"
        => fdt[t][g].lock = "UN"

\* In this step the process of session s gives locks up, or leaves them alone ...
WeakensLocks(s) ==
    \A fd \in Fds : IsFile(s, fd)' =>
        \/ fdt'[s][fd].lock = "UN"
        \/ /\ IsFile(s, fd)
           /\ fdt'[s][fd].ino = fdt[s][fd].ino /\ fdt'[s][fd].lock = fdt[s][fd].lock

\* ... or is given one that no other open file excludes.
TakesLock(s) ==
    \E fd \in Fds : \E mode \in LockModes :
        /\ IsFile(s, fd) /\ ~LockConflict(s, fd, mode)
        /\ fdt' = [fdt EXCEPT ![s][fd].lock = mode]

\* Locks that are given up do not conflict.
LEMMA WeakerLocks ==
    ASSUME NEW s \in Sessions, LocksInv, WeakensLocks(s),
           \A t \in Sessions \ {s} : fdt'[t] = fdt[t]
    PROVE  LocksInv'
<1>1. \A t \in Sessions : WeakensLocks(t)
  BY DEF WeakensLocks, IsFile
<1> QED BY <1>1 DEF LocksInv, WeakensLocks

\* A lock that is given does not conflict.
LEMMA LockTaken ==
    ASSUME NEW s \in Sessions, KernelTypeOK, LocksInv, TakesLock(s)
    PROVE  LocksInv'
<1>1. PICK fd \in Fds, mode \in LockModes :
        /\ IsFile(s, fd) /\ ~LockConflict(s, fd, mode)
        /\ fdt' = [fdt EXCEPT ![s][fd].lock = mode]
  BY DEF TakesLock
<1>2. fdt \in [Sessions -> [Fds -> Slot]]
  BY DEF KernelTypeOK
<1>3. /\ fdt'[s][fd].kind = fdt[s][fd].kind /\ fdt'[s][fd].ino = fdt[s][fd].ino
      /\ fdt'[s][fd].lock = mode
  <2>1. fdt'[s][fd] = [fdt[s][fd] EXCEPT !.lock = mode] /\ fdt[s][fd] \in Slot
    BY <1>1, <1>2
  <2> QED BY <2>1 DEF Slot
<1>4. \A t \in Sessions : \A g \in Fds : <<t, g>> # <<s, fd>> => fdt'[t][g] = fdt[t][g]
  BY <1>1, <1>2
<1>5. \A t \in Sessions : \A g \in Fds :
         IsFile(t, g)' => IsFile(t, g) /\ fdt'[t][g].ino = fdt[t][g].ino
  BY <1>1, <1>3, <1>4 DEF IsFile
<1>6. ASSUME NEW t \in Sessions, NEW g \in Fds, <<t, g>> # <<s, fd>>, IsFile(t, g)',
             fdt'[t][g].ino = fdt'[s][fd].ino
      PROVE  /\ fdt'[t][g].lock # "EX"
             /\ mode = "EX" => fdt'[t][g].lock = "UN"
  <2>1. IsFile(t, g) /\ fdt[t][g].ino = fdt[s][fd].ino /\ fdt[t][g].lock \in LockModes
    BY <1>2, <1>3, <1>5, <1>6 DEF Slot
  <2> QED BY <1>1, <1>4, <1>6, <2>1 DEF LockConflict, LockModes
<1> SUFFICES ASSUME NEW t \in Sessions, NEW u \in Sessions, NEW g \in Fds, NEW h \in Fds,
                    <<t, g>> # <<u, h>>, IsFile(t, g)', IsFile(u, h)',
                    fdt'[t][g].ino = fdt'[u][h].ino, fdt'[t][g].lock = "EX"
             PROVE  fdt'[u][h].lock = "UN"
  BY DEF LocksInv
<1>7. CASE <<t, g>> = <<s, fd>>
  BY <1>3, <1>6, <1>7
<1>8. CASE <<u, h>> = <<s, fd>>
  BY <1>6, <1>8
<1>9. CASE <<t, g>> # <<s, fd>> /\ <<u, h>> # <<s, fd>>
  BY <1>4, <1>5, <1>9 DEF LocksInv
<1> QED BY <1>7, <1>8, <1>9

\* A slot whose position changes keeps its lock.
LEMMA PositionWeakens ==
    ASSUME NEW s \in Sessions, NEW fd \in Fds, NEW n, KernelTypeOK,
           fdt' = [fdt EXCEPT ![s][fd].pos = n]
    PROVE  WeakensLocks(s)
<1>1. fdt \in [Sessions -> [Fds -> Slot]]
  BY DEF KernelTypeOK
<1>2. \A g \in Fds \ {fd} : fdt'[s][g] = fdt[s][g]
  BY <1>1
<1>3. fdt'[s][fd] = [fdt[s][fd] EXCEPT !.pos = n] /\ fdt[s][fd] \in Slot
  BY <1>1
<1>4. /\ fdt'[s][fd].kind = fdt[s][fd].kind /\ fdt'[s][fd].ino = fdt[s][fd].ino
      /\ fdt'[s][fd].lock = fdt[s][fd].lock
  BY <1>3 DEF Slot
<1> QED BY <1>2, <1>4 DEF WeakensLocks, IsFile

\* A lock that is given up, or asked for once more.
LEMMA LockWeakens ==
    ASSUME NEW s \in Sessions, NEW fd \in Fds, NEW mode, KernelTypeOK,
           mode = "UN" \/ (mode = fdt[s][fd].lock /\ IsFile(s, fd)),
           fdt' = [fdt EXCEPT ![s][fd].lock = mode]
    PROVE  WeakensLocks(s)
<1>1. fdt \in [Sessions -> [Fds -> Slot]]
  BY DEF KernelTypeOK
<1>2. \A g \in Fds \ {fd} : fdt'[s][g] = fdt[s][g]
  BY <1>1
<1>3. fdt'[s][fd] = [fdt[s][fd] EXCEPT !.lock = mode] /\ fdt[s][fd] \in Slot
  BY <1>1
<1>4. fdt'[s][fd].ino = fdt[s][fd].ino /\ fdt'[s][fd].lock = mode
  BY <1>3 DEF Slot
<1> QED BY <1>2, <1>4 DEF WeakensLocks, IsFile

\* A file that is closed has no lock.
LEMMA CloseWeakens ==
    ASSUME NEW s \in Sessions, NEW fds, KernelTypeOK, SysClose(s, fds)
    PROVE  WeakensLocks(s)
<1>1. \A fd \in Fds : fdt'[s][fd] \in {FreeSlot, fdt[s][fd]}
  BY DEF SysClose, KernelTypeOK
<1>2. FreeSlot.kind # "file"
  BY DEF FreeSlot, EmptySlot
<1> QED BY <1>1, <1>2 DEF WeakensLocks, IsFile

\* A file that is opened is not locked.
LEMMA OpenWeakens ==
    ASSUME NEW s \in Sessions, NEW fd \in Fds, NEW path, NEW flags, KernelTypeOK,
           OpenAt(s, path, flags, fd)
    PROVE  WeakensLocks(s)
<1>1. (\A g \in Fds \ {fd} : fdt'[s][g] = fdt[s][g]) /\ fdt'[s][fd].lock = "UN"
  BY DEF OpenAt, KernelTypeOK
<1> QED BY <1>1 DEF WeakensLocks, IsFile

-----------------------------------------------------------------------------
(* What the system calls change in the tables.                             *)

\* read, write and lseek change one position.
LEMMA PositionSet ==
    ASSUME NEW s \in Sessions, NEW fd \in Fds, NEW n, KernelTypeOK,
           fdt' = [fdt EXCEPT ![s][fd].pos = n]
    PROVE  /\ \A t \in Sessions \ {s} : fdt'[t] = fdt[t]
           /\ \A g \in Fds \ {fd} : fdt'[s][g] = fdt[s][g]
           /\ fdt'[s][fd].kind = fdt[s][fd].kind /\ fdt'[s][fd].ino = fdt[s][fd].ino
           /\ fdt'[s][fd].path = fdt[s][fd].path /\ fdt'[s][fd].rights = fdt[s][fd].rights
           /\ fdt'[s][fd].append = fdt[s][fd].append /\ fdt'[s][fd].lock = fdt[s][fd].lock
           /\ fdt'[s][fd].pos = n
<1>1. fdt \in [Sessions -> [Fds -> Slot]]
  BY DEF KernelTypeOK
<1>2. fdt'[s][fd] = [fdt[s][fd] EXCEPT !.pos = n] /\ fdt[s][fd] \in Slot
  BY <1>1
<1>3. \A t \in Sessions \ {s} : fdt'[t] = fdt[t]
  BY <1>1
<1>4. \A g \in Fds \ {fd} : fdt'[s][g] = fdt[s][g]
  BY <1>1
<1> QED BY <1>2, <1>3, <1>4 DEF Slot

\* flock changes one lock.
LEMMA LockSet ==
    ASSUME NEW s \in Sessions, NEW fd \in Fds, NEW mode, KernelTypeOK,
           fdt' = [fdt EXCEPT ![s][fd].lock = mode]
    PROVE  /\ \A t \in Sessions \ {s} : fdt'[t] = fdt[t]
           /\ \A g \in Fds \ {fd} : fdt'[s][g] = fdt[s][g]
           /\ fdt'[s][fd].kind = fdt[s][fd].kind /\ fdt'[s][fd].ino = fdt[s][fd].ino
           /\ fdt'[s][fd].path = fdt[s][fd].path /\ fdt'[s][fd].rights = fdt[s][fd].rights
           /\ fdt'[s][fd].append = fdt[s][fd].append /\ fdt'[s][fd].pos = fdt[s][fd].pos
           /\ fdt'[s][fd].lock = mode
<1>1. fdt \in [Sessions -> [Fds -> Slot]]
  BY DEF KernelTypeOK
<1>2. fdt'[s][fd] = [fdt[s][fd] EXCEPT !.lock = mode] /\ fdt[s][fd] \in Slot
  BY <1>1
<1>3. \A t \in Sessions \ {s} : fdt'[t] = fdt[t]
  BY <1>1
<1>4. \A g \in Fds \ {fd} : fdt'[s][g] = fdt[s][g]
  BY <1>1
<1> QED BY <1>2, <1>3, <1>4 DEF Slot

\* open gives a free slot to a file, which it may create or truncate.
LEMMA FileOpened ==
    ASSUME NEW s \in Sessions, NEW path \in Paths, NEW flags, NEW fd \in Fds,
           KernelTypeOK, OpenAt(s, path, flags, fd)
    PROVE  /\ \A t \in Sessions \ {s} : fdt'[t] = fdt[t]
           /\ \A g \in Fds \ {fd} : fdt'[s][g] = fdt[s][g]
           /\ IsFile(s, fd)' /\ fdt'[s][fd].ino = dir'[path] /\ fdt'[s][fd].path = path
           /\ fdt'[s][fd].rights = flags \cap {"RD", "WR"}
           /\ fdt'[s][fd].append = ("APPEND" \in flags)
           /\ fdt'[s][fd].pos = 0 /\ fdt'[s][fd].lock = "UN"
           /\ dir'[path] \in Inodes
           /\ dir[path] # NoInode =>
                  dir' = dir /\ ("TRUNC" \notin flags => content' = content)
           /\ dir[path] = NoInode =>
                  /\ ~InodeInUse(dir'[path]) /\ dir' = [dir EXCEPT ![path] = dir'[path]]
                  /\ content' = [content EXCEPT ![dir'[path]] = << >>]
<1> DEFINE slot(i) == [kind |-> "file", ino |-> i, path |-> path,
                       rights |-> flags \cap {"RD", "WR"},
                       append |-> "APPEND" \in flags, pos |-> 0, lock |-> "UN"]
<1>1. PICK i \in Inodes :
        /\ IF dir[path] = NoInode THEN ~InodeInUse(i) ELSE i = dir[path]
        /\ dir' = [dir EXCEPT ![path] = i]
        /\ content' = IF dir[path] = NoInode \/ "TRUNC" \in flags
                      THEN [content EXCEPT ![i] = << >>] ELSE content
        /\ fdt' = [fdt EXCEPT ![s][fd] = slot(i)]
  BY DEF OpenAt
<1>2. fdt \in [Sessions -> [Fds -> Slot]] /\ dir \in [Paths -> Inodes \cup {NoInode}]
  BY DEF KernelTypeOK
<1>3. dir'[path] = i
  BY <1>1, <1>2
<1>4. fdt'[s][fd] = slot(i) /\ \A g \in Fds \ {fd} : fdt'[s][g] = fdt[s][g]
  <2> HIDE DEF slot
  <2> QED BY <1>1, <1>2
<1>5. \A t \in Sessions \ {s} : fdt'[t] = fdt[t]
  <2> HIDE DEF slot
  <2> QED BY <1>1, <1>2
<1>6. IsFile(s, fd)' /\ fdt'[s][fd].ino = i /\ fdt'[s][fd].path = path
      /\ fdt'[s][fd].rights = flags \cap {"RD", "WR"}
      /\ fdt'[s][fd].pos = 0 /\ fdt'[s][fd].lock = "UN"
  BY <1>4 DEF IsFile
<1>7. fdt'[s][fd].append = ("APPEND" \in flags)
  <2>1. slot(i).append = ("APPEND" \in flags)
    BY Zenon
  <2> HIDE DEF slot
  <2> QED BY <1>4, <2>1, Zenon
<1>8. dir[path] # NoInode => dir' = dir /\ ("TRUNC" \notin flags => content' = content)
  BY <1>1, <1>2
<1>9. dir[path] = NoInode =>
        /\ ~InodeInUse(dir'[path]) /\ dir' = [dir EXCEPT ![path] = dir'[path]]
        /\ content' = [content EXCEPT ![dir'[path]] = << >>]
  BY <1>1, <1>3
<1> QED BY <1>3, <1>4, <1>5, <1>6, <1>7, <1>8, <1>9

\* close frees slots, and leaves the others alone.
LEMMA FilesClosed ==
    ASSUME NEW s \in Sessions, NEW fds, KernelTypeOK, SysClose(s, fds)
    PROVE  /\ \A t \in Sessions \ {s} : fdt'[t] = fdt[t]
           /\ \A g \in Fds \ fds : fdt'[s][g] = fdt[s][g]
           /\ \A g \in Fds : IsFile(s, g)' => g \notin fds
<1>1. FreeSlot.kind # "file"
  BY DEF FreeSlot, EmptySlot
<1> QED BY <1>1 DEF SysClose, KernelTypeOK, IsFile

-----------------------------------------------------------------------------
(* What the system calls make of the bytes.                                *)

\* Who reads as many bytes as a file has, from its start, reads all of it.
LEMMA WholeFileRead ==
    ASSUME NEW s \in Sessions, NEW fd \in Fds, NEW i \in Inodes, KernelTypeOK,
           fdt[s][fd].ino = i, fdt[s][fd].pos = 0
    PROVE  ReadData(s, fd, Len(content[i])) = content[i]
<1> PICK bytes : bytes = content[i]
  OBVIOUS
<1>1. bytes \in Seq(Nat) /\ Len(bytes) \in Nat
  BY LenProperties DEF KernelTypeOK
<1>2. ReadData(s, fd, Len(bytes)) = SubSeq(bytes, 0 + 1, Minimum(0 + Len(bytes), Len(bytes)))
  BY DEF ReadData
<1>3. 0 + 1 = 1 /\ Minimum(0 + Len(bytes), Len(bytes)) = Len(bytes)
  BY <1>1 DEF Minimum
<1>4. SubSeq(bytes, 1, Len(bytes)) = bytes
  BY <1>1, SubSeqFull
<1> QED BY <1>2, <1>3, <1>4

\* A byte of a file after a write.
ByteAfter(bytes, pos, data, k) ==
    IF k > pos /\ k <= pos + Len(data) THEN data[k - pos]
    ELSE IF k <= Len(bytes) THEN bytes[k] ELSE 0

\* How many bytes there are after a write, and which.
LEMMA OverwriteBytes ==
    ASSUME NEW bytes \in Seq(Nat), NEW pos \in Nat, NEW data \in Seq(Nat)
    PROVE  /\ Len(Overwrite(bytes, pos, data)) =
                  IF pos + Len(data) > Len(bytes) THEN pos + Len(data) ELSE Len(bytes)
           /\ \A k \in 1..Len(Overwrite(bytes, pos, data)) :
                  Overwrite(bytes, pos, data)[k] = ByteAfter(bytes, pos, data, k)
<1> DEFINE n == IF pos + Len(data) > Len(bytes) THEN pos + Len(data) ELSE Len(bytes)
           Byte(k) == ByteAfter(bytes, pos, data, k)
<1> PICK w : w = Overwrite(bytes, pos, data)
  OBVIOUS
<1>1. w = [k \in 1..n |-> Byte(k)]
  BY DEF Overwrite, ByteAfter
<1>2. w \in Seq(Nat) /\ n \in Nat
  BY OverwriteType, LenProperties
<1>3. DOMAIN w = 1..n /\ DOMAIN w = 1..Len(w) /\ Len(w) \in Nat
  <2> HIDE DEF n, Byte
  <2> QED BY <1>1, <1>2, LenProperties
<1>4. Len(w) = n
  <2> HIDE DEF n
  <2> QED BY <1>2, <1>3
<1>5. \A k \in 1..Len(w) : w[k] = Byte(k)
  <2> HIDE DEF n, Byte
  <2> QED BY <1>1, <1>4
<1> QED BY <1>4, <1>5

\* What is written over the start of a file is there.
LEMMA StartWritten ==
    ASSUME NEW bytes \in Seq(Nat), NEW data \in Seq(Nat), NEW n \in 0..Len(data)
    PROVE  SubSeq(Overwrite(bytes, 0, SubSeq(data, 1, n)), 1, n) = SubSeq(data, 1, n)
<1> PICK new : new = SubSeq(data, 1, n)
  OBVIOUS
<1> PICK z : z = 0
  OBVIOUS
<1> PICK w : w = Overwrite(bytes, z, new)
  OBVIOUS
<1>1. n \in Nat /\ Len(data) \in Nat /\ Len(bytes) \in Nat
  BY LenProperties
<1>2. new \in Seq(Nat) /\ Len(new) = n
  <2>1. \A k \in 1..n : data[k] \in Nat
    BY <1>1, ElementOfSeq
  <2>2. /\ SubSeq(data, 1, n) \in Seq(Nat)
        /\ Len(SubSeq(data, 1, n)) = IF 1 <= n THEN n - 1 + 1 ELSE 0
    BY <1>1, <2>1, SubSeqProperties
  <2> QED BY <1>1, <2>2
<1>3. w \in Seq(Nat) /\ Len(w) \in Nat /\ n <= Len(w)
      /\ \A k \in 1..n : w[k] = new[k]
  <2>1. w \in Seq(Nat)
    BY <1>2, OverwriteType
  <2>2. Len(w) = IF z + Len(new) > Len(bytes) THEN z + Len(new) ELSE Len(bytes)
    BY <1>2, OverwriteBytes
  <2>3. Len(w) \in Nat /\ n <= Len(w)
    BY <1>1, <1>2, <2>2
  <2>4. ASSUME NEW k \in 1..n PROVE w[k] = new[k]
    <3>1. k \in 1..Len(w)
      BY <1>1, <2>3
    <3>2. w[k] = ByteAfter(bytes, z, new, k)
      BY <1>2, <3>1, OverwriteBytes
    <3> QED BY <1>1, <1>2, <3>2 DEF ByteAfter
  <2> QED BY <2>1, <2>3, <2>4
<1>4. /\ SubSeq(w, 1, n) \in Seq(Nat) /\ Len(SubSeq(w, 1, n)) = n
      /\ \A k \in 1..n : SubSeq(w, 1, n)[k] = w[k]
  <2>1. \A k \in 1..n : w[k] \in Nat
    BY <1>1, <1>3, ElementOfSeq
  <2>2. /\ SubSeq(w, 1, n) \in Seq(Nat)
        /\ Len(SubSeq(w, 1, n)) = IF 1 <= n THEN n - 1 + 1 ELSE 0
        /\ \A k \in 1..n - 1 + 1 : SubSeq(w, 1, n)[k] = w[1 + k - 1]
    BY <1>1, <2>1, SubSeqProperties
  <2>3. n - 1 + 1 = n /\ \A k \in 1..n : 1 + k - 1 = k
    BY <1>1
  <2> QED BY <1>1, <2>2, <2>3
<1>5. SubSeq(w, 1, n) = new
  BY <1>2, <1>3, <1>4, SeqEqual
<1> QED BY <1>5

\* One byte that is written at the end of a file is appended to it.
LEMMA ByteAppended ==
    ASSUME NEW bytes \in Seq(Nat), NEW x \in Nat
    PROVE  Overwrite(bytes, Len(bytes), SubSeq(<<x>>, 1, 1)) = Append(bytes, x)
<1> PICK data : data = <<x>>
  OBVIOUS
<1>1. data \in Seq(Nat) /\ Len(data) = 1 /\ data[1] = x
  OBVIOUS
<1>2. SubSeq(<<x>>, 1, 1) = data
  BY <1>1, SubSeqFull
<1> PICK n : n = Len(bytes)
  OBVIOUS
<1>3. n \in Nat
  BY LenProperties
<1> PICK w : w = Overwrite(bytes, n, data)
  OBVIOUS
<1>4. w \in Seq(Nat)
  BY <1>1, <1>3, OverwriteType
<1>5. Len(w) = n + 1 /\ \A k \in 1..Len(w) : w[k] = ByteAfter(bytes, n, data, k)
  <2>1. Len(w) = (IF n + Len(data) > Len(bytes) THEN n + Len(data) ELSE Len(bytes))
        /\ \A k \in 1..Len(w) : w[k] = ByteAfter(bytes, n, data, k)
    BY <1>1, <1>3, OverwriteBytes
  <2> QED BY <1>1, <1>3, <2>1
<1>6. \A k \in 1..n + 1 : w[k] = IF k <= n THEN bytes[k] ELSE x
  BY <1>1, <1>3, <1>5 DEF ByteAfter
<1> PICK a : a = Append(bytes, x)
  OBVIOUS
<1>7. /\ a \in Seq(Nat) /\ Len(a) = n + 1
      /\ \A k \in 1..n + 1 : a[k] = IF k <= n THEN bytes[k] ELSE x
  <2>1. a \in Seq(Nat) /\ Len(a) = Len(bytes) + 1
        /\ (\A k \in 1..Len(bytes) : a[k] = bytes[k]) /\ a[Len(bytes) + 1] = x
    BY AppendProperties
  <2> QED BY <1>3, <2>1
<1>8. w = a
  BY <1>3, <1>4, <1>5, <1>6, <1>7, SeqEqual
<1> QED BY <1>2, <1>8

\* A write of one byte writes it, or there is no room for it.
LEMMA ByteWritten ==
    ASSUME NEW s \in Sessions, NEW fd \in Fds, NEW x \in Nat, KernelTypeOK,
           fdt[s][fd].ino \in Inodes, fdt[s][fd].append, SysWrite(s, fd, <<x>>)
    PROVE  LET i == fdt[s][fd].ino
           IN  /\ WriteCount(s, fd, <<x>>) \in 0..1
               /\ WriteCount(s, fd, <<x>>) = 0 <=> Len(content[i]) >= MaxOffset
               /\ WriteCount(s, fd, <<x>>) = 1 =>
                      /\ content' = [content EXCEPT ![i] = Append(@, x)]
                      /\ \E n : fdt' = [fdt EXCEPT ![s][fd].pos = n]
<1> PICK i : i = fdt[s][fd].ino
  OBVIOUS
<1>1. content[i] \in Seq(Nat) /\ Len(content[i]) \in Nat /\ MaxOffset \in Nat
  BY LenProperties, KernelAssumption DEF KernelTypeOK
<1>2. WritePos(s, fd) = Len(content[i])
  BY DEF WritePos
<1>3. Len(<<x>>) = 1
  OBVIOUS
<1> PICK n : n = WriteCount(s, fd, <<x>>)
  OBVIOUS
<1>4. n = IF Len(content[i]) >= MaxOffset THEN 0 ELSE 1
  BY <1>1, <1>2, <1>3 DEF WriteCount, Minimum
<1>5. n = 1 => /\ content' = [content EXCEPT ![i] = Append(@, x)]
               /\ \E m : fdt' = [fdt EXCEPT ![s][fd].pos = m]
  <2> SUFFICES ASSUME n = 1
               PROVE  /\ content' = [content EXCEPT ![i] = Append(content[i], x)]
                      /\ \E m : fdt' = [fdt EXCEPT ![s][fd].pos = m]
    OBVIOUS
  <2>1. /\ content' = [content EXCEPT ![i] =
                           Overwrite(content[i], Len(content[i]), SubSeq(<<x>>, 1, 1))]
        /\ fdt' = [fdt EXCEPT ![s][fd].pos = WritePos(s, fd) + 1]
    BY <1>2 DEF SysWrite
  <2>2. Overwrite(content[i], Len(content[i]), SubSeq(<<x>>, 1, 1)) = Append(content[i], x)
    BY <1>1, ByteAppended
  <2> QED BY <2>1, <2>2
<1>6. n \in 0..1 /\ (n = 0 <=> Len(content[i]) >= MaxOffset)
  BY <1>1, <1>4
<1> QED BY <1>5, <1>6
=============================================================================
