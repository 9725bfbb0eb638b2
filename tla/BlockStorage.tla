---------------------------- MODULE BlockStorage ----------------------------
(***************************************************************************)
(* The block file of a Shepoo server (server/src/blockstorage.cpp).        *)
(*                                                                         *)
(* The server calls stat() on the block file once, in the constructor of   *)
(* Blockstorage, before it accepts the first client.  Every forked child   *)
(* inherits that length and answers its client's request from it, while    *)
(* the file itself may be resized, replaced or deleted underneath.         *)
(*                                                                         *)
(* All arithmetic of the code is on uint64_t; Width stands for 2^64.       *)
(***************************************************************************)
EXTENDS Integers

CONSTANTS
  Readers,      \* the forked children that may call getBlock
  BlockNumbers, \* the block numbers that clients ask for
  BLOCK_SIZE,   \* the preprocessor constant of the same name
  Width,        \* number of values of a uint64_t
  MaxLength,    \* bound: the longest block file
  Inodes,       \* bound: the files that are ever found under the path
  NoFile,       \* the path names no file / the descriptor is -1
  NULL,         \* the null pointer
  Unread,       \* no value yet, in module BlockReads
  Garbage       \* a byte of an uninitialised heap buffer

ASSUME SizeAssumption ==
  /\ BLOCK_SIZE \in Nat \ {0}
  /\ Width \in Nat
  /\ MaxLength \in Nat
  /\ 2 * MaxLength < Width      \* off_t is signed
  /\ BLOCK_SIZE < Width
  /\ BlockNumbers \subseteq 0 .. (Width - 1)

ASSUME FileAssumption ==
  /\ NoFile \notin Inodes
  /\ Garbage \notin Inodes \X Nat
  /\ NULL # Unread
  /\ \A v \in {NULL, Unread} :
       v \notin [0 .. (BLOCK_SIZE - 1) -> (Inodes \X Nat) \cup {Garbage}]

VARIABLES
  path,        \* the inode that _path names, or NoFile
  size,        \* the length of every inode
  regionLocks, \* block numbers whose region another program has locked
  fileLength,  \* _fileLength
  pc,          \* where every child stands in getBlock
  num,         \* the argument of getBlock
  fd,          \* the inode open as fd, or NoFile
  block,       \* what getBlock returns: NULL or BLOCK_SIZE bytes
  failed       \* the children in getBlock for which open() or read() has failed
               \* on a file that is there (EACCES, EMFILE; EIO, EISDIR)

fileVars   == <<path, size, regionLocks>>
readerVars == <<pc, num, fd, block, failed>>
vars       == <<fileVars, fileLength, readerVars>>

Offsets == 0 .. (BLOCK_SIZE - 1)

\* A stored byte is known by its inode and its offset in it.
Byte   == (Inodes \X Nat) \cup {Garbage}
Buffer == [Offsets -> Byte]

-----------------------------------------------------------------------------
(***************************************************************************)
(* The arithmetic of isBlockAvailable and of the two calls of lseek64.     *)
(***************************************************************************)

uint64(x) == x % Width

ByteOffset(n) == uint64(n * BLOCK_SIZE)

IsBlockAvailableStrict(n) == ByteOffset(n) < uint64(fileLength - BLOCK_SIZE)

IsBlockAvailableLast(n) == ByteOffset(n) <= fileLength

\* The comparison of isBlockAvailable, the wrap-around of its subtraction and
\* of its multiplication included.
IsBlockAvailable(n) == ByteOffset(n) <= uint64(fileLength - BLOCK_SIZE)

SeekNowhere(n) == 0

\* The offset after lseek64(fd, n * BLOCK_SIZE, SEEK_SET): an off64_t is signed,
\* a negative one is refused and leaves the fresh descriptor at offset 0.
SeekOffset(n) ==
  IF 2 * ByteOffset(n) < Width THEN ByteOffset(n) ELSE 0

FileSize(f) == IF f = NoFile THEN 0 ELSE size[f]

ReadBufferMeasured(f, offset) ==
  [k \in Offsets |->
     IF offset + k < fileLength THEN <<f, offset + k>> ELSE Garbage]

\* What read() leaves in the freshly allocated buffer: a read that meets the end
\* of the file, or one on the descriptor -1, leaves the rest as the heap left it.
ReadBuffer(f, offset) ==
  [k \in Offsets |->
     IF offset + k < FileSize(f) THEN <<f, offset + k>> ELSE Garbage]

\* A read() that fails, with -1 or with a short count after n bytes.
CutBuffer(f, offset, n) ==
  [k \in Offsets |-> IF k < n THEN ReadBuffer(f, offset)[k] ELSE Garbage]

-----------------------------------------------------------------------------
(***************************************************************************)
(* The constructor.                                                        *)
(***************************************************************************)

StatError == IF path = NoFile THEN -1 ELSE size[path]

\* stat() on a zeroed buffer whose result is not looked at.
StatSize == FileSize(path)

Init ==
  /\ path \in Inodes \cup {NoFile}
  /\ size \in [Inodes -> 0 .. MaxLength]
  /\ regionLocks \in SUBSET BlockNumbers
  /\ fileLength = StatSize
  /\ pc    = [r \in Readers |-> "idle"]
  /\ num   = [r \in Readers |-> 0]
  /\ fd    = [r \in Readers |-> NoFile]
  /\ block = [r \in Readers |-> NULL]
  /\ failed = {}

-----------------------------------------------------------------------------
(***************************************************************************)
(* getBlock, one step per system call that another process can get between.*)
(***************************************************************************)

Goto(r, from, to) ==
  /\ pc[r] = from
  /\ pc' = [pc EXCEPT ![r] = to]

CallUnavailable(r, n) ==
  /\ ~IsBlockAvailable(n)
  /\ Goto(r, "idle", "returned")
  /\ num' = [num EXCEPT ![r] = n]
  /\ UNCHANGED <<fileVars, fileLength, fd, block, failed>>

CallAvailable(r, n) ==
  /\ IsBlockAvailable(n)
  /\ Goto(r, "idle", "open")
  /\ num' = [num EXCEPT ![r] = n]
  /\ UNCHANGED <<fileVars, fileLength, fd, block, failed>>

OpenFile(r) ==
  /\ Goto(r, "open", "lock")
  /\ fd' = [fd EXCEPT ![r] = path]
  /\ UNCHANGED <<fileVars, fileLength, num, block, failed>>

\* open() gives -1 though the file is there; nothing looks at the result.
OpenFails(r) ==
  /\ Goto(r, "open", "lock")
  /\ path # NoFile
  /\ failed' = failed \cup {r}
  /\ UNCHANGED <<fileVars, fileLength, num, fd, block>>

ReadWrite == {"read", "write"}

\* open(path, O_LARGEFILE): the access mode is O_RDONLY.
OpenMode == {"read"}

\* lockf sets a write lock: on a descriptor that is not open for writing it
\* fails at once with EBADF, and only otherwise it waits for the holder.
LockReturns(r) ==
  \/ fd[r] = NoFile
  \/ "write" \notin OpenMode
  \/ num[r] \notin regionLocks

\* lseek64, then lockf, whose result is not looked at.
LockBlock(r) ==
  /\ LockReturns(r)
  /\ Goto(r, "lock", "read")
  /\ UNCHANGED <<fileVars, fileLength, num, fd, block, failed>>

ReadBlock(r) ==
  /\ Goto(r, "read", "unlock")
  /\ block' = [block EXCEPT ![r] = ReadBuffer(fd[r], SeekOffset(num[r]))]
  /\ UNCHANGED <<fileVars, fileLength, num, fd, failed>>

\* read() fails on the open file; nothing looks at the result.
ReadFails(r) ==
  /\ Goto(r, "read", "unlock")
  /\ fd[r] # NoFile
  /\ failed' = failed \cup {r}
  /\ \E n \in Offsets :
       block' = [block EXCEPT ![r] = CutBuffer(fd[r], SeekOffset(num[r]), n)]
  /\ UNCHANGED <<fileVars, fileLength, num, fd>>

\* lseek64, lockf(F_ULOCK) and close.
CloseFile(r) ==
  /\ Goto(r, "unlock", "returned")
  /\ fd' = [fd EXCEPT ![r] = NoFile]
  /\ failed' = failed \ {r}
  /\ UNCHANGED <<fileVars, fileLength, num, block>>

GetBlockStep(r) ==
  \/ OpenFile(r) \/ OpenFails(r)
  \/ LockBlock(r)
  \/ ReadBlock(r) \/ ReadFails(r)
  \/ CloseFile(r)

-----------------------------------------------------------------------------
(***************************************************************************)
(* What other programs and the operator do to the file.  The server itself *)
(* never writes it: storeBlock has an empty body.                          *)
(***************************************************************************)

\* The kill-switch of README.md: the name goes, descriptors stay open.
DeleteFile ==
  /\ path # NoFile
  /\ path' = NoFile
  /\ UNCHANGED <<size, regionLocks, fileLength, readerVars>>

\* A file of any length is put under the path.
InstallFile(i, length) ==
  /\ path # i
  /\ \A r \in Readers : fd[r] # i
  /\ path' = i
  /\ size' = [size EXCEPT ![i] = length]
  /\ UNCHANGED <<regionLocks, fileLength, readerVars>>

ResizeFile(length) ==
  /\ path # NoFile
  /\ size' = [size EXCEPT ![path] = length]
  /\ UNCHANGED <<path, regionLocks, fileLength, readerVars>>

OtherLock(n) ==
  /\ regionLocks' = regionLocks \cup {n}
  /\ UNCHANGED <<path, size, fileLength, readerVars>>

OtherUnlock(n) ==
  /\ regionLocks' = regionLocks \ {n}
  /\ UNCHANGED <<path, size, fileLength, readerVars>>

Environment ==
  \/ DeleteFile
  \/ \E i \in Inodes, length \in 0 .. MaxLength : InstallFile(i, length)
  \/ \E length \in 0 .. MaxLength : ResizeFile(length)
  \/ \E n \in BlockNumbers : OtherLock(n) \/ OtherUnlock(n)

Next ==
  \/ \E r \in Readers, n \in BlockNumbers :
       CallUnavailable(r, n) \/ CallAvailable(r, n)
  \/ \E r \in Readers : GetBlockStep(r)
  \/ Environment

Spec == Init /\ [][Next]_vars

\* A child that is in getBlock is scheduled; nobody else owes anything.
FairSpec == Spec /\ \A r \in Readers : WF_vars(GetBlockStep(r))

-----------------------------------------------------------------------------
(***************************************************************************)
(* Properties.                                                             *)
(***************************************************************************)

TypeOK ==
  /\ path \in Inodes \cup {NoFile}
  /\ size \in [Inodes -> 0 .. MaxLength]
  /\ regionLocks \subseteq BlockNumbers
  /\ fileLength \in 0 .. MaxLength
  /\ pc \in [Readers -> {"idle", "open", "lock", "read", "unlock", "returned"}]
  /\ num \in [Readers -> 0 .. (Width - 1)]
  /\ fd \in [Readers -> Inodes \cup {NoFile}]
  /\ block \in [Readers -> Buffer \cup {NULL}]
  /\ failed \subseteq Readers

\* The bytes of block n lie within a file of the given length.
Holds(length, n) == (n + 1) * BLOCK_SIZE <= length

\* The multiplication of isBlockAvailable does not wrap around.
InRange(n) == n * BLOCK_SIZE < Width

\* isBlockAvailable answers for every block number whose offset fits a
\* uint64_t exactly whether the whole block lay within the file when the server
\* started, provided that the file held a block at all (blockstorage.cpp:50).
AvailabilityExact ==
  \A n \in 0 .. (Width - 1) :
    InRange(n) /\ BLOCK_SIZE <= fileLength
      => (IsBlockAvailable(n) <=> Holds(fileLength, n))

\* Every stored byte that getBlock returns is a byte of the block that was
\* asked for, at its place, and all of them come from one file, however the
\* file is deleted, replaced or resized meanwhile and whichever call fails
\* (blockstorage.cpp:28-34).
BlockAsked ==
  \A r \in Readers :
    block[r] # NULL /\ 2 * num[r] * BLOCK_SIZE < Width =>
      \E f \in Inodes \cup {NoFile} : \A k \in Offsets :
        block[r][k] \in {Garbage, <<f, num[r] * BLOCK_SIZE + k>>}

\* getBlock copies uninitialised memory into a block only when open() or read()
\* has failed, or the file that it has open is shorter than the one that was
\* measured at startup, or that one was too short for a single block
\* (blockstorage.cpp:25,28,34).
GarbageOnlyFromShrunkFile ==
  [][\A r \in Readers :
       pc[r] = "read" /\ pc'[r] = "unlock" /\ InRange(num[r])
       /\ (\E k \in Offsets : block'[r][k] = Garbage)
         => \/ r \in failed'
            \/ FileSize(fd[r]) < fileLength
            \/ fileLength < BLOCK_SIZE]_vars

\* Once it has found the block available, getBlock returns, whatever locks
\* other programs hold on the file and whether they ever release them
\* (blockstorage.cpp:28,31).
GetBlockReturns ==
  \A r \in Readers : pc[r] = "open" ~> pc[r] = "returned"

\* A server that was started without a block file gives out no block: "If you
\* want one server to be blockstorage- and shuffle-server, you have to give
\* this argument" (main.cpp:167).
NoFileNoBlocks ==
  fileLength = 0 => \A r \in Readers : block[r] = NULL

-----------------------------------------------------------------------------
(***************************************************************************)
(* getBlock as one indivisible read: module BlockReads.  The descriptor    *)
(* fixes the file; once the path names another one, or open() has failed,  *)
(* the read has happened.                                                  *)
(***************************************************************************)

CallState(r) ==
  CASE pc[r] = "idle"     -> "idle"
    [] pc[r] = "returned" -> "returned"
    [] OTHER              -> "called"

ReadValue(r) ==
  CASE pc[r] \in {"unlock", "returned"} -> block[r]
    [] pc[r] \in {"lock", "read"} /\ (fd[r] = NoFile \/ fd[r] # path) ->
         ReadBuffer(fd[r], SeekOffset(num[r]))
    [] OTHER -> Unread

Atomic == INSTANCE BlockReads WITH
  file  <- <<path, FileSize(path)>>,
  known <- fileLength,
  call  <- [r \in Readers |-> CallState(r)],
  value <- [r \in Readers |-> ReadValue(r)]

\* Between open(), lseek64(), read() and close() the file may be deleted,
\* replaced and resized, and still every block is one view of one file that was
\* under the path during the call: a file that was deleted before a request (the
\* kill-switch of README.md:9) never answers it, and bytes that the file has
\* lost are not made up.  A call that fails costs the view its end and nothing
\* else (blockstorage.cpp:23-41).
ReadsAreAtomic == Atomic!Spec

=============================================================================
