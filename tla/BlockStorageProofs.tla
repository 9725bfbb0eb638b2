------------------------- MODULE BlockStorageProofs -------------------------
(***************************************************************************)
(* Proofs about BlockStorage for every block size, word width, file length *)
(* and number of children: the invariants of the reads and the locks, and  *)
(* that every read is an indivisible one (module BlockReads).              *)
(***************************************************************************)
EXTENDS BlockStorage, TLAPS

\* A value that fits a uint64_t is stored as it is.
LEMMA FitsWidth ==
  ASSUME NEW x \in Nat, x < Width
  PROVE  uint64(x) = x
  BY SizeAssumption DEF uint64

\* Every uint64_t is below Width.
LEMMA Uint64Type ==
  ASSUME NEW x \in Int
  PROVE  uint64(x) \in 0 .. (Width - 1)
  BY SizeAssumption DEF uint64

\* The byte offset of a block number.
LEMMA ProductType ==
  ASSUME NEW n \in Nat
  PROVE  n * BLOCK_SIZE \in Nat
  BY SizeAssumption

\* Pure arithmetic of isBlockAvailable: for a file that holds at least one
\* block and a number whose offset does not wrap, the comparison of
\* blockstorage.cpp:50 holds exactly when the block ends within the file.
LEMMA AvailableArithmetic ==
  ASSUME fileLength \in 0 .. MaxLength, BLOCK_SIZE <= fileLength,
         NEW n \in 0 .. (Width - 1), InRange(n)
  PROVE  IsBlockAvailable(n) <=> Holds(fileLength, n)
<1>1. n * BLOCK_SIZE \in Nat
  BY ProductType
<1>2. ByteOffset(n) = n * BLOCK_SIZE
  BY <1>1, FitsWidth DEF ByteOffset, InRange
<1>3. /\ fileLength - BLOCK_SIZE \in Nat
      /\ fileLength - BLOCK_SIZE < Width
  BY SizeAssumption
<1>4. uint64(fileLength - BLOCK_SIZE) = fileLength - BLOCK_SIZE
  BY <1>3, FitsWidth
<1>5. (n + 1) * BLOCK_SIZE = n * BLOCK_SIZE + BLOCK_SIZE
  BY SizeAssumption
<1>. QED
  BY <1>1, <1>2, <1>3, <1>4, <1>5, SizeAssumption DEF IsBlockAvailable, Holds

\* The position of the descriptor before read().
LEMMA SeekOffsetType ==
  ASSUME NEW n \in Nat
  PROVE  SeekOffset(n) \in Nat
  BY ProductType, Uint64Type, SizeAssumption DEF SeekOffset, ByteOffset

\* The buffer that read() fills is always a whole buffer.
LEMMA ReadBufferType ==
  ASSUME NEW f \in Inodes \cup {NoFile}, NEW offset \in Nat, TypeOK
  PROVE  ReadBuffer(f, offset) \in Buffer
<1>1. ASSUME NEW k \in Offsets, offset + k < FileSize(f)
      PROVE  <<f, offset + k>> \in Byte
  <2>1. f # NoFile
    BY <1>1, SizeAssumption DEF FileSize, Offsets
  <2>. QED
    BY <1>1, <2>1, SizeAssumption DEF Byte, Offsets
<1>. QED
  BY <1>1 DEF ReadBuffer, Buffer, Byte

\* So is the buffer that a failing read() leaves.
LEMMA CutBufferType ==
  ASSUME NEW f \in Inodes \cup {NoFile}, NEW offset \in Nat, NEW n, TypeOK
  PROVE  CutBuffer(f, offset, n) \in Buffer
<1>1. \A k \in Offsets : ReadBuffer(f, offset)[k] \in Byte
  BY ReadBufferType DEF Buffer
<1>. QED
  BY <1>1 DEF CutBuffer, Buffer, Byte

-----------------------------------------------------------------------------
(***************************************************************************)
(* The inductive invariant.                                                *)
(***************************************************************************)

\* A child that has not read yet has no block.
NothingBeforeRead ==
  \A r \in Readers : pc[r] \in {"idle", "open", "lock", "read"} => block[r] = NULL

\* A child gets past the check only with a number that passes it.  _fileLength
\* never changes, so that the check still holds when the child reads.
CheckedBeforeRead ==
  \A r \in Readers : pc[r] \in {"open", "lock", "read"} => IsBlockAvailable(num[r])

IInv == TypeOK /\ NothingBeforeRead /\ CheckedBeforeRead /\ BlockAsked

LEMMA InitInv == Init => IInv
<1>. SUFFICES ASSUME Init PROVE IInv
  OBVIOUS
<1>1. TypeOK
  BY SizeAssumption DEF Init, TypeOK, StatSize, FileSize
<1>2. NothingBeforeRead /\ CheckedBeforeRead
  BY DEF Init, NothingBeforeRead, CheckedBeforeRead
<1>3. BlockAsked
  BY DEF Init, BlockAsked
<1>. QED
  BY <1>1, <1>2, <1>3 DEF IInv

\* What read() leaves in block[r]: bytes of one file, each at its place.
LEMMA ReadBlockAsked ==
  ASSUME TypeOK, NEW r \in Readers, ReadBlock(r) \/ ReadFails(r),
         2 * num[r] * BLOCK_SIZE < Width
  PROVE  /\ SeekOffset(num[r]) = num[r] * BLOCK_SIZE
         /\ \E f \in Inodes \cup {NoFile} : \A k \in Offsets :
              block'[r][k] \in {Garbage, <<f, num[r] * BLOCK_SIZE + k>>}
<1>1. num[r] * BLOCK_SIZE \in Nat
  BY ProductType DEF TypeOK
<1>2. 2 * (num[r] * BLOCK_SIZE) < Width
  BY SizeAssumption DEF TypeOK
<1>3. ByteOffset(num[r]) = num[r] * BLOCK_SIZE
  BY <1>1, <1>2, FitsWidth, SizeAssumption DEF ByteOffset
<1>4. SeekOffset(num[r]) = num[r] * BLOCK_SIZE
  BY <1>2, <1>3 DEF SeekOffset
<1>5. \/ block'[r] = ReadBuffer(fd[r], num[r] * BLOCK_SIZE)
      \/ \E n \in Offsets : block'[r] = CutBuffer(fd[r], num[r] * BLOCK_SIZE, n)
  BY <1>4 DEF ReadBlock, ReadFails, TypeOK
<1>6. \A k \in Offsets :
        block'[r][k] \in {Garbage, <<fd[r], num[r] * BLOCK_SIZE + k>>}
  BY <1>5 DEF ReadBuffer, CutBuffer
<1>. QED
  BY <1>4, <1>6 DEF TypeOK

\* One step of the code or of its environment keeps the invariant.
LEMMA NextInv == IInv /\ [Next]_vars => IInv'
<1>. SUFFICES ASSUME IInv, [Next]_vars PROVE IInv'
  OBVIOUS
<1>. USE DEF IInv
<1>1. ASSUME NEW r \in Readers, NEW n \in BlockNumbers, CallUnavailable(r, n)
      PROVE  IInv'
  <2>. n \in 0 .. (Width - 1)
    BY SizeAssumption
  <2>1. TypeOK'
    BY <1>1 DEF TypeOK, CallUnavailable, Goto, fileVars
  <2>2. NothingBeforeRead'
    BY <1>1 DEF NothingBeforeRead, TypeOK, CallUnavailable, Goto
  <2>3. CheckedBeforeRead'
    BY <1>1 DEF CheckedBeforeRead, TypeOK, CallUnavailable, Goto, IsBlockAvailable
  <2>4. BlockAsked'
    BY <1>1 DEF BlockAsked, NothingBeforeRead, TypeOK, CallUnavailable, Goto
  <2>. QED
    BY <2>1, <2>2, <2>3, <2>4
<1>2. ASSUME NEW r \in Readers, NEW n \in BlockNumbers, CallAvailable(r, n)
      PROVE  IInv'
  <2>. n \in 0 .. (Width - 1)
    BY SizeAssumption
  <2>1. TypeOK'
    BY <1>2 DEF TypeOK, CallAvailable, Goto, fileVars
  <2>2. NothingBeforeRead'
    BY <1>2 DEF NothingBeforeRead, TypeOK, CallAvailable, Goto
  <2>3. CheckedBeforeRead'
    BY <1>2 DEF CheckedBeforeRead, TypeOK, CallAvailable, Goto, IsBlockAvailable
  <2>4. BlockAsked'
    BY <1>2 DEF BlockAsked, NothingBeforeRead, TypeOK, CallAvailable, Goto
  <2>. QED
    BY <2>1, <2>2, <2>3, <2>4
<1>3. ASSUME NEW r \in Readers, OpenFile(r) \/ OpenFails(r)
      PROVE  IInv'
  <2>1. TypeOK'
    BY <1>3 DEF TypeOK, OpenFile, OpenFails, Goto, fileVars
  <2>2. NothingBeforeRead'
    BY <1>3 DEF NothingBeforeRead, TypeOK, OpenFile, OpenFails, Goto
  <2>3. CheckedBeforeRead'
    BY <1>3 DEF CheckedBeforeRead, TypeOK, OpenFile, OpenFails, Goto, IsBlockAvailable
  <2>4. BlockAsked'
    BY <1>3 DEF BlockAsked, OpenFile, OpenFails
  <2>. QED
    BY <2>1, <2>2, <2>3, <2>4
<1>4. ASSUME NEW r \in Readers, LockBlock(r)
      PROVE  IInv'
  <2>1. TypeOK'
    BY <1>4 DEF TypeOK, LockBlock, Goto, fileVars
  <2>2. NothingBeforeRead'
    BY <1>4 DEF NothingBeforeRead, TypeOK, LockBlock, Goto
  <2>3. CheckedBeforeRead'
    BY <1>4 DEF CheckedBeforeRead, TypeOK, LockBlock, Goto, IsBlockAvailable
  <2>4. BlockAsked'
    BY <1>4 DEF BlockAsked, LockBlock
  <2>. QED
    BY <2>1, <2>2, <2>3, <2>4
<1>5. ASSUME NEW r \in Readers, ReadBlock(r) \/ ReadFails(r)
      PROVE  IInv'
  <2>1. /\ ReadBuffer(fd[r], SeekOffset(num[r])) \in Buffer
        /\ \A n : CutBuffer(fd[r], SeekOffset(num[r]), n) \in Buffer
    BY ReadBufferType, CutBufferType, SeekOffsetType DEF TypeOK
  <2>2. TypeOK'
    BY <1>5, <2>1 DEF TypeOK, ReadBlock, ReadFails, Goto, fileVars
  <2>3. NothingBeforeRead'
    BY <1>5 DEF NothingBeforeRead, TypeOK, ReadBlock, ReadFails, Goto
  <2>4. CheckedBeforeRead'
    BY <1>5 DEF CheckedBeforeRead, TypeOK, ReadBlock, ReadFails, Goto, IsBlockAvailable
  <2>5. BlockAsked'
    <3>. SUFFICES ASSUME NEW q \in Readers, block'[q] # NULL,
                         2 * num[q] * BLOCK_SIZE < Width
                  PROVE  \E f \in Inodes \cup {NoFile} : \A k \in Offsets :
                           block'[q][k] \in {Garbage, <<f, num[q] * BLOCK_SIZE + k>>}
      BY <1>5 DEF BlockAsked, ReadBlock, ReadFails
    <3>1. CASE q = r
      BY <1>5, <3>1, ReadBlockAsked
    <3>2. CASE q # r
      BY <1>5, <3>2 DEF BlockAsked, ReadBlock, ReadFails, TypeOK
    <3>. QED
      BY <3>1, <3>2
  <2>. QED
    BY <2>2, <2>3, <2>4, <2>5
<1>6. ASSUME NEW r \in Readers, CloseFile(r)
      PROVE  IInv'
  <2>1. TypeOK'
    BY <1>6 DEF TypeOK, CloseFile, Goto, fileVars
  <2>2. NothingBeforeRead'
    BY <1>6 DEF NothingBeforeRead, TypeOK, CloseFile, Goto
  <2>3. CheckedBeforeRead'
    BY <1>6 DEF CheckedBeforeRead, TypeOK, CloseFile, Goto, IsBlockAvailable
  <2>4. BlockAsked'
    BY <1>6 DEF BlockAsked, CloseFile
  <2>. QED
    BY <2>1, <2>2, <2>3, <2>4
<1>7. CASE Environment
  <2>1. UNCHANGED <<readerVars, fileLength>>
    BY <1>7 DEF Environment, DeleteFile, InstallFile, ResizeFile, OtherLock,
                OtherUnlock
  <2>2. /\ path' \in Inodes \cup {NoFile}
        /\ size' \in [Inodes -> 0 .. MaxLength]
        /\ regionLocks' \subseteq BlockNumbers
    BY <1>7 DEF Environment, DeleteFile, InstallFile, ResizeFile, OtherLock,
                OtherUnlock, TypeOK
  <2>3. TypeOK'
    BY <2>1, <2>2 DEF TypeOK, readerVars
  <2>. QED
    BY <2>1, <2>3 DEF readerVars, NothingBeforeRead, CheckedBeforeRead,
                      IsBlockAvailable, BlockAsked
<1>8. CASE UNCHANGED vars
  BY <1>8 DEF vars, fileVars, readerVars, TypeOK, NothingBeforeRead,
              CheckedBeforeRead, IsBlockAvailable, BlockAsked
<1>. QED
  BY <1>1, <1>2, <1>3, <1>4, <1>5, <1>6, <1>7, <1>8 DEF Next, GetBlockStep

-----------------------------------------------------------------------------
(***************************************************************************)
(* The theorems.                                                           *)
(***************************************************************************)

\* The strengthened invariant holds in every reachable state.
THEOREM Invariance == Spec => []IInv
  BY InitInv, NextInv, PTL DEF Spec

\* Every variable of the block file, of _fileLength and of the children keeps
\* its type, for any block size, word width and number of children.
THEOREM TypeCorrect == Spec => []TypeOK
  BY Invariance, PTL DEF IInv

\* isBlockAvailable (blockstorage.cpp:50) is exact for the measured length of
\* the file, for every block size and every width of uint64_t.
THEOREM AvailabilityCorrect == Spec => []AvailabilityExact
<1>1. TypeOK => AvailabilityExact
  BY AvailableArithmetic DEF TypeOK, AvailabilityExact
<1>. QED
  BY <1>1, TypeCorrect, PTL

\* getBlock never mixes up blocks or files (blockstorage.cpp:28-34).
THEOREM BlockAskedCorrect == Spec => []BlockAsked
  BY Invariance, PTL DEF IInv

\* Where uninitialised memory in a block comes from (blockstorage.cpp:28-34).
THEOREM GarbageCorrect == Spec => GarbageOnlyFromShrunkFile
<1>. DEFINE Cause(r) ==
       pc[r] = "read" /\ pc'[r] = "unlock" /\ InRange(num[r])
       /\ (\E k \in Offsets : block'[r][k] = Garbage)
         => \/ r \in failed'
            \/ FileSize(fd[r]) < fileLength
            \/ fileLength < BLOCK_SIZE
<1>1. ASSUME IInv, NEW r \in Readers, ReadBlock(r), InRange(num[r]),
             BLOCK_SIZE <= fileLength,
             NEW k \in Offsets, block'[r][k] = Garbage
      PROVE  FileSize(fd[r]) < fileLength
  <2>1. /\ num[r] \in 0 .. (Width - 1)
        /\ fileLength \in 0 .. MaxLength
        /\ fd[r] \in Inodes \cup {NoFile}
        /\ FileSize(fd[r]) \in Nat
    BY <1>1 DEF IInv, TypeOK, FileSize
  <2>2. IsBlockAvailable(num[r])
    BY <1>1 DEF IInv, CheckedBeforeRead, ReadBlock, Goto
  <2>3. Holds(fileLength, num[r])
    BY <1>1, <2>1, <2>2, AvailableArithmetic
  <2>4. num[r] * BLOCK_SIZE \in Nat
    BY <2>1, ProductType
  <2>5. num[r] * BLOCK_SIZE + BLOCK_SIZE <= fileLength
    BY <2>1, <2>3, SizeAssumption DEF Holds
  <2>6. 2 * (num[r] * BLOCK_SIZE) < Width
    BY <2>1, <2>4, <2>5, SizeAssumption
  <2>7. 2 * num[r] * BLOCK_SIZE < Width
    BY <2>1, <2>6, SizeAssumption
  <2>8. SeekOffset(num[r]) = num[r] * BLOCK_SIZE
    BY <1>1, <2>7, ReadBlockAsked DEF IInv
  <2>9. block'[r] = ReadBuffer(fd[r], num[r] * BLOCK_SIZE)
    BY <1>1, <2>8 DEF ReadBlock, IInv, TypeOK
  <2>10. ~(num[r] * BLOCK_SIZE + k < FileSize(fd[r]))
    <3>. SUFFICES ASSUME num[r] * BLOCK_SIZE + k < FileSize(fd[r]) PROVE FALSE
      OBVIOUS
    <3>1. k \in Nat
      BY SizeAssumption DEF Offsets
    <3>2. fd[r] \in Inodes
      BY <2>1, <2>4, <3>1 DEF FileSize
    <3>3. Garbage = <<fd[r], num[r] * BLOCK_SIZE + k>>
      BY <1>1, <2>9 DEF ReadBuffer
    <3>. QED
      BY <2>4, <3>1, <3>2, <3>3, FileAssumption
  <2>. QED
    BY <2>1, <2>4, <2>5, <2>10, SizeAssumption DEF Offsets
<1>2. ASSUME IInv, [Next]_vars, NEW r \in Readers
      PROVE  Cause(r)
  <2>. SUFFICES ASSUME pc[r] = "read", pc'[r] = "unlock" PROVE Cause(r)
    OBVIOUS
  <2>1. ReadBlock(r) \/ ReadFails(r)
    <3>1. Next
      BY <1>2 DEF vars, readerVars
    <3>2. ~Environment
      BY DEF Environment, DeleteFile, InstallFile, ResizeFile, OtherLock,
             OtherUnlock, readerVars
    <3>3. ASSUME NEW q \in Readers, NEW n \in BlockNumbers,
                 CallUnavailable(q, n) \/ CallAvailable(q, n)
          PROVE  FALSE
      BY <1>2, <3>3 DEF CallUnavailable, CallAvailable, Goto, IInv, TypeOK
    <3>4. ASSUME NEW q \in Readers,
                 OpenFile(q) \/ OpenFails(q) \/ LockBlock(q) \/ CloseFile(q)
          PROVE  FALSE
      BY <1>2, <3>4 DEF OpenFile, OpenFails, LockBlock, CloseFile, Goto, IInv, TypeOK
    <3>5. ASSUME NEW q \in Readers, ReadBlock(q) \/ ReadFails(q), q # r
          PROVE  FALSE
      BY <1>2, <3>5 DEF ReadBlock, ReadFails, Goto, IInv, TypeOK
    <3>. QED
      BY <3>1, <3>2, <3>3, <3>4, <3>5 DEF Next, GetBlockStep
  <2>2. fileLength \in Int
    BY <1>2 DEF IInv, TypeOK
  <2>3. CASE ReadFails(r)
    BY <2>3 DEF ReadFails
  <2>4. CASE ReadBlock(r)
    BY <1>1, <1>2, <2>2, <2>4, SizeAssumption
  <2>. QED
    BY <2>1, <2>3, <2>4
<1>3. IInv /\ [Next]_vars => [\A r \in Readers : Cause(r)]_vars
  BY <1>2
<1>. QED
  BY <1>3, Invariance, PTL DEF Spec, GarbageOnlyFromShrunkFile

-----------------------------------------------------------------------------
(***************************************************************************)
(* BlockStorage implements BlockReads: getBlock is one indivisible read.   *)
(***************************************************************************)

\* Only a child between open() and close() has a descriptor.
ClosedOutside ==
  \A r \in Readers : pc[r] \in {"idle", "open", "returned"} => fd[r] = NoFile

RInv == IInv /\ ClosedOutside

LEMMA InitRInv == Init => RInv
  BY InitInv DEF Init, RInv, ClosedOutside

\* One step keeps what the mapping needs.
LEMMA NextRInv == RInv /\ [Next]_vars => RInv'
<1>. SUFFICES ASSUME RInv, [Next]_vars PROVE RInv'
  OBVIOUS
<1>. USE DEF RInv
<1>1. IInv /\ TypeOK /\ IInv'
  BY NextInv DEF IInv
<1>2. ASSUME NEW r \in Readers, NEW n \in BlockNumbers,
             CallUnavailable(r, n) \/ CallAvailable(r, n)
      PROVE  ClosedOutside'
  BY <1>1, <1>2 DEF ClosedOutside, CallUnavailable, CallAvailable, Goto, TypeOK
<1>3. ASSUME NEW r \in Readers, GetBlockStep(r)
      PROVE  ClosedOutside'
  BY <1>1, <1>3 DEF ClosedOutside, GetBlockStep, OpenFile, OpenFails, LockBlock,
     ReadBlock, ReadFails, CloseFile, Goto, TypeOK
<1>4. CASE Environment
  <2>1. UNCHANGED <<readerVars, fileLength>>
    BY <1>4 DEF Environment, DeleteFile, InstallFile, ResizeFile, OtherLock, OtherUnlock
  <2>. QED
    BY <1>1, <2>1 DEF ClosedOutside, readerVars
<1>5. CASE UNCHANGED vars
  BY <1>1, <1>5 DEF ClosedOutside, vars, fileVars, readerVars
<1>. QED
  BY <1>1, <1>2, <1>3, <1>4, <1>5 DEF Next

-----------------------------------------------------------------------------
(***************************************************************************)
(* The abstract variables, and what a read is in them.                     *)
(***************************************************************************)

File  == <<path, FileSize(path)>>
Call  == [r \in Readers |-> CallState(r)]
Value == [r \in Readers |-> ReadValue(r)]

Step == [Atomic!Next]_<<File, fileLength, Call, num, Value, failed>>

Same ==
  /\ File' = File /\ fileLength' = fileLength /\ Call' = Call /\ num' = num
  /\ Value' = Value /\ failed' = failed

\* A child that has opened the file under the path and not read it yet.
Open(r) == pc[r] \in {"lock", "read"} /\ fd[r] = path /\ path # NoFile

\* The file that is under the path is one of BlockReads.
LEMMA FileType ==
  ASSUME TypeOK
  PROVE  File \in Atomic!Files
BY DEF TypeOK, File, FileSize, Atomic!Files, Atomic!None

\* A block is read from where it is, unless its number is too large.
LEMMA SeekPlace ==
  ASSUME NEW n \in 0 .. (Width - 1)
  PROVE  SeekOffset(n) \in Atomic!Places(n)
<1>1. n * BLOCK_SIZE \in Nat /\ 2 * n * BLOCK_SIZE = 2 * (n * BLOCK_SIZE)
  BY SizeAssumption, ProductType
<1>2. CASE 2 * n * BLOCK_SIZE < Width
  <2>1. ByteOffset(n) = n * BLOCK_SIZE
    BY <1>1, <1>2, FitsWidth, SizeAssumption DEF ByteOffset
  <2>. QED
    BY <1>1, <1>2, <2>1 DEF SeekOffset, Atomic!Places
<1>3. CASE ~(2 * n * BLOCK_SIZE < Width)
  <2>1. ByteOffset(n) \in 0 .. (Width - 1) /\ 0 \in 0 .. (Width - 1)
    BY <1>1, Uint64Type, SizeAssumption DEF ByteOffset
  <2>. QED
    BY <1>3, <2>1 DEF SeekOffset, Atomic!Places
<1>. QED
  BY <1>2, <1>3

\* read() of the file under the path is a view of that file.
LEMMA BufferIsView ==
  ASSUME NEW offset
  PROVE  ReadBuffer(path, offset) = Atomic!View(File, offset)
BY DEF ReadBuffer, Atomic!View, File, Offsets

\* Neither a block nor what read() leaves is the mark of a read to come.
LEMMA BufferNotUnread ==
  ASSUME TypeOK, NEW r \in Readers
  PROVE  /\ block[r] # Unread
         /\ ReadBuffer(fd[r], SeekOffset(num[r])) # Unread
<1>1. SeekOffset(num[r]) \in Nat
  BY SeekOffsetType DEF TypeOK
<1>2. ReadBuffer(fd[r], SeekOffset(num[r])) \in Buffer
  BY <1>1, ReadBufferType DEF TypeOK
<1>3. block[r] \in Buffer \cup {NULL}
  BY DEF TypeOK
<1>. QED
  BY <1>2, <1>3, FileAssumption DEF Buffer, Byte, Offsets

\* Whose read has not happened: who has not opened the file, or has it open
\* while the path names it.
LEMMA UnreadOpen ==
  ASSUME RInv, NEW r \in Readers
  PROVE  /\ ReadValue(r) = Unread <=> pc[r] \in {"idle", "open"} \/ Open(r)
         /\ pc[r] \in {"lock", "read"} /\ ~Open(r) =>
              ReadValue(r) = ReadBuffer(fd[r], SeekOffset(num[r]))
         /\ pc[r] \in {"unlock", "returned"} => ReadValue(r) = block[r]
<1>1. TypeOK /\ (pc[r] \in {"unlock", "returned"} => block[r] # Unread)
  BY BufferNotUnread DEF RInv, IInv
<1>2. ReadBuffer(fd[r], SeekOffset(num[r])) # Unread
  BY <1>1, BufferNotUnread
<1>. QED
  BY <1>1, <1>2 DEF ReadValue, Open, TypeOK

\* Reads of the children in rs, each from its place, are what Takes describes.
LEMMA TakesThese ==
  ASSUME RInv, NEW rs \in SUBSET Readers,
         \A r \in Readers :
           Value'[r] = IF r \in rs THEN Atomic!View(File, SeekOffset(num[r]))
                       ELSE Value[r]
  PROVE  Atomic!Takes(rs)
<1>. DEFINE place == [r \in rs |-> SeekOffset(num[r])]
<1>1. \A r \in rs : SeekOffset(num[r]) \in Atomic!Places(num[r])
  BY SeekPlace DEF RInv, IInv, TypeOK
<1>2. /\ place \in [rs -> UNION {Atomic!Places(num[r]) : r \in rs}]
      /\ \A r \in rs : place[r] \in Atomic!Places(num[r])
  BY <1>1
<1>3. Value' = [r \in Readers |->
                  IF r \in rs THEN Atomic!View(File, place[r]) ELSE Value[r]]
  BY DEF Value
<1>. QED
  BY <1>2, <1>3 DEF Atomic!Takes, Value, File

-----------------------------------------------------------------------------

LEMMA AtomicInit == Init => Atomic!Init
<1>. SUFFICES ASSUME Init PROVE Atomic!Init
  OBVIOUS
<1>1. TypeOK
  BY InitInv DEF IInv
<1>2. \A r \in Readers : CallState(r) = "idle" /\ ReadValue(r) = Unread
  BY DEF Init, CallState, ReadValue
<1>. QED
  BY <1>1, <1>2, FileType DEF Init, Atomic!Init, StatSize, File

-----------------------------------------------------------------------------
(***************************************************************************)
(* One lemma per step of the child and of its environment.                 *)
(***************************************************************************)

\* The check is the call: isBlockAvailable answers as BlockReads allows.
LEMMA CallStep ==
  ASSUME RInv, NEW r \in Readers, NEW n \in BlockNumbers,
         CallUnavailable(r, n) \/ CallAvailable(r, n)
  PROVE  Atomic!Call(r, n)
<1>0. /\ TypeOK /\ IInv
      /\ n \in 0 .. (Width - 1)
      /\ block[r] = NULL
  BY SizeAssumption DEF RInv, IInv, NothingBeforeRead, CallUnavailable, CallAvailable,
     Goto
<1>1. /\ pc[r] = "idle" /\ num' = [num EXCEPT ![r] = n]
      /\ UNCHANGED <<path, size, fileLength, fd, block, failed>>
  BY DEF CallUnavailable, CallAvailable, Goto, fileVars
<1>2. File' = File
  BY <1>1 DEF File, FileSize
<1>3. ASSUME NEW q \in Readers, q # r
      PROVE  CallState(q)' = CallState(q) /\ ReadValue(q)' = ReadValue(q)
  <2>1. pc'[q] = pc[q] /\ num'[q] = num[q]
    BY <1>0, <1>3 DEF CallUnavailable, CallAvailable, Goto, TypeOK
  <2>. QED
    BY <1>1, <2>1 DEF CallState, ReadValue, ReadBuffer, SeekOffset, ByteOffset, FileSize
<1>4. CallState(r) = "idle" /\ ReadValue(r) = Unread
  BY <1>1 DEF CallState, ReadValue
<1>5. n * BLOCK_SIZE < Width /\ BLOCK_SIZE <= fileLength =>
        (IsBlockAvailable(n) <=> (n + 1) * BLOCK_SIZE <= fileLength)
  BY <1>0, AvailableArithmetic DEF InRange, Holds, TypeOK
<1>6. CASE CallAvailable(r, n)
  <2>1. CallState(r)' = "called" /\ ReadValue(r)' = Unread
    BY <1>0, <1>6 DEF CallAvailable, Goto, CallState, ReadValue, TypeOK
  <2>2. Call' = [Call EXCEPT ![r] = "called"] /\ Value' = Value
    BY <1>3, <1>4, <2>1 DEF Call, Value
  <2>3. Atomic!MayBeAvailable(n)
    BY <1>5, <1>6 DEF CallAvailable, Atomic!MayBeAvailable
  <2>. QED
    BY <1>1, <1>2, <1>4, <2>2, <2>3 DEF Atomic!Call, Call, Value, File
<1>7. CASE CallUnavailable(r, n)
  <2>1. CallState(r)' = "returned" /\ ReadValue(r)' = NULL
    BY <1>0, <1>1, <1>7 DEF CallUnavailable, Goto, CallState, ReadValue, TypeOK
  <2>2. Call' = [Call EXCEPT ![r] = "returned"] /\ Value' = [Value EXCEPT ![r] = NULL]
    BY <1>3, <2>1 DEF Call, Value
  <2>3. Atomic!MayBeMissing(n)
    <3>1. (n + 1) * BLOCK_SIZE \in Int /\ fileLength \in Int
      BY <1>0, SizeAssumption DEF TypeOK
    <3>. QED
      BY <1>5, <1>7, <3>1 DEF CallUnavailable, Atomic!MayBeMissing
  <2>. QED
    BY <1>1, <1>2, <1>4, <2>2, <2>3 DEF Atomic!Call, Call, Value, File
<1>. QED
  BY <1>6, <1>7

\* Readers other than r see nothing of a step of r.
LEMMA OthersKeep ==
  ASSUME RInv, NEW r \in Readers, GetBlockStep(r), NEW q \in Readers, q # r
  PROVE  CallState(q)' = CallState(q) /\ ReadValue(q)' = ReadValue(q)
<1>0. TypeOK
  BY DEF RInv, IInv
<1>1. /\ UNCHANGED <<path, size, fileLength, num>>
      /\ pc'[q] = pc[q] /\ fd'[q] = fd[q] /\ block'[q] = block[q]
  BY <1>0 DEF GetBlockStep, OpenFile, OpenFails, LockBlock, ReadBlock, ReadFails,
     CloseFile, Goto, TypeOK, fileVars
<1>. QED
  BY <1>1 DEF CallState, ReadValue, ReadBuffer, SeekOffset, ByteOffset, FileSize

\* What every step of r but the last one is in BlockReads.
LEMMA InCall ==
  ASSUME RInv, NEW r \in Readers, GetBlockStep(r), ~CloseFile(r)
  PROVE  File' = File /\ fileLength' = fileLength /\ num' = num /\ Call' = Call
<1>0. TypeOK
  BY DEF RInv, IInv
<1>1. UNCHANGED <<path, size, fileLength, num>>
  BY DEF GetBlockStep, OpenFile, OpenFails, LockBlock, ReadBlock, ReadFails, fileVars
<1>2. CallState(r)' = CallState(r)
  BY <1>0 DEF GetBlockStep, OpenFile, OpenFails, LockBlock, ReadBlock, ReadFails, Goto,
     CallState, TypeOK
<1>3. Call' = Call
  BY <1>2, OthersKeep DEF Call
<1>. QED
  BY <1>1, <1>3 DEF File, FileSize

\* A step in which the value of r becomes a view of the file, or stays.
LEMMA ReadNow ==
  ASSUME RInv, NEW r \in Readers, GetBlockStep(r), ~CloseFile(r),
         CallState(r) = "called", failed' = failed,
         \/ ReadValue(r)' = ReadValue(r)
         \/ /\ ReadValue(r) = Unread
            /\ ReadValue(r)' = Atomic!View(File, SeekOffset(num[r]))
  PROVE  Same \/ Atomic!Read(r)
<1>1. File' = File /\ fileLength' = fileLength /\ num' = num /\ Call' = Call
  BY InCall
<1>2. CASE ReadValue(r)' = ReadValue(r)
  <2>1. Value' = Value
    BY <1>2, OthersKeep DEF Value
  <2>. QED
    BY <1>1, <2>1 DEF Same
<1>3. CASE /\ ReadValue(r) = Unread
           /\ ReadValue(r)' = Atomic!View(File, SeekOffset(num[r]))
  <2>1. \A q \in Readers :
          Value'[q] = IF q \in {r} THEN Atomic!View(File, SeekOffset(num[q]))
                      ELSE Value[q]
    BY <1>3, OthersKeep DEF Value
  <2>2. Atomic!Takes({r})
    BY <2>1, TakesThese
  <2>3. r \in Atomic!Pending
    BY <1>3 DEF Atomic!Pending
  <2>. QED
    BY <1>1, <2>2, <2>3 DEF Atomic!Read, File, Call
<1>. QED
  BY <1>2, <1>3

\* A step in which a call fails: what r has read, or reads, loses its end.
LEMMA CutNow ==
  ASSUME RInv, NEW r \in Readers, GetBlockStep(r), ~CloseFile(r),
         CallState(r) = "called", failed' = failed \cup {r}, NEW n \in Offsets,
         \/ /\ ReadValue(r) # Unread
            /\ ReadValue(r)' = Atomic!Cut(ReadValue(r), n)
         \/ /\ ReadValue(r) = Unread
            /\ ReadValue(r)' = Atomic!Cut(Atomic!View(File, SeekOffset(num[r])), n)
  PROVE  Atomic!ReadCut(r) \/ Atomic!Lose(r)
<1>1. File' = File /\ fileLength' = fileLength /\ num' = num /\ Call' = Call
  BY InCall
<1>2. Value' = [Value EXCEPT ![r] = ReadValue(r)']
  BY OthersKeep DEF Value
<1>3. n \in 0 .. (BLOCK_SIZE - 1)
  BY DEF Offsets
<1>4. CASE /\ ReadValue(r) # Unread
           /\ ReadValue(r)' = Atomic!Cut(ReadValue(r), n)
  BY <1>1, <1>2, <1>3, <1>4 DEF Atomic!Lose, File, Call, Value
<1>5. CASE /\ ReadValue(r) = Unread
           /\ ReadValue(r)' = Atomic!Cut(Atomic!View(File, SeekOffset(num[r])), n)
  <2>1. SeekOffset(num[r]) \in Atomic!Places(num[r])
    BY SeekPlace DEF RInv, IInv, TypeOK
  <2>2. r \in Atomic!Pending
    BY <1>5 DEF Atomic!Pending
  <2>3. \E place \in Atomic!Places(num[r]), k \in 0 .. (BLOCK_SIZE - 1) :
          Value' = [Value EXCEPT ![r] = Atomic!Cut(Atomic!View(File, place), k)]
    BY <1>2, <1>3, <1>5, <2>1
  <2>. QED
    BY <1>1, <2>2, <2>3 DEF Atomic!ReadCut, File, Call, Value
<1>. QED
  BY <1>4, <1>5

\* If the path names no file, the read happens at open().
LEMMA OpenStep ==
  ASSUME RInv, NEW r \in Readers, OpenFile(r)
  PROVE  Same \/ Atomic!Read(r)
<1>0. TypeOK
  BY DEF RInv, IInv
<1>1. /\ pc[r] = "open" /\ pc'[r] = "lock" /\ fd'[r] = path
      /\ UNCHANGED <<path, size, num, failed>>
  BY <1>0 DEF OpenFile, Goto, TypeOK, fileVars
<1>2. CallState(r) = "called" /\ ReadValue(r) = Unread
  BY <1>1 DEF CallState, ReadValue
<1>3. CASE path # NoFile
  <2>1. ReadValue(r)' = Unread
    BY <1>1, <1>3 DEF ReadValue
  <2>. QED
    BY <1>1, <1>2, <2>1, ReadNow DEF GetBlockStep, CloseFile, Goto
<1>4. CASE path = NoFile
  <2>1. ReadValue(r)' = ReadBuffer(path, SeekOffset(num[r]))
    BY <1>1, <1>4 DEF ReadValue, ReadBuffer, FileSize, SeekOffset, ByteOffset
  <2>. QED
    BY <1>1, <1>2, <2>1, BufferIsView, ReadNow DEF GetBlockStep, CloseFile, Goto
<1>. QED
  BY <1>3, <1>4

\* A failing open() is a read that loses all of it.
LEMMA OpenFailsStep ==
  ASSUME RInv, NEW r \in Readers, OpenFails(r)
  PROVE  Atomic!ReadCut(r) \/ Atomic!Lose(r)
<1>0. TypeOK
  BY DEF RInv, IInv
<1>1. /\ pc[r] = "open" /\ pc'[r] = "lock" /\ fd'[r] = NoFile
      /\ UNCHANGED <<path, size, num>>
      /\ failed' = failed \cup {r}
  BY <1>0 DEF OpenFails, Goto, TypeOK, fileVars, RInv, ClosedOutside
<1>2. CallState(r) = "called" /\ ReadValue(r) = Unread
  BY <1>1 DEF CallState, ReadValue
<1>3. SeekOffset(num[r]) \in Nat /\ 0 \in Offsets
  BY <1>0, SeekOffsetType, SizeAssumption DEF TypeOK, Offsets
<1>4. ReadValue(r)' = [k \in Offsets |-> Garbage]
  <2>1. \A k \in Offsets : ~(SeekOffset(num[r]) + k < 0)
    BY <1>3, SizeAssumption DEF Offsets
  <2>2. ReadValue(r)' = ReadBuffer(NoFile, SeekOffset(num[r]))
    BY <1>1 DEF ReadValue, ReadBuffer, FileSize, SeekOffset, ByteOffset
  <2>. QED
    BY <2>1, <2>2 DEF ReadBuffer, FileSize
<1>5. ReadValue(r)' = Atomic!Cut(Atomic!View(File, SeekOffset(num[r])), 0)
  <2>1. \A k \in Offsets : ~(k < 0)
    BY SizeAssumption DEF Offsets
  <2>. QED
    BY <1>4, <2>1 DEF Atomic!Cut, Offsets
<1>. QED
  BY <1>1, <1>2, <1>3, <1>5, CutNow DEF GetBlockStep, CloseFile, Goto

\* Setting the position and the failing lockf change nothing.
LEMMA LockStep ==
  ASSUME RInv, NEW r \in Readers, LockBlock(r)
  PROVE  Same \/ Atomic!Read(r)
<1>0. TypeOK
  BY DEF RInv, IInv
<1>1. /\ pc[r] = "lock" /\ pc'[r] = "read"
      /\ UNCHANGED <<path, size, num, fd, block, failed>>
  BY <1>0 DEF LockBlock, Goto, TypeOK, fileVars
<1>2. CallState(r) = "called"
  BY <1>1 DEF CallState
<1>3. ReadValue(r)' = ReadValue(r)
  BY <1>1 DEF ReadValue, ReadBuffer, FileSize, SeekOffset, ByteOffset
<1>. QED
  BY <1>1, <1>2, <1>3, ReadNow DEF GetBlockStep, CloseFile, Goto

\* If the path still names the open file, the read happens at read().
LEMMA ReadStep ==
  ASSUME RInv, NEW r \in Readers, ReadBlock(r)
  PROVE  Same \/ Atomic!Read(r)
<1>0. TypeOK
  BY DEF RInv, IInv
<1>1. /\ pc[r] = "read" /\ pc'[r] = "unlock"
      /\ block'[r] = ReadBuffer(fd[r], SeekOffset(num[r]))
      /\ failed' = failed
  BY <1>0 DEF ReadBlock, Goto, TypeOK
<1>2. CallState(r) = "called"
  BY <1>1 DEF CallState
<1>3. ReadValue(r)' = ReadBuffer(fd[r], SeekOffset(num[r]))
  BY <1>1 DEF ReadValue
<1>4. CASE Open(r)
  <2>1. ReadValue(r) = Unread
    BY <1>4, UnreadOpen
  <2>2. ReadValue(r)' = Atomic!View(File, SeekOffset(num[r]))
    BY <1>3, <1>4, BufferIsView DEF Open
  <2>. QED
    BY <1>1, <1>2, <2>1, <2>2, ReadNow DEF GetBlockStep, CloseFile, Goto
<1>5. CASE ~Open(r)
  <2>1. ReadValue(r)' = ReadValue(r)
    BY <1>1, <1>3, <1>5, UnreadOpen
  <2>. QED
    BY <1>1, <1>2, <2>1, ReadNow DEF GetBlockStep, CloseFile, Goto
<1>. QED
  BY <1>4, <1>5

\* A failing read() costs the block its end, whether it has been read before,
\* from a file that is no longer under the path, or now.
LEMMA ReadFailsStep ==
  ASSUME RInv, NEW r \in Readers, ReadFails(r)
  PROVE  Atomic!ReadCut(r) \/ Atomic!Lose(r)
<1>0. TypeOK
  BY DEF RInv, IInv
<1>. DEFINE buffer == ReadBuffer(fd[r], SeekOffset(num[r]))
<1>1. PICK n \in Offsets :
        block' = [block EXCEPT ![r] = CutBuffer(fd[r], SeekOffset(num[r]), n)]
  BY DEF ReadFails
<1>2. /\ pc[r] = "read" /\ pc'[r] = "unlock"
      /\ block'[r] = CutBuffer(fd[r], SeekOffset(num[r]), n)
      /\ failed' = failed \cup {r}
  BY <1>0, <1>1 DEF ReadFails, Goto, TypeOK
<1>3. CallState(r) = "called"
  BY <1>2 DEF CallState
<1>4. ReadValue(r)' = Atomic!Cut(buffer, n)
  BY <1>2 DEF ReadValue, CutBuffer, Atomic!Cut, Offsets
<1>. HIDE DEF buffer
<1>5. CASE Open(r)
  <2>1. ReadValue(r) = Unread
    BY <1>5, UnreadOpen
  <2>2. buffer = Atomic!View(File, SeekOffset(num[r]))
    BY <1>5, BufferIsView DEF Open, buffer
  <2>. QED
    BY <1>2, <1>3, <1>4, <2>1, <2>2, CutNow DEF GetBlockStep, CloseFile, Goto
<1>6. CASE ~Open(r)
  <2>1. ReadValue(r) = buffer /\ ReadValue(r) # Unread
    BY <1>2, <1>6, UnreadOpen DEF buffer
  <2>. QED
    BY <1>2, <1>3, <1>4, <2>1, CutNow DEF GetBlockStep, CloseFile, Goto
<1>. QED
  BY <1>5, <1>6

\* close() is the return, with the value that was read.
LEMMA CloseStep ==
  ASSUME RInv, NEW r \in Readers, CloseFile(r)
  PROVE  Atomic!Return(r)
<1>0. TypeOK
  BY DEF RInv, IInv
<1>1. /\ pc[r] = "unlock" /\ pc'[r] = "returned"
      /\ UNCHANGED <<path, size, fileLength, num, block>>
      /\ failed' = failed \ {r}
  BY <1>0 DEF CloseFile, Goto, TypeOK, fileVars
<1>2. /\ CallState(r) = "called" /\ CallState(r)' = "returned"
      /\ ReadValue(r) = block[r] /\ ReadValue(r)' = block[r]
  BY <1>1 DEF CallState, ReadValue
<1>3. Call' = [Call EXCEPT ![r] = "returned"] /\ Value' = Value
  BY <1>2, OthersKeep DEF Call, Value, GetBlockStep
<1>4. block[r] # Unread
  BY <1>0, BufferNotUnread
<1>5. File' = File
  BY <1>1 DEF File, FileSize
<1>. QED
  BY <1>1, <1>2, <1>3, <1>4, <1>5 DEF Atomic!Return, Call, Value, File

\* What other programs do changes no call.  A read from an inode that keeps its
\* length stays what it is.
LEMMA CallsKeep ==
  ASSUME Environment
  PROVE  /\ UNCHANGED <<pc, num, fd, block, failed, fileLength>>
         /\ Call' = Call
         /\ \A f, o : FileSize(f)' = FileSize(f) => ReadBuffer(f, o)' = ReadBuffer(f, o)
<1>1. UNCHANGED <<readerVars, fileLength>>
  BY DEF Environment, DeleteFile, InstallFile, ResizeFile, OtherLock, OtherUnlock
<1>2. Call' = Call
  BY <1>1 DEF readerVars, Call, CallState
<1>3. ASSUME NEW f, NEW o, FileSize(f)' = FileSize(f)
      PROVE  ReadBuffer(f, o)' = ReadBuffer(f, o)
  BY <1>3 DEF ReadBuffer
<1>. QED
  BY <1>1, <1>2, <1>3 DEF readerVars

\* A change of the file during which the reads of the children in rs happen.
LEMMA ChangeIs ==
  ASSUME RInv, RInv', Environment, NEW rs \in SUBSET Readers,
         \A r \in rs : Open(r),
         \A r \in Readers :
           ReadValue(r)' = IF r \in rs THEN Atomic!View(File, SeekOffset(num[r]))
                           ELSE ReadValue(r)
  PROVE  \E f \in Atomic!Files : Atomic!Change(f)
<1>1. UNCHANGED <<num, fileLength, failed>> /\ Call' = Call
  BY CallsKeep
<1>2. \A r \in Readers :
        Value'[r] = IF r \in rs THEN Atomic!View(File, SeekOffset(num[r]))
                    ELSE Value[r]
  BY DEF Value
<1>3. Atomic!Takes(rs)
  BY <1>2, TakesThese
<1>4. rs \in SUBSET Atomic!Pending
  BY UnreadOpen DEF Atomic!Pending, CallState, Open
<1>5. File' \in Atomic!Files
  <2>1. TypeOK'
    BY DEF RInv, IInv
  <2>. QED
    BY <2>1 DEF TypeOK, File, FileSize, Atomic!Files, Atomic!None
<1>. QED
  BY <1>1, <1>3, <1>4, <1>5 DEF Atomic!Change, File, Call

\* A new file under the path: whoever has the old one open has read it before.
LEMMA ReplaceStep ==
  ASSUME RInv, RInv', Environment, path' # path,
         \A r \in Readers : fd[r] # NoFile =>
           fd[r] # path' /\ FileSize(fd[r])' = FileSize(fd[r])
  PROVE  \E f \in Atomic!Files : Atomic!Change(f)
<1>. DEFINE rs == {r \in Readers : Open(r)}
<1>1. UNCHANGED <<pc, num, fd, block>>
  BY CallsKeep
<1>2. ASSUME NEW r \in Readers
      PROVE  ReadValue(r)' = IF r \in rs THEN Atomic!View(File, SeekOffset(num[r]))
                             ELSE ReadValue(r)
  <2>1. FileSize(fd[r])' = FileSize(fd[r])
    BY <1>1 DEF FileSize
  <2>2. ReadBuffer(fd[r], SeekOffset(num[r]))' = ReadBuffer(fd[r], SeekOffset(num[r]))
    BY <1>1, <2>1 DEF ReadBuffer, SeekOffset, ByteOffset
  <2>3. CASE pc[r] \in {"lock", "read"}
    <3>1. ReadValue(r)' = ReadBuffer(fd[r], SeekOffset(num[r]))
      BY <1>1, <2>2, <2>3 DEF ReadValue
    <3>2. CASE Open(r)
      BY <3>1, <3>2, BufferIsView DEF Open
    <3>3. CASE ~Open(r)
      BY <2>3, <3>1, <3>3, UnreadOpen
    <3>. QED
      BY <3>2, <3>3
  <2>4. CASE pc[r] \notin {"lock", "read"}
    BY <1>1, <2>4 DEF ReadValue, Open
  <2>. QED
    BY <2>3, <2>4
<1>. HIDE DEF rs
<1>3. rs \in SUBSET Readers /\ \A r \in rs : Open(r)
  BY DEF rs
<1>. QED
  BY <1>2, <1>3, ChangeIs

\* Whatever is done to the file is a change in BlockReads.
LEMMA EnvironmentStep ==
  ASSUME RInv, RInv', Environment
  PROVE  \E f \in Atomic!Files : Atomic!Change(f)
<1>0. TypeOK
  BY DEF RInv, IInv
<1>1. UNCHANGED <<pc, num, fd, block>>
  BY CallsKeep
<1>2. CASE DeleteFile
  <2>1. path' # path /\ path' = NoFile /\ size' = size
    BY <1>2 DEF DeleteFile
  <2>2. \A r \in Readers : fd[r] # NoFile => FileSize(fd[r])' = FileSize(fd[r])
    BY <1>1, <2>1 DEF FileSize
  <2>. QED
    BY <2>1, <2>2, ReplaceStep
<1>3. CASE \E i \in Inodes, length \in 0 .. MaxLength : InstallFile(i, length)
  <2>1. PICK i \in Inodes, length \in 0 .. MaxLength : InstallFile(i, length)
    BY <1>3
  <2>2. path' = i /\ path # i /\ i # NoFile /\ size' = [size EXCEPT ![i] = length]
    BY <2>1, FileAssumption DEF InstallFile
  <2>3. \A r \in Readers : fd[r] # i
    BY <2>1 DEF InstallFile
  <2>4. \A r \in Readers : fd[r] # NoFile => FileSize(fd[r])' = FileSize(fd[r])
    BY <1>0, <1>1, <2>2, <2>3 DEF FileSize, TypeOK
  <2>. QED
    BY <2>2, <2>3, <2>4, ReplaceStep
<1>4. CASE \/ \E length \in 0 .. MaxLength : ResizeFile(length)
           \/ \E n \in BlockNumbers : OtherLock(n) \/ OtherUnlock(n)
  <2>1. path' = path /\ \A i \in Inodes \ {path} : size'[i] = size[i]
    BY <1>0, <1>4 DEF ResizeFile, OtherLock, OtherUnlock, TypeOK
  <2>2. ASSUME NEW r \in Readers
        PROVE  ReadValue(r)' = ReadValue(r)
    <3>1. Open(r)' <=> Open(r)
      BY <1>1, <2>1 DEF Open
    <3>2. CASE pc[r] \in {"lock", "read"} /\ ~Open(r)
      <4>1. FileSize(fd[r])' = FileSize(fd[r])
        BY <1>0, <1>1, <2>1, <3>2 DEF Open, FileSize, TypeOK
      <4>. QED
        BY <1>1, <2>1, <3>2, <4>1 DEF ReadValue, ReadBuffer, SeekOffset, ByteOffset
    <3>3. CASE pc[r] \notin {"lock", "read"} \/ Open(r)
      BY <1>1, <2>1, <3>3 DEF ReadValue, Open
    <3>. QED
      BY <3>2, <3>3
  <2>3. \A r \in Readers :
          ReadValue(r)' = IF r \in {} THEN Atomic!View(File, SeekOffset(num[r]))
                          ELSE ReadValue(r)
    BY <2>2
  <2>. QED
    BY <2>3, ChangeIs, {} \in SUBSET Readers, \A r \in {} : Open(r)
<1>. QED
  BY <1>2, <1>3, <1>4 DEF Environment

\* All steps together.
LEMMA NextStep == RInv /\ RInv' /\ [Next]_vars => Step
<1>. SUFFICES ASSUME RInv, RInv', [Next]_vars PROVE Step
  OBVIOUS
<1>1. CASE UNCHANGED vars
  <2>1. UNCHANGED <<path, size, fileLength, pc, num, fd, block, failed>>
    BY <1>1 DEF vars, fileVars, readerVars
  <2>. QED
    BY <2>1 DEF Step, File, FileSize, Call, CallState, Value, ReadValue, ReadBuffer,
       SeekOffset, ByteOffset
<1>2. CASE Next
  <2>1. \/ Same
        \/ \E r \in Readers, n \in BlockNumbers : Atomic!Call(r, n)
        \/ \E r \in Readers :
             \/ Atomic!Read(r) \/ Atomic!ReadCut(r) \/ Atomic!Lose(r)
             \/ Atomic!Return(r)
        \/ \E f \in Atomic!Files : Atomic!Change(f)
    BY <1>2, CallStep, OpenStep, OpenFailsStep, LockStep, ReadStep, ReadFailsStep,
       CloseStep, EnvironmentStep
       DEF Next, GetBlockStep
  <2>. QED
    BY <2>1 DEF Step, Same, Atomic!Next
<1>. QED
  BY <1>1, <1>2

\* getBlock is one indivisible read of the file, for every block size, word
\* width, number of children and block number (blockstorage.cpp:23-41).
THEOREM AtomicCorrect == Spec => ReadsAreAtomic
<1>1. RInv /\ RInv' /\ [Next]_vars => [Atomic!Next]_(Atomic!readVars)
  BY NextStep DEF Step, File, Call, Value, Atomic!readVars
<1>. QED
  BY <1>1, AtomicInit, InitRInv, NextRInv, PTL DEF Spec, ReadsAreAtomic, Atomic!Spec

=============================================================================
