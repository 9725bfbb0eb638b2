----------------------------- MODULE BlockReads -----------------------------
(***************************************************************************)
(* What a Shepoo child may expect of getBlock, without system calls: every *)
(* read of a block takes effect at one moment between its call and its     *)
(* return, on the file that is under the path at that moment.  Where the   *)
(* system refuses a call, the block loses its end.  Module BlockStorage    *)
(* implements it.                                                          *)
(***************************************************************************)
EXTENDS Integers

CONSTANTS
  Readers, BlockNumbers, BLOCK_SIZE, Width, MaxLength, Inodes, NoFile, NULL,
  Garbage,
  Unread \* the value of a read that has not taken effect

VARIABLES
  file,  \* the inode and the length of the file under the path
  known, \* the length of the file when the server started
  call,  \* the state of every reader's call
  num,   \* the block that it asks for
  value, \* what it has read
  failed \* the readers in a call from which the system withholds the file

readVars == <<file, known, call, num, value, failed>>

None  == <<NoFile, 0>>
Files == (Inodes \X (0 .. MaxLength)) \cup {None}

\* A number too large for a file offset is promised a block from anywhere.
Places(n) ==
  IF 2 * n * BLOCK_SIZE < Width THEN {n * BLOCK_SIZE} ELSE 0 .. (Width - 1)

\* The bytes of file f from the given place, arbitrary ones behind its end.
View(f, place) ==
  [k \in 0 .. (BLOCK_SIZE - 1) |->
     IF place + k < f[2] THEN <<f[1], place + k>> ELSE Garbage]

\* A view of which only the first n bytes were delivered.
Cut(view, n) ==
  [k \in 0 .. (BLOCK_SIZE - 1) |-> IF k < n THEN view[k] ELSE Garbage]

Pending == {r \in Readers : call[r] = "called" /\ value[r] = Unread}

\* Whether a block that ends within the first "known" bytes is available is no
\* question, unless there is not even one, or the number is too large.
MayBeAvailable(n) ==
  n * BLOCK_SIZE < Width /\ BLOCK_SIZE <= known => (n + 1) * BLOCK_SIZE <= known
MayBeMissing(n) ==
  n * BLOCK_SIZE < Width /\ BLOCK_SIZE <= known => (n + 1) * BLOCK_SIZE > known

Init ==
  /\ file \in Files
  /\ known = file[2]
  /\ call = [r \in Readers |-> "idle"]
  /\ num = [r \in Readers |-> 0]
  /\ value = [r \in Readers |-> Unread]
  /\ failed = {}

Call(r, n) ==
  /\ call[r] = "idle"
  /\ num' = [num EXCEPT ![r] = n]
  /\ \/ /\ MayBeAvailable(n)
        /\ call' = [call EXCEPT ![r] = "called"]
        /\ UNCHANGED value
     \/ /\ MayBeMissing(n)
        /\ call' = [call EXCEPT ![r] = "returned"]
        /\ value' = [value EXCEPT ![r] = NULL]
  /\ UNCHANGED <<file, known, failed>>

\* The readers in rs read the file as it is.
Takes(rs) ==
  \E place \in [rs -> UNION {Places(num[r]) : r \in rs}] :
    /\ \A r \in rs : place[r] \in Places(num[r])
    /\ value' = [r \in Readers |->
                   IF r \in rs THEN View(file, place[r]) ELSE value[r]]

Read(r) ==
  /\ r \in Pending
  /\ Takes({r})
  /\ UNCHANGED <<file, known, call, num, failed>>

\* A read that has happened loses its end.
Lose(r) ==
  /\ call[r] = "called"
  /\ value[r] # Unread
  /\ \E n \in 0 .. (BLOCK_SIZE - 1) :
       value' = [value EXCEPT ![r] = Cut(value[r], n)]
  /\ failed' = failed \cup {r}
  /\ UNCHANGED <<file, known, call, num>>

\* A read happens and loses its end.
ReadCut(r) ==
  /\ r \in Pending
  /\ \E place \in Places(num[r]), n \in 0 .. (BLOCK_SIZE - 1) :
       value' = [value EXCEPT ![r] = Cut(View(file, place), n)]
  /\ failed' = failed \cup {r}
  /\ UNCHANGED <<file, known, call, num>>

Return(r) ==
  /\ call[r] = "called"
  /\ value[r] # Unread
  /\ call' = [call EXCEPT ![r] = "returned"]
  /\ failed' = failed \ {r}
  /\ UNCHANGED <<file, known, num, value>>

\* The file is deleted, replaced or resized; some reads get in just before.
Change(f) ==
  /\ file' = f
  /\ \E rs \in SUBSET Pending : Takes(rs)
  /\ UNCHANGED <<known, call, num, failed>>

Next ==
  \/ \E r \in Readers, n \in BlockNumbers : Call(r, n)
  \/ \E r \in Readers : Read(r) \/ ReadCut(r) \/ Lose(r) \/ Return(r)
  \/ \E f \in Files : Change(f)

Spec == Init /\ [][Next]_readVars

=============================================================================
