---------------------------- MODULE FilesProofs ----------------------------
(***************************************************************************)
(* Proofs about Files, for every number of blocks, every memory and every  *)
(* file system: a block is never given to two, a block in use changes      *)
(* hands only by being freed, no buffer outlives its call, the blocks lie  *)
(* in free memory, and do_execl reads the file it looks for.               *)
(***************************************************************************)
EXTENDS Files, WellFoundedInduction, TLAPS

(***************************************************************************)
(* The inductive invariant.  A buffer is the one in buf, and only while a  *)
(* call has it; the INode just allocated is marked when the file is read.  *)
(***************************************************************************)
BuffersHeld ==
  \A b \in Bit : use[b] = "buf" => b = buf /\ pc \in {"namei", "copy", "null", "fault"}

BlockInv ==
  /\ use \in [Bit -> {"free", "buf", "inode", "image"}]
  /\ buf \in Bit \cup {Null} /\ inode \in Bit \cup {Null}
  /\ memory_used = {b \in Bit : use[b] # "free"}
  /\ BuffersHeld
  /\ pc \in {"namei", "copy"} => buf = Null \/ use[buf] = "buf"
  /\ pc \in {"read", "copy"} => inode = Null \/ use[inode] = "inode"

\* A set of numbers that is not empty has a least one.
LEMMA LeastExists ==
  ASSUME NEW T, T \subseteq Nat, T # {}
  PROVE  \E n \in T : \A m \in T : n <= m
<1> DEFINE R == OpToRel(<, Nat)
<1>1. IsWellFoundedOn(R, Nat)
  BY NatLessThanWellFounded
<1> HIDE DEF R
<1>2. PICK n \in T : \A m \in T : ~(<<m, n>> \in R)
  BY <1>1, WFMin
<1>3. \A m \in T : ~(m < n)
  BY <1>2 DEF R, OpToRel
<1> QED
  BY <1>3

\* find_free_area returns the null pointer or a block that is not marked.
LEMMA FreeAreaIsFree ==
  ASSUME NEW used
  PROVE  \/ find_free_area(used) = Null
         \/ find_free_area(used) \in Bit /\ find_free_area(used) \notin used
<1>1. CASE Bit \subseteq used
  BY <1>1 DEF find_free_area
<1>2. CASE ~(Bit \subseteq used)
  <2> DEFINE Free == Bit \ used
  <2>1. Free \subseteq Nat /\ Free # {}
    BY <1>2, FilesAssumption DEF Bit
  <2>2. \E n \in Free : \A m \in Free : n <= m
    BY <2>1, LeastExists
  <2> QED
    BY <1>2, <2>2 DEF find_free_area
<1> QED
  BY <1>1, <1>2

\* No block is the null pointer.
LEMMA NullIsNoBlock == Null \notin Bit
  BY FilesAssumption DEF Null, Bit

\* The initial states: no block is in use.
LEMMA BlockInit == Init => BlockInv
  BY DEF Init, BlockInv, BuffersHeld, Null

\* Each step keeps the invariant; those that allocate take a block that is not marked.
LEMMA BlockStep == BlockInv /\ [Next]_vars => BlockInv'
<1> SUFFICES ASSUME BlockInv, [Next]_vars PROVE BlockInv'
  OBVIOUS
<1> USE NullIsNoBlock
<1>1. CASE ramdisk_driver_init
  BY <1>1 DEF ramdisk_driver_init, BlockInv, BuffersHeld, lookup
<1>2. CASE romfs_init
  BY <1>2 DEF romfs_init, BlockInv, BuffersHeld, lookup
<1>3. CASE mm_init
  BY <1>3 DEF mm_init, BlockInv, BuffersHeld, lookup
<1>4. CASE do_fork
  <2> DEFINE b == find_free_area(memory_used)
  <2>1. b = Null \/ (b \in Bit /\ b \notin memory_used)
    BY FreeAreaIsFree
  <2>2. memory_used' = Mark(memory_used, b) /\ use' = Used(b, "image")
        /\ UNCHANGED <<pc, buf, inode>>
    BY <1>4 DEF do_fork, lookup
  <2> HIDE DEF b
  <2>3. CASE b = Null
    BY <2>2, <2>3 DEF Mark, Used, BlockInv, BuffersHeld
  <2>4. CASE b \in Bit /\ b \notin memory_used
    BY <1>4, <2>2, <2>4 DEF do_fork, Mark, Used, BlockInv, BuffersHeld
  <2> QED
    BY <2>1, <2>3, <2>4
<1>5. CASE do_execl
  <2>1. buf' = Null \/ (buf' \in Bit /\ buf' \notin memory_used)
    BY <1>5, FreeAreaIsFree DEF do_execl
  <2>2. memory_used' = Mark(memory_used, buf') /\ use' = Used(buf', "buf")
        /\ pc = "idle" /\ pc' \in {"namei", "fault"} /\ inode' = inode
    BY <1>5 DEF do_execl
  <2>3. CASE buf' = Null
    BY <2>2, <2>3 DEF Mark, Used, BlockInv, BuffersHeld
  <2>4. CASE buf' \in Bit /\ buf' \notin memory_used
    BY <2>2, <2>4 DEF Mark, Used, BlockInv, BuffersHeld
  <2> QED
    BY <2>1, <2>3, <2>4
<1>6. CASE romfs_namei
  <2>1. CASE Found
    <3>1. inode' = Null \/ (inode' \in Bit /\ inode' \notin memory_used)
      BY <2>1, FreeAreaIsFree DEF Found
    <3>2. /\ memory_used' = free_mem(Mark(memory_used, inode'), buf)
          /\ use' = Freed(Used(inode', "inode"), buf)
          /\ pc = "namei" /\ pc' = "read" /\ buf' = buf
      BY <1>6, <2>1 DEF romfs_namei, Found
    <3> QED
      BY <3>1, <3>2 DEF Mark, free_mem, Used, Freed, BlockInv, BuffersHeld
  <2>2. CASE UNCHANGED <<inode, memory_used, use>> /\ pc' \in {"null", "namei"}
    BY <1>6, <2>2 DEF romfs_namei, BlockInv, BuffersHeld
  <2> QED
    BY <1>6, <2>1, <2>2 DEF romfs_namei
<1>7. CASE ReadFile
  <2>1. buf' = Null \/ (buf' \in Bit /\ buf' \notin memory_used)
    BY <1>7, FreeAreaIsFree DEF ReadFile
  <2>2. memory_used' = Mark(memory_used, buf') /\ use' = Used(buf', "buf")
        /\ pc = "read" /\ pc' = "copy" /\ inode' = inode
    BY <1>7 DEF ReadFile
  <2> QED
    BY <2>1, <2>2 DEF Mark, Used, BlockInv, BuffersHeld
<1>8. CASE CopySegments
  BY <1>8 DEF CopySegments, free_mem, Freed, BlockInv, BuffersHeld, lookup
<1>9. CASE UNCHANGED vars
  BY <1>9 DEF vars, lookup, BlockInv, BuffersHeld
<1> QED
  BY <1>1, <1>2, <1>3, <1>4, <1>5, <1>6, <1>7, <1>8, <1>9 DEF Next

\* The inductive invariant holds throughout.
THEOREM BlockInvHolds == Spec => []BlockInv
  BY BlockInit, BlockStep, PTL DEF Spec

(***************************************************************************)
(* memory_used marks exactly the blocks somebody has, and the buffer and   *)
(* the INode do_execl holds together are different blocks.                 *)
(***************************************************************************)
THEOREM BlocksAreOwned == Spec => []BlocksOwned
<1>1. BlockInv => BlocksOwned
  BY NullIsNoBlock DEF BlockInv, BlocksOwned
<1> QED
  BY <1>1, BlockInvHolds, PTL

\* Between calls of TASK_MM, romfs_namei and do_execl have freed their buffers.
THEOREM BuffersAreFreed == Spec => []BuffersFreed
<1>1. BlockInv => BuffersFreed
  BY DEF BlockInv, BuffersHeld, BuffersFreed
<1> QED
  BY <1>1, BlockInvHolds, PTL

\* No allocation takes a block somebody still has.
THEOREM BlocksAreKept == Spec => BlocksKept
<1>1. BlockInv /\ [Next]_vars => [\A b \in Bit : use[b] # "free" => use'[b] \in {use[b], "free"}]_vars
  <2> SUFFICES ASSUME BlockInv, Next, NEW b \in Bit, use[b] # "free"
               PROVE  use'[b] \in {use[b], "free"}
    OBVIOUS
  <2> USE NullIsNoBlock
  <2>1. \/ find_free_area(memory_used) = Null
        \/ find_free_area(memory_used) \in Bit /\ find_free_area(memory_used) \notin memory_used
    BY FreeAreaIsFree
  <2>2. b \in memory_used /\ use \in [Bit -> {"free", "buf", "inode", "image"}]
    BY DEF BlockInv
  <2>3. CASE do_fork
    BY <2>1, <2>2, <2>3 DEF do_fork, Used
  <2>4. CASE do_execl
    BY <2>1, <2>2, <2>4 DEF do_execl, Used
  <2>5. CASE romfs_namei
    BY <2>1, <2>2, <2>5 DEF romfs_namei, Found, Used, Freed
  <2>6. CASE ReadFile
    BY <2>1, <2>2, <2>6 DEF ReadFile, Used
  <2>7. CASE CopySegments
    BY <2>2, <2>7 DEF CopySegments, Freed
  <2>8. CASE ramdisk_driver_init \/ romfs_init \/ mm_init
    BY <2>8 DEF ramdisk_driver_init, romfs_init, mm_init
  <2> QED
    BY <2>3, <2>4, <2>5, <2>6, <2>7, <2>8 DEF Next
<1> QED
  BY <1>1, BlockInvHolds, PTL DEF Spec, BlocksKept

----------------------------------------------------------------------------
(* Where the blocks are.                                                   *)

\* memtest finds the end of memory, less the word it adds, or a page more than it tests.
LEMMA MemtestFinds ==
  ASSUME ram \in Nat, low_word \in Nat, Roomy
  PROVE  memtest = IF ram - low_word <= 32 * MB THEN ram - low_word ELSE 32 * MB + 1
<1> DEFINE Fails(i) == ((i + low_word) % 1048576) >= ram
           First(i) == Fails(i) /\ \A j \in (4 * MB)..(i - 1) : ~Fails(j)
           end == ram - low_word
<1>0. end \in Nat /\ end >= 28 * MB
  BY DEF Roomy, MB
<1>1. ASSUME NEW i \in (4 * MB)..(32 * MB)
      PROVE  Fails(i) <=> i >= end
  <2>1. i + low_word \in Nat /\ i + low_word < 1048576
    BY DEF Roomy, MB
  <2>2. (i + low_word) % 1048576 = i + low_word
    BY <2>1
  <2> QED
    BY <2>2 DEF MB
<1>2. memtest = IF \E i \in (4 * MB)..(32 * MB) : Fails(i)
                  THEN CHOOSE i \in (4 * MB)..(32 * MB) : First(i)
                  ELSE 32 * MB + 1
  BY DEF memtest
<1> HIDE DEF Fails, end
<1>3. CASE end <= 32 * MB
  <2>1. end \in (4 * MB)..(32 * MB)
    BY <1>0, <1>3 DEF MB
  <2>2. Fails(end)
    BY <1>0, <1>1, <2>1
  <2>3. \A j \in (4 * MB)..(end - 1) : ~Fails(j)
    <3> SUFFICES ASSUME NEW j \in (4 * MB)..(end - 1) PROVE ~Fails(j)
      OBVIOUS
    <3>1. j \in (4 * MB)..(32 * MB) /\ ~ (j >= end)
      BY <1>0, <1>3 DEF MB
    <3> QED
      BY <1>1, <3>1
  <2>4. ASSUME NEW i \in (4 * MB)..(32 * MB), First(i)
        PROVE  i = end
    <3>1. i >= end
      BY <1>1, <2>4
    <3>2. i > end => end \in (4 * MB)..(i - 1)
      BY <1>0, <2>1 DEF MB
    <3> QED
      BY <1>0, <2>2, <2>4, <3>1, <3>2 DEF MB
  <2>5. First(end)
    BY <2>2, <2>3
  <2> HIDE DEF First
  <2>6. (CHOOSE i \in (4 * MB)..(32 * MB) : First(i)) = end
    BY <2>1, <2>4, <2>5
  <2> QED
    BY <1>2, <1>3, <2>1, <2>2, <2>6 DEF end
<1>4. CASE ~ (end <= 32 * MB)
  <2>1. \A i \in (4 * MB)..(32 * MB) : ~ Fails(i)
    <3> SUFFICES ASSUME NEW i \in (4 * MB)..(32 * MB) PROVE ~Fails(i)
      OBVIOUS
    <3>1. ~ (i >= end)
      BY <1>0, <1>4 DEF MB
    <3> QED
      BY <1>1, <3>1
  <2> QED
    BY <1>2, <1>4, <2>1 DEF end
<1> QED
  BY <1>3, <1>4

\* mm_start is 16 MB below the end that memtest found.
PlaceInv ==
  /\ ram \in Ram /\ low_word \in LowWord
  /\ pc \notin {"ramdisk_driver_init", "romfs_init", "mm_init"} => mm_start = memtest - 16 * MB

\* Every call of the file routines keeps the placement invariant.
LEMMA PlaceInvNext == PlaceInv /\ [Next]_vars => PlaceInv'
<1> SUFFICES ASSUME PlaceInv, [Next]_vars PROVE PlaceInv'
  OBVIOUS
<1>1. UNCHANGED machine
  BY DEF Next, ramdisk_driver_init, romfs_init, mm_init, do_fork, do_execl, romfs_namei, ReadFile,
         CopySegments, vars
<1>2. memtest' = memtest
  BY <1>1 DEF memtest, machine
<1>3. \/ mm_start' = memtest - 16 * MB
      \/ mm_start' = mm_start /\ pc \notin {"ramdisk_driver_init", "romfs_init", "mm_init"}
      \/ pc' \in {"ramdisk_driver_init", "romfs_init", "mm_init"}
      \/ UNCHANGED <<pc, mm_start>>
  BY DEF Next, ramdisk_driver_init, romfs_init, mm_init, do_fork, do_execl, romfs_namei, ReadFile,
         CopySegments, vars
<1> QED
  BY <1>1, <1>2, <1>3 DEF PlaceInv, machine

(***************************************************************************)
(* mm_init puts the 32 blocks into the memory of the machine and away from *)
(* the kernel, its image and the image of a child, on every machine and    *)
(* for every word at 0xffc for which 28 MB lie above that word.            *)
(***************************************************************************)
THEOREM BlocksAreInFreeMemory == Spec => []BlocksInFreeMemory
<1>1. Init => PlaceInv
  BY DEF Init, PlaceInv
<1>2. PlaceInv => BlocksInFreeMemory
  <2> SUFFICES ASSUME PlaceInv, Roomy, pc \notin {"ramdisk_driver_init", "romfs_init", "mm_init"},
                      NEW b \in 0..31
               PROVE  /\ BlockStart(b) >= 4 * MB
                      /\ BlockStart(b) >= 12 * MB \/ BlockStart(b + 1) <= 10 * MB
                      /\ BlockStart(b + 1) <= ram
    BY DEF BlocksInFreeMemory
  <2>1. ram \in Nat /\ low_word \in Nat
    BY FilesAssumption DEF PlaceInv
  <2>2. mm_start = (IF ram - low_word <= 32 * MB THEN ram - low_word ELSE 32 * MB + 1) - 16 * MB
    BY <2>1, MemtestFinds DEF PlaceInv
  <2> QED
    BY <2>1, <2>2 DEF BlockStart, MB, Roomy
<1> QED
  BY <1>1, <1>2, PlaceInvNext, PTL DEF Spec

----------------------------------------------------------------------------
(* What do_execl reads.                                                    *)

\* Multiples of 16 and their sums.
LEMMA Multiples ==
  /\ \A m \in Nat : get_next_16_boundary(m) \in Nat /\ get_next_16_boundary(m) % 16 = 0
  /\ \A a, g, h \in Nat : a % 16 = 0 /\ g % 16 = 0 /\ h % 16 = 0 =>
       a + 16 + g + h \in Nat /\ (a + 16 + g + h) % 16 = 0 /\ a < a + 16 + g + h
BY DEF get_next_16_boundary

\* What is assumed of a file system, field by field.
LEMMA RomFields ==
  ASSUME NEW r \in Rom
  PROVE  /\ Len(r.files) \in Nat \ {0} /\ r.len \in 0..255
         /\ \A k \in 1..Len(r.files) :
              /\ r.files[k].len \in Nat /\ r.files[k].size \in Nat /\ r.files[k].flags \in 0..15
              /\ r.files[k].name = "echo" => r.files[k].len = 4
         /\ \A j, k \in 1..Len(r.files) : r.files[j].name = r.files[k].name => j = k
         /\ PlacedBy(r)
<1> DEFINE F == [name : STRING, len : Nat, size : Nat, flags : 0..15]
<1>1. /\ r.files \in Seq(F) /\ Len(r.files) > 0 /\ r.len \in 0..255 /\ PlacedBy(r)
      /\ \A k \in 1..Len(r.files) : r.files[k].name = "echo" => r.files[k].len = 4
      /\ \A j, k \in 1..Len(r.files) : r.files[j].name = r.files[k].name => j = k
  BY FilesAssumption
<1>2. Len(r.files) \in Nat /\ \A k \in 1..Len(r.files) : r.files[k] \in F
  <2> HIDE DEF F
  <2> QED
    BY <1>1
<1>3. \A f \in F : f.len \in Nat /\ f.size \in Nat /\ f.flags \in 0..15
  OBVIOUS
<1> HIDE DEF F
<1> QED
  BY <1>1, <1>2, <1>3

\* The headers of a file system are at multiples of 16, one after the other, behind the volume's.
LEMMA HeadersPlaced ==
  ASSUME NEW r \in Rom
  PROVE  \A k \in 1..(Len(r.files) + 1) :
           /\ r.at[k] \in Nat /\ r.at[k] > 0 /\ r.at[k] % 16 = 0
           /\ \A j \in 1..(k - 1) : r.at[j] < r.at[k]
<1> DEFINE n == Len(r.files)
           P(k) == /\ r.at[k] \in Nat /\ r.at[k] > 0 /\ r.at[k] % 16 = 0
                   /\ \A j \in 1..(k - 1) : r.at[j] \in Nat /\ r.at[j] < r.at[k]
           Bad == {k \in 1..(n + 1) : ~ P(k)}
<1>1. /\ n \in Nat /\ r.len \in Nat
      /\ \A k \in 1..n : r.files[k].len \in Nat /\ r.files[k].size \in Nat
      /\ PlacedBy(r)
  <2>1. /\ Len(r.files) \in Nat \ {0} /\ r.len \in 0..255 /\ PlacedBy(r)
        /\ \A k \in 1..Len(r.files) : r.files[k].len \in Nat /\ r.files[k].size \in Nat
    BY RomFields
  <2>2. 0..255 \subseteq Nat /\ Nat \ {0} \subseteq Nat
    OBVIOUS
  <2> QED
    BY <2>1, <2>2, Zenon
<1>2. P(1)
  <2>1. r.at[1] = 16 + get_next_16_boundary(r.len + 1)
    BY <1>1 DEF PlacedBy
  <2> QED
    BY <1>1, <2>1 DEF get_next_16_boundary
<1>3. ASSUME NEW k \in 1..n, P(k)
      PROVE  P(k + 1)
  <2>1. r.at[k + 1] = r.at[k] + 16 + get_next_16_boundary(r.files[k].len + 1)
                                   + get_next_16_boundary(r.files[k].size)
    BY <1>1 DEF PlacedBy
  <2>2. r.files[k].len \in Nat /\ r.files[k].size \in Nat
    BY <1>1
  <2>3. r.at[k] \in Nat /\ r.at[k] > 0 /\ r.at[k] % 16 = 0 /\ \A j \in 1..(k - 1) : r.at[j] < r.at[k]
    BY <1>3
  <2>4. r.at[k + 1] \in Nat /\ r.at[k + 1] > r.at[k] /\ r.at[k + 1] % 16 = 0
    <3> DEFINE g == get_next_16_boundary(r.files[k].len + 1)
               h == get_next_16_boundary(r.files[k].size)
    <3>1. r.files[k].len + 1 \in Nat /\ r.files[k].size \in Nat
      BY <2>2
    <3>2. \A m \in Nat : get_next_16_boundary(m) \in Nat /\ get_next_16_boundary(m) % 16 = 0
      BY Multiples
    <3>4. g \in Nat /\ g % 16 = 0 /\ h \in Nat /\ h % 16 = 0
      BY <3>1, <3>2
    <3>3. r.at[k + 1] = r.at[k] + 16 + g + h
      BY <2>1
    <3> HIDE DEF g, h
    <3> QED
      <4> DEFINE a == r.at[k]
                 b == r.at[k + 1]
      <4>1. a \in Nat /\ a % 16 = 0 /\ b = a + 16 + g + h
        BY <2>3, <3>3
      <4> HIDE DEF a, b
      <4>2. b \in Nat /\ b > a /\ b % 16 = 0
        BY <3>4, <4>1
      <4> QED
        BY <4>2 DEF a, b
  <2>5. \A j \in 1..((k + 1) - 1) : j \in 1..(k - 1) \/ j = k
    BY <1>1
  <2>6. \A j \in 1..(k - 1) : r.at[j] < r.at[k + 1]
    <3>1. \A j \in 1..(k - 1) : r.at[j] \in Nat
      BY <1>3
    <3> QED
      BY <2>3, <2>4, <3>1
  <2> QED
    BY <1>3, <2>4, <2>5, <2>6
<1> HIDE DEF P
<1>4. Bad = {}
  <2> SUFFICES ASSUME Bad # {} PROVE FALSE
    OBVIOUS
  <2>1. Bad \subseteq Nat
    BY <1>1
  <2>2. PICK k \in Bad : \A m \in Bad : k <= m
    BY <2>1, LeastExists
  <2>3. k \in 1..(n + 1) /\ ~ P(k) /\ k # 1
    BY <1>2, <2>2
  <2>4. k - 1 \in 1..n /\ k - 1 \in 1..(n + 1) /\ (k - 1) + 1 = k
    BY <1>1, <2>3
  <2>5. P(k - 1)
    BY <2>2, <2>3, <2>4
  <2> QED
    BY <1>3, <2>3, <2>4, <2>5
<1> QED
  BY <1>4 DEF P

\* The header of the k-th file is read as such, and leads to the next file or to the volume.
LEMMA HeaderOfFile ==
  ASSUME rom \in Rom, NEW k \in 1..Len(rom.files)
  PROVE  /\ rom.at[k] # 0
         /\ Header(rom.at[k]).name = rom.files[k].name
         /\ Header(rom.at[k]).size = rom.files[k].size
         /\ NextHeader(rom.at[k]) = IF k = Len(rom.files) THEN 0 ELSE rom.at[k + 1]
<1> DEFINE n == Len(rom.files)
           next == IF k = n THEN 0 ELSE rom.at[k + 1]
           f == rom.files[k]
<1>1. n \in Nat \ {0} /\ f.flags \in 0..15
  BY RomFields
<1>2. \A i \in 1..(n + 1) : /\ rom.at[i] \in Nat /\ rom.at[i] > 0 /\ rom.at[i] % 16 = 0
                            /\ \A j \in 1..(i - 1) : rom.at[j] < rom.at[i]
  BY HeadersPlaced
<1>3. k \in 1..(n + 1) /\ k + 1 \in 1..(n + 1)
  BY <1>1
<1>4. rom.at[k] \in Nat /\ rom.at[k] > 0
  BY <1>2, <1>3
<1>5. FileAt(rom.at[k]) = {k}
  <2>1. ASSUME NEW i \in 1..n, rom.at[i] = rom.at[k]
        PROVE  i = k
    <3>1. i \in 1..(n + 1)
      BY <1>1
    <3>2. i < k => i \in 1..(k - 1)
      OBVIOUS
    <3>3. k < i => k \in 1..(i - 1)
      OBVIOUS
    <3>4. ~ (i < k) /\ ~ (k < i)
      BY <1>2, <1>3, <1>4, <2>1, <3>1, <3>2, <3>3
    <3> QED
      BY <3>4
  <2> QED
    BY <2>1 DEF FileAt, Offset
<1>6. next \in Nat /\ next % 16 = 0
  BY <1>2, <1>3
<1>7. Header(rom.at[k]) = [nextfh |-> f.flags + next, size |-> f.size, name |-> f.name]
  <2>1. rom.at[k] # 0 /\ FileAt(rom.at[k]) # {}
    BY <1>4, <1>5
  <2>2. (CHOOSE i \in FileAt(rom.at[k]) : TRUE) = k
    BY <1>5
  <2> QED
    BY <2>1, <2>2 DEF Header, Offset
<1>8. NextHeader(rom.at[k]) = ((f.flags + next) \div 16) * 16
  BY <1>7 DEF NextHeader
<1> DEFINE g == f.flags
<1>9. g \in 0..15
  BY <1>1
<1> HIDE DEF next, g
<1>10. ((g + next) \div 16) * 16 = next
  BY <1>6, <1>9
<1> QED
  BY <1>4, <1>7, <1>8, <1>10 DEF next, g

\* The volume's name ends where the first header is, unless its length is a multiple of 16.
LEMMA FirstHeader ==
  ASSUME rom \in Rom, Walkable
  PROVE  get_next_16_boundary(s_strlen(rom.len) + 16) = rom.at[1]
<1> DEFINE l == rom.len
<1>1. l \in 0..255 /\ PlacedBy(rom)
  BY RomFields
<1>2. rom.at[1] = 16 + get_next_16_boundary(l + 1)
  BY <1>1 DEF PlacedBy
<1>3. l % 16 # 0
  BY DEF Walkable
<1> HIDE DEF l
<1>4. get_next_16_boundary((l % 256) + 16) = 16 + get_next_16_boundary(l + 1)
  BY <1>1, <1>3 DEF get_next_16_boundary
<1> QED
  BY <1>2, <1>4 DEF s_strlen, l

\* do_execl computes where the contents of echo are: its name and zero take 16 bytes.
LEMMA ContentsOfFile ==
  ASSUME rom \in Rom, NEW k \in 1..Len(rom.files), rom.files[k].name = dir,
         daddr = rom.at[k], dsize = rom.files[k].size, dsize > 0
  PROVE  romfs_get_daddr = ContentAt(k)
<1> DEFINE a == rom.at[k]
<1>1. rom.files[k].len = 4 /\ Len(rom.files) \in Nat /\ rom.files[k].size \in Nat
  BY RomFields DEF dir
<1>2. a \in Nat /\ a % 16 = 0
  <2>1. k \in 1..(Len(rom.files) + 1)
    BY <1>1
  <2> QED
    BY <2>1, HeadersPlaced
<1>3. ContentAt(k) = a + 16 + get_next_16_boundary(4 + 1)
  BY <1>1 DEF ContentAt, Offset
<1>4. romfs_get_daddr = get_next_16_boundary(a + 2) + 16
  BY <1>1 DEF romfs_get_daddr
<1> HIDE DEF a
<1>5. get_next_16_boundary(a + 2) = a + 16 /\ get_next_16_boundary(4 + 1) = 16
  BY <1>2 DEF get_next_16_boundary
<1> QED
  BY <1>2, <1>3, <1>4, <1>5

(***************************************************************************)
(* romfs_namei is at a header, and the file it looks for is not at it or   *)
(* before, but for the first; when it stops, it has that file, or there is *)
(* none and what it has is of no concern.                                  *)
(***************************************************************************)
At(k) ==
  /\ next_offset = rom.at[k]
  /\ \A j \in 2..k : rom.files[j].name # dir

WalkInv ==
  /\ rom \in Rom
  /\ Walkable =>
       /\ pc = "namei" => \E k \in 1..Len(rom.files) : At(k)
       /\ pc = "read" =>
            \/ Findable = {}
            \/ \E k \in Findable : daddr = rom.at[k] /\ dsize = rom.files[k].size
  /\ ReadsTheFile

\* One turn of the loop of romfs_namei.
LEMMA TurnKeepsWalk ==
  ASSUME WalkInv, romfs_namei, Walkable
  PROVE  /\ pc' \in {"namei", "null", "read"}
         /\ pc' = "namei" => \E k \in 1..Len(rom.files) :
              next_offset' = rom.at[k] /\ \A j \in 2..k : rom.files[j].name # dir
         /\ pc' = "null" => Findable = {}
         /\ pc' = "read" =>
              \/ Findable = {}
              \/ \E k \in Findable : daddr' = rom.at[k] /\ dsize' = rom.files[k].size
<1> DEFINE n == Len(rom.files)
           o == NextHeader(next_offset)
<1>1. rom \in Rom /\ pc = "namei" /\ next_offset' = o /\ UNCHANGED machine
  BY DEF WalkInv, romfs_namei
<1>2. PICK k \in 1..n : At(k)
  BY <1>1 DEF WalkInv
<1>3. n \in Nat \ {0}
  BY <1>1, RomFields
<1>4. o = IF k = n THEN 0 ELSE rom.at[k + 1]
  BY <1>1, <1>2, HeaderOfFile DEF At
<1> HIDE DEF o
<1>5. \/ Header(o).name = dir /\ pc' = "read" /\ dsize' = Header(o).size /\ daddr' = o
      \/ Header(o).name # dir /\ pc' = IF o = 0 THEN "null" ELSE "namei"
  BY <1>1 DEF romfs_namei, Found, AtLast
<1>6. CASE k = n
  <2>1. o = 0 /\ Findable = {}
    BY <1>2, <1>4, <1>6 DEF At, Findable
  <2> QED
    BY <1>5, <2>1
<1>7. CASE k # n
  <2>1. k + 1 \in 1..n /\ k + 1 \in 2..n
    BY <1>3, <1>7
  <2>2. /\ o = rom.at[k + 1] /\ o # 0
        /\ Header(o).name = rom.files[k + 1].name /\ Header(o).size = rom.files[k + 1].size
    BY <1>1, <1>4, <1>7, <2>1, HeaderOfFile
  <2>3. CASE rom.files[k + 1].name = dir
    BY <1>5, <2>1, <2>2, <2>3 DEF Findable
  <2>4. CASE rom.files[k + 1].name # dir
    <3>1. \A j \in 2..(k + 1) : j \in 2..k \/ j = k + 1
      OBVIOUS
    <3>2. \A j \in 2..(k + 1) : rom.files[j].name # dir
      BY <1>2, <2>4, <3>1 DEF At
    <3> QED
      BY <1>1, <1>5, <2>1, <2>2, <2>4, <3>2
  <2> QED
    BY <2>3, <2>4
<1> QED
  BY <1>6, <1>7

\* The file that is read has its contents there.
LEMMA ReadKeepsWalk ==
  ASSUME WalkInv, ReadFile, Walkable
  PROVE  \A k \in Findable :
           rom.files[k].size > 0 => got' = [addr |-> ContentAt(k), size |-> rom.files[k].size]
<1> SUFFICES ASSUME NEW k \in Findable, rom.files[k].size > 0
             PROVE  got' = [addr |-> ContentAt(k), size |-> rom.files[k].size]
  OBVIOUS
<1>1. rom \in Rom /\ pc = "read" /\ got' = [addr |-> romfs_get_daddr, size |-> dsize]
  BY DEF WalkInv, ReadFile
<1>2. PICK i \in Findable : daddr = rom.at[i] /\ dsize = rom.files[i].size
  BY <1>1 DEF WalkInv
<1>3. Len(rom.files) \in Nat
  BY <1>1, RomFields
<1>4. i \in 1..Len(rom.files) /\ k \in 1..Len(rom.files)
      /\ rom.files[i].name = dir /\ rom.files[k].name = dir
  BY <1>3 DEF Findable
<1>5. i = k
  BY <1>1, <1>4, RomFields
<1>6. romfs_get_daddr = ContentAt(k)
  BY <1>1, <1>2, <1>4, <1>5, ContentsOfFile
<1> QED
  BY <1>1, <1>2, <1>5, <1>6

\* Every step keeps the walk.
LEMMA WalkInvNext == WalkInv /\ [Next]_vars => WalkInv'
<1> SUFFICES ASSUME WalkInv, [Next]_vars PROVE WalkInv'
  OBVIOUS
<1>1. UNCHANGED machine
  BY DEF Next, ramdisk_driver_init, romfs_init, mm_init, do_fork, do_execl, romfs_namei, ReadFile,
         CopySegments, vars
<1>2. /\ rom' = rom /\ rom' \in Rom /\ (Walkable' <=> Walkable) /\ Findable' = Findable
      /\ \A k : ContentAt(k)' = ContentAt(k)
  BY <1>1 DEF WalkInv, machine, Walkable, Findable, ContentAt, Offset
<1>3. CASE ~ Walkable
  BY <1>2, <1>3 DEF WalkInv, ReadsTheFile
<1>4. CASE Walkable /\ pc' \notin {"namei", "read", "copy", "null"}
  BY <1>2, <1>4 DEF WalkInv, ReadsTheFile
<1>5. CASE Walkable /\ romfs_namei
  BY <1>2, <1>5, TurnKeepsWalk DEF WalkInv, ReadsTheFile, At
<1>6. CASE Walkable /\ ReadFile
  BY <1>2, <1>6, ReadKeepsWalk DEF WalkInv, ReadsTheFile, ReadFile
<1>7. CASE Walkable /\ do_execl
  <2>1. next_offset' = rom.at[1]
    BY <1>7, FirstHeader DEF WalkInv, do_execl
  <2>2. 1 \in 1..Len(rom.files) /\ \A j \in 2..1 : rom.files[j].name # dir
    BY RomFields DEF WalkInv
  <2>3. At(1)'
    BY <1>2, <2>1, <2>2 DEF At
  <2> QED
    BY <1>2, <1>7, <2>2, <2>3 DEF WalkInv, ReadsTheFile, do_execl
<1>8. CASE UNCHANGED <<pc, lookup, got>>
  BY <1>2, <1>8 DEF WalkInv, ReadsTheFile, At, lookup
<1>9. \/ romfs_namei \/ ReadFile \/ do_execl \/ UNCHANGED <<pc, lookup, got>>
      \/ pc' \notin {"namei", "read", "copy", "null"}
  BY DEF Next, ramdisk_driver_init, romfs_init, mm_init, do_fork, CopySegments, vars
<1> QED
  BY <1>3, <1>4, <1>5, <1>6, <1>7, <1>8, <1>9

(***************************************************************************)
(* do_execl reads the contents of the file it looks for, at the place      *)
(* genromfs put them, and romfs_namei gives up only when there is no such  *)
(* file; for file systems of any number of files, names and sizes whose    *)
(* volume name is not a multiple of 16 long.                               *)
(***************************************************************************)
THEOREM FileIsRead == Spec => []ReadsTheFile
<1>1. Init => WalkInv
  BY DEF Init, WalkInv, ReadsTheFile
<1>2. WalkInv => ReadsTheFile
  BY DEF WalkInv
<1> QED
  BY <1>1, <1>2, WalkInvNext, PTL DEF Spec
=============================================================================
