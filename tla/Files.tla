-------------------------------- MODULE Files --------------------------------
(***************************************************************************)
(* The memory blocks of mm/mm.c and the read-only file system: the init    *)
(* functions of start.c, storage.c, fs/vfs.c, fs/romfs.c, and their users  *)
(* do_fork and do_execl, which all run in TASK_MM, one after the other.    *)
(*                                                                         *)
(* Memory is counted in pages of 4 KB, offsets in the file system in       *)
(* bytes.  alloc_mem returns 0 when no block is left and nobody looks: the *)
(* null pointer is a place in low memory that is then written.             *)
(***************************************************************************)
EXTENDS RomLayout

CONSTANTS
  BLOCKS,        \* bound: the bits of memory_used, 32 in the code
  Ram,           \* the sizes of memory the machine may have, in pages
  LowWord,       \* what the word at address 0xffc may be, in pages
  Rom            \* the file systems genromfs may have made

(***************************************************************************)
(* A file system: the name of the volume and its length, and the files in  *)
(* the order of their headers, each with its name, the length of the name, *)
(* its size and its flags (the type and, 8, whether it is executable); and *)
(* where genromfs put the headers, and the end (PlacedBy).                 *)
(***************************************************************************)
ASSUME FilesAssumption ==
  /\ BLOCKS \in Nat \ {0} /\ Ram \subseteq Nat /\ LowWord \subseteq Nat
  /\ \A r \in Rom :
       /\ r.len \in 0..255
       /\ r.files \in Seq([name : STRING, len : Nat, size : Nat, flags : 0..15])
       /\ Len(r.files) > 0 /\ PlacedBy(r)
       /\ \A k \in 1..Len(r.files) : r.files[k].name = "echo" => r.files[k].len = 4
       /\ \A j, k \in 1..Len(r.files) : r.files[j].name = r.files[k].name => j = k

Null == -1
MB == 256        \* pages

VARIABLES
  rom, ram, low_word,
  pc,
  storage, fs_type, device,   \* whether each is set: the ramdisk, romfs, romfs_sb.device
  mm_start,
  memory_used,                \* the bits that are set
  buf, next_offset,           \* romfs_namei
  inode,                      \* the block of the INode, ...
  dsize, daddr,               \* ... and what it says
  got,                        \* the part of the ramdisk do_execl read last
  use                         \* history: what each block was allocated for

machine == <<rom, ram, low_word>>
tables == <<storage, fs_type, device>>
lookup == <<buf, next_offset, inode, dsize, daddr>>
vars == <<machine, pc, tables, mm_start, memory_used, lookup, got, use>>

Bit == 0..(BLOCKS - 1)

----------------------------------------------------------------------------
(* The file system as genromfs lays it out.                                *)

\* s_strlen counts in a u8.
s_strlen(len) == len % 256

\* The header and the contents of the k-th file.
Offset(k) == rom.at[k]
ContentAt(k) == Offset(k) + 16 + get_next_16_boundary(rom.files[k].len + 1)

(***************************************************************************)
(* The header at an offset, as be32tole32 reads it: nextfh, the size and   *)
(* the name.  At 0 is the header of the volume: "-rom" for nextfh, and the *)
(* size of everything; elsewhere there are the zeros that follow a name.   *)
(***************************************************************************)
DashRom == 762474349
FileAt(off) == {k \in 1..Len(rom.files) : Offset(k) = off}

Header(off) ==
  CASE off = 0 -> [nextfh |-> DashRom, size |-> Offset(Len(rom.files) + 1), name |-> rom.volume]
    [] FileAt(off) # {} ->
         LET k == CHOOSE k \in FileAt(off) : TRUE
             f == rom.files[k]
         IN  [nextfh |-> f.flags + IF k = Len(rom.files) THEN 0 ELSE Offset(k + 1),
              size |-> f.size, name |-> f.name]
    [] OTHER -> [nextfh |-> 0, size |-> 0, name |-> ""]

----------------------------------------------------------------------------
(* mm.c: the blocks.                                                       *)

(***************************************************************************)
(* memtest_sub of p_kernel.s tests a word in each page from 4 MB to 32 MB  *)
(* and stops at the first that does not hold what is written.  "add 0xffc, *)
(* %ebx" adds the word at address 0xffc, where the comment adds 0xffc.     *)
(***************************************************************************)
memtest ==
  LET Fails(i) == ((i + low_word) % 1048576) >= ram
  IN  IF \E i \in (4 * MB)..(32 * MB) : Fails(i)
        THEN CHOOSE i \in (4 * MB)..(32 * MB) : Fails(i) /\ \A j \in (4 * MB)..(i - 1) : ~Fails(j)
        ELSE 32 * MB + 1

\* find_free_area: the lowest clear bit, or none.
find_free_area_First(used) == IF Bit \subseteq used THEN Null ELSE 0
find_free_area(used) ==
  IF Bit \subseteq used THEN Null
  ELSE CHOOSE n \in Bit \ used : \A m \in Bit \ used : n <= m

\* alloc_mem marks the block it returns; free_mem does nothing with the null pointer.
Mark(used, b) == used \cup ({b} \ {Null})
free_mem(used, b) == used \ {b}

Used(b, what) == IF b = Null THEN use ELSE [use EXCEPT ![b] = what]
Freed(u, b) == IF b = Null THEN u ELSE [u EXCEPT ![b] = "free"]

\* The first page of a block; 512 KB are 128 pages.
BlockStart(b) == mm_start + 128 * b

----------------------------------------------------------------------------
(* The init functions, in the order of the table init of start.c.          *)

Init ==
  /\ rom \in Rom /\ ram \in Ram /\ low_word \in LowWord
  /\ pc = "ramdisk_driver_init"
  /\ storage = FALSE /\ fs_type = FALSE /\ device = FALSE
  /\ mm_start = 0 /\ memory_used = {}
  /\ buf = Null /\ next_offset = 0
  /\ inode = Null /\ dsize = 0 /\ daddr = 0
  /\ got = [addr |-> 0, size |-> 0]
  /\ use = [b \in Bit |-> "free"]

ramdisk_driver_init ==
  /\ pc = "ramdisk_driver_init"
  /\ storage' = TRUE
  /\ pc' = "romfs_init"
  /\ UNCHANGED <<machine, fs_type, device, mm_start, memory_used, lookup, got, use>>

romfs_init ==
  /\ pc = "romfs_init"
  /\ fs_type' = TRUE /\ device' = storage
  /\ pc' = "mm_init"
  /\ UNCHANGED <<machine, storage, mm_start, memory_used, lookup, got, use>>

mm_init_Top ==
  /\ pc = "mm_init"
  /\ mm_start' = memtest - 24 * MB
  /\ pc' = "idle"
  /\ UNCHANGED <<machine, tables, memory_used, lookup, got, use>>

mm_init ==
  /\ pc = "mm_init"
  /\ mm_start' = memtest - 16 * MB
  /\ pc' = "idle"
  /\ UNCHANGED <<machine, tables, memory_used, lookup, got, use>>

----------------------------------------------------------------------------
(* TASK_MM.  do_fork allocates a block and then uses another address.      *)

do_fork ==
  /\ pc = "idle"
  /\ LET b == find_free_area(memory_used)
     IN  /\ memory_used' = Mark(memory_used, b)
         /\ use' = Used(b, "image")
  /\ UNCHANGED <<machine, pc, tables, mm_start, lookup, got>>

\* The file do_execl looks for, whatever path the message of the caller names.
dir == "echo"

\* do_execl calls romfs_namei, which reads the whole ramdisk into a block.
do_execl ==
  /\ pc = "idle"
  /\ buf' = find_free_area(memory_used)
  /\ memory_used' = Mark(memory_used, buf')
  /\ use' = Used(buf', "buf")
  /\ next_offset' = get_next_16_boundary(s_strlen(rom.len) + 16)
  /\ pc' = IF fs_type /\ device THEN "namei" ELSE "fault"
  /\ UNCHANGED <<machine, tables, mm_start, inode, dsize, daddr, got>>

\* print_romfs_entry goes to the next header before its name is compared.
NextHeader(off) == (Header(off).nextfh \div 16) * 16

Found ==
  /\ inode' = find_free_area(memory_used)
  /\ memory_used' = free_mem(Mark(memory_used, inode'), buf)
  /\ use' = Freed(Used(inode', "inode"), buf)
  /\ dsize' = Header(next_offset').size
  /\ daddr' = next_offset'
  /\ pc' = "read"

\* One turn of the loop of romfs_namei; it ends at offset 0, the header of the volume.
AtLast_Never(off) == FALSE
AtLast(off) == off = 0

romfs_namei ==
  /\ pc = "namei"
  /\ next_offset' = NextHeader(next_offset)
  /\ \/ /\ Header(next_offset').name = dir
        /\ Found
     \/ /\ Header(next_offset').name # dir
        /\ pc' = IF AtLast(next_offset') THEN "null" ELSE "namei"
        /\ UNCHANGED <<inode, memory_used, use, dsize, daddr>>
  /\ UNCHANGED <<machine, tables, mm_start, buf, got>>

\* fn_len is 2, whatever the name is.
romfs_get_daddr_Name == daddr + 16 + 2
romfs_get_daddr == (IF dsize # 0 THEN get_next_16_boundary(daddr + 2) ELSE 0) + 16

\* do_execl reads the file into a block (not the one of the INode), ...
ReadFile ==
  /\ pc = "read"
  /\ buf' = find_free_area(memory_used)
  /\ memory_used' = Mark(memory_used, buf')
  /\ use' = Used(buf', "buf")
  /\ got' = [addr |-> romfs_get_daddr, size |-> dsize]
  /\ pc' = "copy"
  /\ UNCHANGED <<machine, tables, mm_start, next_offset, inode, dsize, daddr>>

\* ... copies its segments to the caller and frees the block; the INode stays allocated.
CopySegments ==
  /\ pc = "copy"
  /\ memory_used' = free_mem(memory_used, buf)
  /\ use' = Freed(use, buf)
  /\ pc' = "idle"
  /\ UNCHANGED <<machine, tables, mm_start, lookup, got>>

Next ==
  \/ ramdisk_driver_init \/ romfs_init \/ mm_init
  \/ do_fork \/ do_execl
  \/ romfs_namei \/ ReadFile \/ CopySegments

\* TASK_MM runs a call to its end; nobody has to make one.
Spec == Init /\ [][Next]_vars /\ WF_vars(romfs_namei) /\ WF_vars(ReadFile) /\ WF_vars(CopySegments)

----------------------------------------------------------------------------
(* Properties.                                                             *)

(***************************************************************************)
(* The images romfs_namei can read.  It takes the end of the volume's name *)
(* for the first header, which is wrong if the length of the name is a     *)
(* multiple of 16: its zero then takes 16 bytes more.                      *)
(***************************************************************************)
Walkable == rom.len % 16 # 0

\* The files romfs_namei can find: all but the first, which is "." in what genromfs makes.
Findable == {k \in 2..Len(rom.files) : rom.files[k].name = dir}

(***************************************************************************)
(* do_execl reads the contents of the file it looks for, at the place      *)
(* genromfs put them, however the files before it are named and padded;    *)
(* and romfs_namei gives up only if there is no such file.                 *)
(***************************************************************************)
ReadsTheFile ==
  Walkable =>
    /\ pc = "copy" => \A k \in Findable :
         rom.files[k].size > 0 => got = [addr |-> ContentAt(k), size |-> rom.files[k].size]
    /\ pc = "null" => Findable = {}

\* A block is marked as long as somebody has it, and no block is given to two.
BlocksOwned ==
  /\ memory_used = {b \in Bit : use[b] # "free"}
  /\ pc = "copy" => buf = Null \/ buf # inode

\* A block in use changes hands only by being freed.
BlocksKept == [][\A b \in Bit : use[b] # "free" => use'[b] \in {use[b], "free"}]_vars

\* Between calls no buffer is left: what stays allocated are the INodes and the blocks of do_fork.
BuffersFreed == pc = "idle" => \A b \in Bit : use[b] # "buf"

\* The machines the code works on: 28 MB above the word at 0xffc, and no carry out of its sums.
Roomy == low_word + 32 * MB < 1048576 /\ ram >= low_word + 28 * MB

(***************************************************************************)
(* The 32 blocks lie in the memory of the machine and away from the kernel *)
(* and its image (below 4 MB) and the image of a child (from 10 to 12 MB), *)
(* also if memtest_sub stops early because of the word it adds.            *)
(***************************************************************************)
BlocksInFreeMemory ==
  Roomy /\ pc \notin {"ramdisk_driver_init", "romfs_init", "mm_init"} => \A b \in 0..31 :
    /\ BlockStart(b) >= 4 * MB
    /\ BlockStart(b) >= 12 * MB \/ BlockStart(b + 1) <= 10 * MB
    /\ BlockStart(b + 1) <= ram

\* A search ends: each call of execl comes to an end, or to the null pointer of a missing file.
LookupEnds == pc = "namei" ~> pc \in {"idle", "null"}

=============================================================================
