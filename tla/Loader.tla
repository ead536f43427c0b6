------------------------------- MODULE Loader -------------------------------
(***************************************************************************)
(* The kernel loader (kernel_loader/kernel_loader.c): start_c reads the    *)
(* boot sector of a 1.44 MB FAT12 floppy, searches the root directory for  *)
(* the kernel and load_file_to_ram follows its chain of clusters.          *)
(*                                                                         *)
(* The contents of a buffer are the number of the logical sector it was    *)
(* read from, so that the loaded image is a sequence of sector numbers;    *)
(* what the loader looks at in a sector is derived from the disk.  A read  *)
(* the BIOS refuses leaves its buffer as it was, and no caller looks at    *)
(* the result of read_sector.  LOAD_FS is not defined.                     *)
(***************************************************************************)
EXTENDS Integers, Sequences, FiniteSets

CONSTANTS
  Disk,          \* the disks the loader may find in the drive
  JunkBpb,       \* what init_bpb may make of bytes that are not a boot sector
  JunkCluster,   \* what a sector that is not of the FAT may hold as a cluster
  MaxFails,      \* bound: the reads that fail though the sector is there
  MaxLoaded      \* bound: the sectors loaded before the loader is given up

Nothing == -1    \* a buffer nothing was read into
EOF == 4095      \* 0xfff

\* The parameters of the disk that init_bpb keeps and the loader uses.
Bpb == [boot_occupy_sector : Nat, fat_count : Nat, fat_occupy_sector : Nat,
        root_entry_count : Nat]

Cluster == 2..4079

(***************************************************************************)
(* A disk: its parameters, the kernel's clusters and size, and the root    *)
(* directory: "before" entries of one kind, then the kernel if it is       *)
(* there, then none.  The loader relies on 512 bytes to a sector, on one   *)
(* sector to a cluster, on one boot sector before the FAT and on a FAT     *)
(* within the first track, whatever the boot sector says.                  *)
(***************************************************************************)
IsDisk(d) ==
  /\ d.bpb \in Bpb
  /\ d.bpb.boot_occupy_sector = 1
  /\ d.bpb.fat_occupy_sector \in 1..15
  /\ d.bpb.fat_count > 0
  /\ d.chain \in Seq(Cluster) /\ Len(d.chain) \in 1..(MaxLoaded - 1)
  /\ \A k \in DOMAIN d.chain :
       /\ 3 * (d.chain[k] \div 2) + 2 < 512 * d.bpb.fat_occupy_sector
       /\ \A j \in DOMAIN d.chain : d.chain[j] = d.chain[k] => j = k
  /\ d.size \in Nat /\ d.size > 512 * (Len(d.chain) - 1) /\ d.size <= 512 * Len(d.chain)
  /\ d.present \in BOOLEAN
  /\ d.before \in 0..d.bpb.root_entry_count
  /\ d.present => d.before < d.bpb.root_entry_count
  /\ d.kind \in {"deleted", "label", "file"}

LoaderAssumption ==
  /\ MaxFails \in Nat /\ MaxLoaded \in Nat
  /\ JunkCluster \subseteq 0..EOF /\ JunkBpb \subseteq Bpb
  /\ \A d \in Disk : IsDisk(d)

VARIABLES
  disk,
  pc,
  bpb,
  buff,          \* start_c: the sector held at IMAGE_LMA
  i,             \* start_c: the next sector of the root directory to read
  file_size,     \* ... the size in the entry looked at last
  first,         \* ... first_kernel_cluster
  cur,           \* load_file_to_ram: the cluster in hand
  fat_buffer,    \* get_next_cluster: the first of the two sectors held
  read_data,     \* the sector held
  mem,           \* the sectors copied to LOAD_KERNEL_ADDR, in order
  fails,         \* history: the reads that failed ...
  stale,         \* ... the sectors for which a buffer held another one ...
  bad            \* ... and the places in mem of those that were data

loader == <<bpb, buff, i, file_size, first, cur, fat_buffer, read_data, mem>>
history == <<fails, stale, bad>>
vars == <<disk, pc, loader, history>>

----------------------------------------------------------------------------
(* The disk and the BIOS.                                                  *)

SPT == 18
TRACKS == 80
Content == Nothing..(TRACKS * 2 * SPT - 1)

RootStart == disk.bpb.boot_occupy_sector + disk.bpb.fat_count * disk.bpb.fat_occupy_sector
RootSectors == (disk.bpb.root_entry_count * 32 + 511) \div 512

InFat(l) == l \in 1..(RootStart - 1)
InRoot(l) == l \in RootStart..(RootStart + RootSectors - 1)

\* Int 13h with CHS numbers: the first sector is 1, and a read stays in its track.
Lba(chs) == (chs.track * 2 + chs.head) * SPT + chs.sector - 1
Readable(chs, n) ==
  /\ chs.track \in 0..(TRACKS - 1)
  /\ chs.sector >= 1 /\ chs.sector + n - 1 <= SPT

\* The entry of the FAT for a cluster, and the bytes of the FAT: two entries in three.
FatEntry(c) ==
  IF \E k \in DOMAIN disk.chain : disk.chain[k] = c
    THEN LET k == CHOOSE k \in DOMAIN disk.chain : disk.chain[k] = c
         IN  IF k = Len(disk.chain) THEN EOF ELSE disk.chain[k + 1]
    ELSE CASE c = 0 -> 4080 [] c = 1 -> EOF [] OTHER -> 0

FatByte(n) ==
  LET even == FatEntry(2 * (n \div 3))
      odd  == FatEntry(2 * (n \div 3) + 1)
  IN  CASE n % 3 = 0 -> even % 256
        [] n % 3 = 1 -> even \div 256 + 16 * (odd % 16)
        [] n % 3 = 2 -> odd \div 16

\* The k-th entry of the root directory: what its name and attributes say, its size.
RootEntry(k) ==
  CASE k < disk.before -> [kind |-> disk.kind, cluster |-> 0,
                           size |-> IF disk.kind = "file" THEN 513 ELSE 0]
    [] k = disk.before /\ disk.present
         -> [kind |-> "kernel", cluster |-> disk.chain[1], size |-> disk.size]
    [] OTHER -> [kind |-> "end", cluster |-> 0, size |-> 0]

----------------------------------------------------------------------------
(* The helpers of the loader.                                              *)

\* Where the loader looks for a logical sector, and for a sector of the FAT.
Chs(l) == [track |-> (l \div 18) \div 2, head |-> (l \div 18) % 2, sector |-> (l % 18) + 1]
FatChs(n) == [track |-> (n \div 18) \div 2, head |-> (n \div 18) % 2, sector |-> n % 18]

\* root_dir_occupy_sector and root_dir_start_sector, computed from the BPB.
root_dir_occupy_sector(b) ==
  IF (b.root_entry_count * 32) % 512 # 0
    THEN (b.root_entry_count * 32) \div 512 + 1
    ELSE (b.root_entry_count * 32) \div 512

root_dir_start_sector(b) == b.fat_count * b.fat_occupy_sector + b.boot_occupy_sector

\* The sector of a cluster.
r_sec(cluster) == cluster - 2 + root_dir_occupy_sector(bpb) + root_dir_start_sector(bpb)

\* read_sector of n sectors at chs, and what its buffer holds then.
read_sector(chs, n, ok) ==
  /\ ok => Readable(chs, n)
  /\ ~ok /\ Readable(chs, n) => fails < MaxFails
  /\ fails' = IF ~ok /\ Readable(chs, n) THEN fails + 1 ELSE fails

Held(chs, held, ok) == IF ok THEN Lba(chs) ELSE held

(***************************************************************************)
(* The 16 entries of a sector, as the loop of start_c sees them: a deleted *)
(* entry, a label and another file are passed over, the kernel and the     *)
(* entry that ends the directory stop the search.  The boot sector, left   *)
(* in buff by a read that failed, does not name the kernel; data may.      *)
(***************************************************************************)
Passed == {"deleted", "label", "file"}

RootScan(l) ==
  LET base  == 16 * (l - RootStart)
      Stops == {j \in 0..15 : RootEntry(base + j).kind \notin Passed}
      last  == IF Stops = {} THEN 15 ELSE CHOOSE j \in Stops : \A k \in Stops : j <= k
  IN  RootEntry(base + last)

Scan(l) ==
  IF InRoot(l)
    THEN {RootScan(l)}
    ELSE [kind : {"file", "end"}, cluster : {0}, size : {0, 513}]
           \cup IF l \in {0, Nothing} THEN {}
                ELSE [kind : {"kernel"}, cluster : JunkCluster, size : {0, 513}]

(***************************************************************************)
(* get_next_cluster: the place of a cluster in the FAT, the number it      *)
(* hands to read_fat, and what the bytes at short_offset of the buffer     *)
(* say.  Before anything is read into it, it holds the 1 that init_bss_asm *)
(* writes to every byte of the bss.                                        *)
(***************************************************************************)
FatOffset(c) == IF c % 2 = 1 THEN ((c - 1) \div 2) * 3 ELSE (c \div 2) * 3
read_fat_sector_no(c) == FatOffset(c) \div 512 + 2

Byte(held, n) ==
  IF held = Nothing THEN 1
  ELSE FatByte(((held - 1) * 512 + n) % (disk.bpb.fat_occupy_sector * 512))

Decode_OneSector(c, held) ==
  LET short_offset == FatOffset(c) % 512
      b(n) == IF short_offset + n < 512 THEN Byte(held, short_offset + n) ELSE 0
  IN  IF c % 2 = 1 THEN b(1) \div 16 + b(2) * 16 ELSE (b(1) % 16) * 256 + b(0)

Decode(c, held) ==
  LET short_offset == FatOffset(c) % 512
      b(n) == Byte(held, short_offset + n)
  IN  IF c % 2 = 1 THEN b(1) \div 16 + b(2) * 16 ELSE (b(1) % 16) * 256 + b(0)

NextCluster(c, held) ==
  IF held = Nothing \/ (InFat(held) /\ InFat(held + ((FatOffset(c) % 512) + 2) \div 512))
    THEN {Decode(c, held)}
    ELSE JunkCluster \cup {EOF}

----------------------------------------------------------------------------
(* start_c: the boot sector, one sector of the root directory at a time.   *)

\* The bss is not cleared: init_bss_asm writes 1 to every byte.
NoBpb == [boot_occupy_sector |-> 257, fat_count |-> 1, fat_occupy_sector |-> 257,
          root_entry_count |-> 257]

Init ==
  /\ disk \in Disk
  /\ pc = "boot"
  /\ bpb = NoBpb
  /\ buff = Nothing /\ fat_buffer = Nothing /\ read_data = Nothing
  /\ i = 0 /\ file_size = 0 /\ first = -1 /\ cur = 0
  /\ mem = <<>>
  /\ fails = 0 /\ stale = {} /\ bad = {}

\* If the read fails, init_bpb takes what lies in memory: any bpb, or one it divides by 0 with.
ReadBoot ==
  /\ pc = "boot"
  /\ \E ok \in BOOLEAN :
       /\ read_sector(Chs(0), 1, ok)
       /\ buff' = Held(Chs(0), buff, ok)
       /\ stale' = IF ok THEN stale ELSE stale \cup {0}
       /\ bpb' \in IF ok THEN {disk.bpb} ELSE JunkBpb
       /\ pc' \in IF ok THEN {"root"} ELSE {"root", "fault"}
  /\ i' = root_dir_start_sector(bpb')
  /\ UNCHANGED <<disk, file_size, first, cur, fat_buffer, read_data, mem, bad>>

\* The loop reads one sector past the directory when nothing stops it before.
ReadRoot ==
  /\ pc = "root"
  /\ \E ok \in BOOLEAN :
       /\ read_sector(Chs(i), 1, ok)
       /\ buff' = Held(Chs(i), buff, ok)
       /\ stale' = IF buff' = i THEN stale ELSE stale \cup {i}
  /\ \E e \in Scan(buff') :
       /\ file_size' = e.size
       /\ first' = IF e.kind = "kernel" THEN e.cluster ELSE first
       /\ pc' = IF \/ e.kind \in {"kernel", "end"}
                   \/ i = root_dir_occupy_sector(bpb) + root_dir_start_sector(bpb)
                  THEN "first" ELSE "root"
  /\ i' = i + 1
  /\ UNCHANGED <<disk, bpb, cur, fat_buffer, read_data, mem, bad>>

----------------------------------------------------------------------------
(* load_file_to_ram.  The cluster is an int in its parameter and a u16     *)
(* in cur_cluster and next_cluster.                                        *)

ReadData(cluster) ==
  LET chs == Chs(r_sec(cluster))
  IN  \E ok \in BOOLEAN :
        /\ read_sector(chs, 1, ok)
        /\ read_data' = Held(chs, read_data, ok)
        /\ mem' = Append(mem, read_data')
        /\ bad' = IF ok THEN bad ELSE bad \cup {Len(mem')}

LoadFirst ==
  /\ pc = "first"
  /\ ReadData(first)
  /\ cur' = first % 65536
  /\ pc' = IF file_size > 512 THEN "fat" ELSE "done"
  /\ UNCHANGED <<disk, bpb, buff, i, file_size, first, fat_buffer, stale>>

AtEnd_Ff8(c) == c = 4088
AtEnd(c) == c = EOF

\* Only 0xfff ends a chain, as the tools that make the floppy write it.  A next cluster
\* of 0, which no good FAT has here, waits for a key and is then loaded like any other.
FollowFat ==
  /\ pc = "fat"
  /\ LET chs == FatChs(read_fat_sector_no(cur))
     IN  \E ok \in BOOLEAN :
           /\ read_sector(chs, 2, ok)
           /\ fat_buffer' = Held(chs, fat_buffer, ok)
           /\ stale' = IF fat_buffer' = Lba(chs) THEN stale ELSE stale \cup {Lba(chs)}
  /\ cur' \in NextCluster(cur, fat_buffer')
  /\ pc' = IF AtEnd(cur') THEN "done" ELSE "data"
  /\ UNCHANGED <<disk, bpb, buff, i, file_size, first, read_data, mem, bad>>

LoadNext ==
  /\ pc = "data"
  /\ Len(mem) < MaxLoaded
  /\ ReadData(cur)
  /\ pc' = "fat"
  /\ UNCHANGED <<disk, bpb, buff, i, file_size, first, cur, fat_buffer, stale>>

Next == ReadBoot \/ ReadRoot \/ LoadFirst \/ FollowFat \/ LoadNext

\* One processor with interrupts served by the BIOS: the loader goes on.
Spec == Init /\ [][Next]_vars /\ WF_vars(Next)

----------------------------------------------------------------------------
(* Properties.                                                             *)

(***************************************************************************)
(* Reads that failed and do no harm: of sectors of the root directory      *)
(* other than the first and the one with the kernel's entry (the sector    *)
(* before is searched again), and of sectors of the FAT already held.      *)
(***************************************************************************)
Harmless ==
  stale \subseteq {l \in RootStart + 1 .. RootStart + RootSectors - 1 :
                     l # RootStart + disk.before \div 16}

(***************************************************************************)
(* Once the loader is done, the image is the kernel's clusters in the      *)
(* order of its chain, wherever its entry is in the root directory and     *)
(* even if its entry of the FAT crosses two sectors.  A read of data that  *)
(* failed spoils its own sector of the image and no other.                 *)
(***************************************************************************)
KernelLoaded ==
  pc = "done" /\ disk.present /\ Harmless =>
    /\ Len(mem) = Len(disk.chain)
    /\ \A k \in 1..Len(mem) :
         k \notin bad => mem[k] = RootStart + RootSectors + disk.chain[k] - 2

\* The loader gets to the end of the kernel's chain unless a read spoilt its search or its walk.
LoadEnds == <>(pc = "done" \/ ~disk.present \/ ~Harmless)

=============================================================================
