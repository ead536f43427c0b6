------------------------------ MODULE BootFat ------------------------------
(***************************************************************************)
(* The boot sector for FAT floppies (c-bootloader/fat.c): main searches    *)
(* the root directory for LOADER.BIN, reads the first sector of it and     *)
(* jumps there.  The same source is built as a boot sector and, with       *)
(* DOS_COM, as a program for DOS, which looks at more of an entry.         *)
(*                                                                         *)
(* The contents of the buffer are the number of the logical sector it was  *)
(* read from.  A read that fails leaves it as it was, and nobody looks.    *)
(***************************************************************************)
EXTENDS Integers, Sequences, FiniteSets

CONSTANTS
  Floppy,        \* the floppies that may be in the drive
  JunkSize,      \* what the word at offset 11 of the buffer may be before the first read
  MaxFails       \* bound: the reads that fail

u16 == 0..65535

\* A floppy: the first entries of its root directory, of which the rest is empty.
IsFloppy(f) ==
  /\ DOMAIN f \subseteq 0..223
  /\ \A k \in DOMAIN f : /\ 0..k \subseteq DOMAIN f
                         /\ f[k].kind \in {"loader", "label", "deleted", "file"}
                         /\ f[k].cluster \in 0..2848

FloppyAssumption ==
  /\ MaxFails \in Nat /\ JunkSize \subseteq u16
  /\ \A f \in Floppy : IsFloppy(f)

VARIABLES
  floppy, DOS_COM,
  pc,
  buff,
  root_dir_secotrs,
  i,             \* the next sector of the search
  read_sec,
  failed         \* history: which reads failed

vars == <<floppy, DOS_COM, pc, buff, root_dir_secotrs, i, read_sec, failed>>

Nothing == -1
root_sec_no == 19
root_entry_count == 224

----------------------------------------------------------------------------
(* The floppy: 18 sectors to a track, two heads, one sector to a cluster.  *)

Lba(chs) == (chs.track_no * 2 + chs.head_no) * 18 + chs.sector_no - 1
RootSectors == 14
DataSector(c) == 19 + RootSectors + c - 2

\* The j-th entry of the sector in the buffer: no other sector looks like a directory.
EntryIn(s, j) ==
  LET k == (s - 19) * 16 + j
  IN  IF s \in 19..(19 + RootSectors - 1)
        THEN IF k \in DOMAIN floppy THEN floppy[k] ELSE [kind |-> "end", cluster |-> 0]
        ELSE [kind |-> "file", cluster |-> 0]

----------------------------------------------------------------------------
(* The code.                                                               *)

\* u8 and u16 hold these without loss for a sector of the floppy.
Chs(s) == [track_no |-> ((s \div 18) \div 2) % 256, head_no |-> (s \div 18) % 2,
           sector_no |-> (s % 18) + 1]

\* read_sector: the sector, or what the buffer held before.
read_sector(s, what) ==
  \/ /\ buff' = Lba(Chs(s))
     /\ UNCHANGED failed
  \/ /\ Cardinality(failed) < MaxFails
     /\ failed' = failed \cup {what}
     /\ UNCHANGED buff

\* The bytes of an entry that are compared with "LOADER  BIN".
Matches(e) == e.kind \in {"loader", "label"}

(***************************************************************************)
(* The entries of the buffer from j on: whether the search goes on, and    *)
(* what read_sec is.  Only the DOS program passes over a label, after it   *)
(* has set read_sec, and stops at the first free entry.                    *)
(***************************************************************************)
Found(e) == (e.cluster - 2 + root_dir_secotrs + 19) % 65536

Stops(e) == IF DOS_COM THEN e.kind \in {"loader", "end"} ELSE Matches(e)

SearchResult(s) ==
  LET stop == {j \in 0..15 : Stops(EntryIn(s, j))}
      last == IF stop = {} THEN 15 ELSE CHOOSE j \in stop : \A k \in stop : j <= k
      hits == {j \in 0..last : Matches(EntryIn(s, j))}
  IN  [end |-> stop # {},
       sec |-> IF hits = {} THEN read_sec
               ELSE Found(EntryIn(s, CHOOSE j \in hits : \A k \in hits : k <= j))]

Init ==
  /\ floppy \in Floppy /\ DOS_COM \in BOOLEAN
  /\ pc = "boot"
  /\ buff = Nothing /\ root_dir_secotrs = 0 /\ i = root_sec_no /\ read_sec = 0
  /\ failed = {}

\* The boot sector gives the bytes per sector; the division faults if they are 0.
ReadBoot ==
  /\ pc = "boot"
  /\ read_sector(0, "boot")
  /\ \E byte_per_sector \in IF buff' = 0 THEN {512} ELSE JunkSize :
       IF byte_per_sector = 0
         THEN pc' = "fault" /\ UNCHANGED root_dir_secotrs
         ELSE /\ pc' = "search"
              /\ root_dir_secotrs' = (root_entry_count * 32 + byte_per_sector - 1) \div byte_per_sector
  /\ UNCHANGED <<floppy, DOS_COM, i, read_sec>>

\* One turn of the loop over the sectors of the root directory, and one sector more.
InRoot_Short == i < root_dir_secotrs
InRoot == i <= root_dir_secotrs + root_sec_no

ReadRoot ==
  /\ pc = "search" /\ InRoot
  /\ read_sector(i, "root")
  /\ read_sec' = SearchResult(buff').sec
  /\ i' = i + 1
  /\ pc' = IF SearchResult(buff').end THEN "search_end" ELSE "search"
  /\ UNCHANGED <<floppy, DOS_COM, root_dir_secotrs>>

NotFound ==
  /\ pc = "search" /\ ~InRoot
  /\ pc' = "search_end"
  /\ UNCHANGED <<floppy, DOS_COM, buff, root_dir_secotrs, i, read_sec, failed>>

\* Sector 0 stands for no file: the boot sector spins, the DOS program ends.
LoadFile ==
  /\ pc = "search_end"
  /\ \/ /\ read_sec # 0
        /\ read_sector(read_sec, "file")
        /\ pc' = "jump"
     \/ /\ read_sec = 0
        /\ pc' = "hang"
        /\ UNCHANGED <<buff, failed>>
  /\ UNCHANGED <<floppy, DOS_COM, root_dir_secotrs, i, read_sec>>

Next == ReadBoot \/ ReadRoot \/ NotFound \/ LoadFile

Spec == Init /\ [][Next]_vars

----------------------------------------------------------------------------
(* Properties.                                                             *)

OfKind(k) == {n \in DOMAIN floppy : floppy[n].kind = k}

(***************************************************************************)
(* What is jumped to is the first sector of LOADER.BIN, wherever it is in  *)
(* the root directory, unless the read of the boot sector or of the file   *)
(* itself failed; a failed read of the directory can at worst hide it, and *)
(* without failures it is not found only if it is not there.  (On a disk   *)
(* with a label of the same name the two builds differ, and err.)          *)
(***************************************************************************)
JumpsToLoader ==
  OfKind("label") = {} =>
    /\ pc = "jump" /\ failed \cap {"boot", "file"} = {} =>
         \E n \in OfKind("loader") : buff = DataSector(floppy[n].cluster)
    /\ pc = "hang" /\ failed = {} => OfKind("loader") = {}
=============================================================================
