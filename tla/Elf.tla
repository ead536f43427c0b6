-------------------------------- MODULE Elf --------------------------------
(***************************************************************************)
(* How the image of a program gets from the ELF file that was read to the  *)
(* addresses it is linked for: copy_elf_code of the kernel loader, which   *)
(* then jumps to the kernel, and the same loop in do_execl.  The headers   *)
(* are read where the file lies, in every turn of the loop, while the      *)
(* copies may overwrite them.                                              *)
(*                                                                         *)
(* A cell of memory holds cell k of the file or something else.  The ELF   *)
(* header and every program header take one cell.                          *)
(***************************************************************************)
EXTENDS Integers, Sequences

CONSTANTS
  Image,        \* the files
  Size,         \* the cells of a file
  MemSize,      \* the cells of memory
  buff,         \* where the file is read to
  seg_base      \* the base of the segment: 0 for the loader, va2la's for do_execl

\* e_phoff is the cell of the first program header.
IsImage(f) ==
  /\ f.e_phoff \in Nat \ {0} /\ Len(f.phdr) \in Nat /\ f.e_phoff + Len(f.phdr) <= Size
  /\ DOMAIN f.phdr = 1..Len(f.phdr)
  /\ \A k \in DOMAIN f.phdr :
       /\ {f.phdr[k].p_offset, f.phdr[k].p_vaddr, f.phdr[k].p_filesz} \subseteq Nat
       /\ f.phdr[k].p_offset + f.phdr[k].p_filesz <= Size
       /\ seg_base + f.phdr[k].p_vaddr + f.phdr[k].p_filesz <= MemSize

ElfAssumption ==
  /\ buff \in Nat /\ seg_base \in Nat /\ Size \in Nat /\ MemSize \in Nat /\ buff + Size <= MemSize
  /\ \A f \in Image : IsImage(f)

VARIABLES
  file, mem,
  i,            \* the next program header
  entry,        \* the entry point, saved before the first copy
  pc            \* "copy", "jump", or "wild": a header was read that is none

vars == <<file, mem, i, entry, pc>>

Other == -1
Junk == -2

----------------------------------------------------------------------------
HeaderIntact == mem[buff] = 0
PhdrIntact(k) == buff + file.e_phoff + k < MemSize /\ mem[buff + file.e_phoff + k] = file.e_phoff + k
                 /\ k < Len(file.phdr)

\* What may be read as e_phnum.
e_phnum == IF HeaderIntact THEN {Len(file.phdr)} ELSE 0..(Len(file.phdr) + 1)

\* From the first byte up, each as it is when its turn comes.
s32_memcpy(m, dest, src, n) ==
  LET copied[k \in 0..n] ==
        IF k = 0 THEN m ELSE [copied[k - 1] EXCEPT ![dest + k - 1] = copied[k - 1][src + k - 1]]
  IN  copied[n]

Init ==
  /\ file \in Image
  /\ mem = [c \in 0..(MemSize - 1) |-> IF c - buff \in 0..(Size - 1) THEN c - buff ELSE Other]
  /\ i = 0
  /\ entry = file.e_entry
  /\ pc = "copy"

\* CHECK_PT_TYPE_LOAD: other segments are passed over.
CopySegment ==
  /\ pc = "copy" /\ \E n \in e_phnum : i < n
  /\ IF PhdrIntact(i)
       THEN LET ph == file.phdr[i + 1]
            IN  /\ mem' = IF ph.p_type = "PT_LOAD"
                            THEN s32_memcpy(mem, seg_base + ph.p_vaddr, buff + ph.p_offset, ph.p_filesz)
                            ELSE mem
                /\ UNCHANGED pc
       ELSE pc' = "wild" /\ UNCHANGED mem
  /\ i' = i + 1
  /\ UNCHANGED <<file, entry>>

\* Variant: the entry point is read from the header after the copies.
Target_Header == IF HeaderIntact THEN file.e_entry ELSE Junk
Target == entry

JumpKernel ==
  /\ pc = "copy" /\ \E n \in e_phnum : i >= n
  /\ pc' = "jump"
  /\ entry' = Target
  /\ UNCHANGED <<file, mem, i>>

Next == CopySegment \/ JumpKernel

Spec == Init /\ [][Next]_vars

----------------------------------------------------------------------------
(* Properties.                                                             *)

Loads == {k \in DOMAIN file.phdr : file.phdr[k].p_type = "PT_LOAD"}
Source(k) == {buff + file.phdr[k].p_offset + c : c \in 0..(file.phdr[k].p_filesz - 1)}
Dest(k) == {seg_base + file.phdr[k].p_vaddr + c : c \in 0..(file.phdr[k].p_filesz - 1)}
Headers == {buff} \cup {buff + file.e_phoff + k : k \in 0..(Len(file.phdr) - 1)}

(***************************************************************************)
(* When it is enough: no copy lands on a header, on a segment that is      *)
(* still to be copied or was copied before, and a segment that overlaps    *)
(* its own destination moves down.                                         *)
(***************************************************************************)
Spared ==
  \A k \in Loads :
    /\ Dest(k) \cap Headers = {}
    /\ \A j \in Loads : j > k => Dest(k) \cap (Source(j) \cup Dest(j)) = {}
    /\ Dest(k) \cap Source(k) # {} => seg_base + file.phdr[k].p_vaddr <= buff + file.phdr[k].p_offset

(***************************************************************************)
(* The jump goes to the entry point of the file even if the copies have    *)
(* overwritten its header; every segment is then where it is linked for,   *)
(* and no header was read from something else, if the destinations spare   *)
(* what is still needed.                                                   *)
(***************************************************************************)
KernelPlaced ==
  /\ pc = "jump" => entry = file.e_entry
  /\ pc = "wild" => ~ Spared
  /\ pc = "jump" /\ Spared =>
       \A k \in Loads : \A c \in 0..(file.phdr[k].p_filesz - 1) :
         mem[seg_base + file.phdr[k].p_vaddr + c] = file.phdr[k].p_offset + c
=============================================================================
