------------------------------ MODULE RomLayout ------------------------------
(***************************************************************************)
(* The layout of a romfs image, shared by the program that writes it       *)
(* (Genromfs) and by the kernel that reads it (Files).                     *)
(***************************************************************************)
EXTENDS Integers, Sequences

\* get_next_16_boundary, and ALIGNUP16 of genromfs.
get_next_16_boundary(n) == ((n + 15) \div 16) * 16

(***************************************************************************)
(* A file system without directories, made with no alignment: the length   *)
(* of the volume's name; the files in the order of their headers; and      *)
(* where the headers are, and the end.                                     *)
(***************************************************************************)
PlacedBy(r) ==
  /\ Len(r.at) = Len(r.files) + 1
  /\ r.at[1] = 16 + get_next_16_boundary(r.len + 1)
  /\ \A k \in 1..Len(r.files) :
       r.at[k + 1] = r.at[k] + 16 + get_next_16_boundary(r.files[k].len + 1)
                                  + get_next_16_boundary(r.files[k].size)
=============================================================================
