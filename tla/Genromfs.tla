------------------------------ MODULE Genromfs ------------------------------
(***************************************************************************)
(* The program that makes the ramdisk (others/genromfs.c).  processdir     *)
(* walks the directory of the host and gives each node its offset; then    *)
(* dumpall writes the nodes, and nothing but the lengths written puts a    *)
(* node where the first pass said it would be.                             *)
(*                                                                         *)
(* A name is its text and its length; a pattern of -A and -x is the set of *)
(* the names it matches.  The contents of a file are a number of bytes, a  *)
(* checksum is not modelled.                                               *)
(***************************************************************************)
EXTENDS RomLayout, FiniteSetsExt, SequencesExt

CONSTANTS
  Host,          \* the directories of the host that may be the source
  Options        \* the options genromfs may be called with

Nil == 0

(***************************************************************************)
(* A host: the inode of the directory, what lstat says of each inode       *)
(* (kind, size, executable and, for a symbolic link, the inode it leads to *)
(* or 0), and what readdir returns of each directory, in its order.  An    *)
(* entry has a name, its length, and an inode; if the name begins with @,  *)
(* "plain" is the name that takes its place and "dev" the device it names. *)
(***************************************************************************)
Kinds == {"dir", "reg", "lnk", "chr", "blk", "fifo", "sock"}

EntriesOf(h) == UNION {Range(h.list[d]) : d \in DOMAIN h.list}

IsHost(h) ==
  /\ h.root \in DOMAIN h.stat /\ h.stat[h.root].kind = "dir"
  /\ \A i \in DOMAIN h.stat :
       /\ i \in Nat /\ i # Nil
       /\ h.stat[i] \in [kind : Kinds, size : Nat, exec : BOOLEAN, to : Nat]
       /\ h.stat[i].to \in DOMAIN h.stat \cup {Nil}
       /\ h.stat[i].kind = "dir" => i \in DOMAIN h.list
  /\ \A d \in DOMAIN h.list : h.list[d] \in Seq(EntriesOf(h))
  /\ \A e \in EntriesOf(h) :
       /\ e.name \in STRING /\ e.len \in Nat /\ e.ino \in DOMAIN h.stat
       /\ e.at => e.plain.name \in STRING /\ e.plain.len \in Nat

\* What main takes as an alignment, up to a page.
Alignments == {16, 32, 64, 128, 256, 512, 1024, 2048, 4096}

IsOptions(o) ==
  /\ o.align \in Nat /\ o.align <= 4096
  /\ \A a \in o.alignlist : a.align \in Alignments

HostAssumption == (\A h \in Host : IsHost(h)) /\ (\A o \in Options : IsOptions(o))

VARIABLES
  host, options,
  pc,
  nodes,         \* the nodes in the order of append; the first is the root
  stack,         \* processdir: the directories open, and what readdir will return
  curroffset,
  todo,          \* dumpnode: the nodes still to write
  atoffs,
  file,          \* the length of what fwrite was given
  image,         \* the headers written, and where
  ignored        \* history: the entries that were left out

scan == <<nodes, stack, curroffset, ignored>>
dump == <<todo, atoffs, file, image>>
vars == <<host, options, pc, scan, dump>>

----------------------------------------------------------------------------
(* Nodes.                                                                  *)

newnode(name, len, off) ==
  [name |-> name, len |-> len, ino |-> Nil, kind |-> "none", exec |-> FALSE, size |-> 0,
   offset |-> off, pad |-> 0, orig_link |-> Nil, parent |-> Nil, owner |-> Nil, kids |-> <<>>]

setnode(n, ino, st) == [n EXCEPT !.ino = ino, !.kind = st.kind, !.exec = st.exec]

\* append: the new node is the last of its directory, and its parent the owner of the list.
append(ns, dir, n) ==
  LET k == Len(ns) + 1
  IN  Append([ns EXCEPT ![dir].kids = Append(@, k)],
             [n EXCEPT !.parent = ns[dir].owner, !.owner = k])

\* findnode: the first node of the tree, in preorder, which is the order of append.
findnode(ino) ==
  LET f == {k \in DOMAIN nodes : nodes[k].ino = ino}
  IN  IF f = {} THEN Nil ELSE Min(f)

findalign(n) ==
  Max({IF n.kind = "reg" THEN options.align ELSE 16}
      \cup {a.align : a \in {b \in options.alignlist : n.name \in b.pattern}})

\* Variant: the 0 after a name is not counted.
spaceneeded_NoNul(n) == 16 + get_next_16_boundary(n.len) + get_next_16_boundary(n.size)
spaceneeded(n) == 16 + get_next_16_boundary(n.len + 1) + get_next_16_boundary(n.size)

\* alignnode: the padding before a node, so that it (or what follows extraspace) is aligned.
Padding(n, off, extraspace) ==
  LET a == findalign(n)
      d == (off + extraspace) % a
  IN  IF d = 0 THEN 0 ELSE a - d

alignnode(n, off, extraspace) ==
  LET p == Padding(n, off, extraspace)
  IN  [n EXCEPT !.offset = @ + p, !.pad = p]

\* The offset after a node.
After(n) == n.offset + spaceneeded(n)

----------------------------------------------------------------------------
(* The first pass.                                                         *)

Init ==
  /\ host \in Host /\ options \in Options
  /\ pc = "main"
  /\ nodes = <<>> /\ stack = <<>> /\ curroffset = 0
  /\ todo = <<>> /\ atoffs = 0 /\ file = 0 /\ image = {}
  /\ ignored = {}

\* main: an alignment is a power of two and at least 16.  The volume's name has 12 characters.
main ==
  /\ pc = "main"
  /\ IF options.align \in Alignments
       THEN /\ nodes' = <<[newnode("rom", 12, 0) EXCEPT !.parent = 1, !.owner = 1]>>
            /\ curroffset' = spaceneeded(nodes'[1])
            /\ pc' = "dots"
       ELSE /\ pc' = "exit"
            /\ UNCHANGED <<nodes, curroffset>>
  /\ UNCHANGED <<host, options, stack, ignored, dump>>

\* processdir at level 1: "." owns the list of the root, and ".." is a link to it.
\* Nothing in the tree leads to the directory above it, so ".." has no inode here.
\* Where "." can be examined, so can "..", and the directory can be opened.
AddDots ==
  /\ pc = "dots"
  /\ LET st   == host.stat[host.root]
         dot  == alignnode(setnode(newnode(".", 1, curroffset), host.root, st), curroffset, 0)
         dot2 == alignnode(setnode(newnode("..", 2, After(dot)), Nil, st), After(dot), 0)
         ns   == [append(nodes, 1, dot) EXCEPT ![1].owner = 2]
     IN  /\ nodes' = append(ns, 1, [dot2 EXCEPT !.orig_link = 2])
         /\ curroffset' = After(dot2)
  /\ stack' = <<[dir |-> 1, list |-> host.list[host.root]]>>
  /\ pc' = "scan"
  /\ UNCHANGED <<host, options, ignored, dump>>

\* There is no such directory: lstat fails, and then opendir.
NoSource ==
  /\ pc = "dots"
  /\ pc' = "dumpall"
  /\ UNCHANGED <<host, options, scan, dump>>

Dir == Head(stack).dir
Entry == Head(Head(stack).list)
Dots == {".", ".."}
NextEntry == <<[Head(stack) EXCEPT !.list = Tail(@)]>> \o Tail(stack)

HasEntry == pc = "scan" /\ stack # <<>> /\ Head(stack).list # <<>>

SkipDots ==
  /\ HasEntry
  /\ Len(stack) = 1 /\ Entry.name \in Dots
  /\ stack' = NextEntry
  /\ UNCHANGED <<host, options, pc, nodes, curroffset, ignored, dump>>

(***************************************************************************)
(* The name, inode and status of an entry once the special names are       *)
(* handled: @name that is a symbolic link is followed, @name,type,major,   *)
(* minor that is an empty file is a device; "" if there is nothing to add. *)
(***************************************************************************)
Special(e) ==
  LET st   == host.stat[e.ino]
      none == [name |-> "", len |-> 0, ino |-> Nil, st |-> st]
      type == CASE e.dev \in {"c", "u"} -> "chr" [] e.dev = "b" -> "blk" [] e.dev = "p" -> "fifo"
                [] OTHER -> "none"
  IN  CASE e.at /\ st.kind = "lnk"
             -> IF st.to = Nil THEN none
                ELSE [name |-> e.plain.name, len |-> e.plain.len, ino |-> st.to, st |-> host.stat[st.to]]
        [] e.at /\ st.kind = "reg" /\ st.size = 0 /\ e.dev # ""
             -> IF type = "none" THEN none
                ELSE [name |-> e.plain.name, len |-> e.plain.len, ino |-> e.ino,
                      st |-> [st EXCEPT !.kind = type]]
        [] OTHER -> [name |-> e.name, len |-> e.len, ino |-> e.ino, st |-> st]

(***************************************************************************)
(* An entry is left out: it is excluded, it is gone when lstat looks, its  *)
(* special name leads nowhere, or it cannot be read (a symbolic link need  *)
(* not be).  A directory that is being read has its "." and "..".          *)
(***************************************************************************)
Ignore ==
  /\ HasEntry
  /\ ~(Len(stack) = 1 /\ Entry.name \in Dots)
  /\ Entry.name \notin Dots \/ Entry.name \in options.exclude
  /\ stack' = NextEntry
  /\ ignored' = ignored \cup {<<Dir, Entry.name>>}
  /\ UNCHANGED <<host, options, pc, nodes, curroffset, dump>>

Kept ==
  /\ HasEntry
  /\ ~(Len(stack) = 1 /\ Entry.name \in Dots)
  /\ Entry.name \notin options.exclude
  /\ Special(Entry).name # ""

\* What an entry is a link to: its directory, the parent of that, or a node with its inode.
LinkOf(e) ==
  CASE e.name = "."  -> nodes[Dir].owner
    [] e.name = ".." -> nodes[nodes[Dir].owner].parent
    [] OTHER         -> findnode(e.ino)

ThisNode == setnode(newnode(Special(Entry).name, Special(Entry).len, curroffset),
                    Special(Entry).ino, Special(Entry).st)

AddLink ==
  /\ Kept
  /\ LinkOf(Special(Entry)) # Nil
  /\ LET n == [alignnode(ThisNode, curroffset, 0) EXCEPT !.orig_link = LinkOf(Special(Entry))]
     IN  nodes' = append(nodes, Dir, n) /\ curroffset' = After(n)
  /\ stack' = NextEntry
  /\ UNCHANGED <<host, options, pc, ignored, dump>>

\* A regular file has its contents aligned, anything else its header; sizes count for files and links.
Placed(st) ==
  LET n == alignnode(ThisNode, curroffset, IF st.kind = "reg" THEN spaceneeded(ThisNode) ELSE 0)
  IN  [n EXCEPT !.size = IF st.kind \in {"reg", "lnk"} THEN st.size ELSE 0]

\* A node of its own; processdir goes into a directory, if opendir can open it.
AddNode ==
  /\ Kept
  /\ LinkOf(Special(Entry)) = Nil
  /\ LET n == Placed(Special(Entry).st)
     IN  /\ nodes' = append(nodes, Dir, n)
         /\ curroffset' = After(n)
         /\ \/ /\ n.kind # "dir"
               /\ stack' = NextEntry
            \/ /\ n.kind = "dir"
               /\ \E list \in {host.list[n.ino], <<>>} :
                    stack' = <<[dir |-> Len(nodes'), list |-> list]>> \o NextEntry
  /\ UNCHANGED <<host, options, pc, ignored, dump>>

EndDir ==
  /\ pc = "scan" /\ stack # <<>> /\ Head(stack).list = <<>>
  /\ stack' = Tail(stack)
  /\ pc' = IF stack' = <<>> THEN "dumpall" ELSE "scan"
  /\ UNCHANGED <<host, options, nodes, curroffset, ignored, dump>>

----------------------------------------------------------------------------
(* The second pass.                                                        *)

\* dumpdata: the first 512 bytes are kept for the checksum of the volume.
dumpdata(len) ==
  /\ atoffs' = atoffs + len
  /\ file' = IF atoffs + len >= 512 THEN atoffs + len ELSE 0

\* dumpri: the header and the name.
dumpri(n) == 16 + get_next_16_boundary(n.len + 1)

\* dumpall writes the header of the volume; curroffset is lastoff.
dumpall ==
  /\ pc = "dumpall"
  /\ dumpdata(dumpri(nodes[1]))
  /\ image' = {[at |-> 0, next |-> 0, type |-> "vol", exec |-> FALSE, spec |-> 0,
                size |-> curroffset, node |-> 1]}
  /\ todo' = nodes[1].kids
  /\ pc' = "dumpnode"
  /\ UNCHANGED <<host, options, scan>>

\* The next node of the same directory.
NextOf(k) ==
  LET s == {j \in DOMAIN nodes : \E d \in DOMAIN nodes : \E i \in 1..(Len(nodes[d].kids) - 1) :
                                   nodes[d].kids[i] = k /\ nodes[d].kids[i + 1] = j}
  IN  IF s = {} THEN Nil ELSE Min(s)

FirstKid(k) == IF nodes[k].kids = <<>> THEN k ELSE nodes[k].kids[1]

\* Variant: links keep the attribute of their file, and a directory refers to itself.
Header_NoExec(k, at) ==
  LET n == nodes[k]
  IN  [at |-> at, size |-> n.size, node |-> k,
       next |-> IF NextOf(k) = Nil THEN 0 ELSE nodes[NextOf(k)].offset,
       type |-> IF n.orig_link # Nil THEN "hrd" ELSE n.kind,
       exec |-> n.exec /\ n.kind \in {"dir", "reg"},
       spec |-> CASE n.orig_link # Nil -> nodes[n.orig_link].offset
                  [] n.kind = "dir"    -> n.offset
                  [] OTHER             -> 0]

Header(k, at) ==
  LET n == nodes[k]
  IN  [at |-> at, size |-> n.size, node |-> k,
       next |-> IF NextOf(k) = Nil THEN 0 ELSE nodes[NextOf(k)].offset,
       type |-> IF n.orig_link # Nil THEN "hrd" ELSE n.kind,
       exec |-> n.orig_link = Nil /\ n.exec /\ n.kind \in {"dir", "reg"},
       spec |-> CASE n.orig_link # Nil -> nodes[n.orig_link].offset
                  [] n.kind = "dir"    -> nodes[FirstKid(k)].offset
                  [] OTHER             -> 0]

(***************************************************************************)
(* What follows the header: nothing for a link; for a file what can be     *)
(* read of it, which may be less than it had when it was placed, or        *)
(* nothing, and zeros up to the size it had, rounded up.                   *)
(***************************************************************************)
\* Variant: a file that shrank is not filled up.
Contents_NoFill(n, got) ==
  CASE n.orig_link # Nil -> 0
    [] n.kind = "lnk"    -> get_next_16_boundary(n.size)
    [] n.kind = "reg"    -> get_next_16_boundary(got)
    [] OTHER             -> 0

Contents(n, got) ==
  CASE n.orig_link # Nil -> 0
    [] n.kind = "lnk"    -> get_next_16_boundary(n.size)
    [] n.kind = "reg"    -> got + (get_next_16_boundary(n.size) - got)
    [] OTHER             -> 0

\* dumpnode writes a node and then those of its directory.
dumpnode ==
  /\ pc = "dumpnode" /\ todo # <<>>
  /\ LET n == nodes[Head(todo)]
     IN  /\ \E got \in {0, n.size} :
              dumpdata(n.pad + dumpri(n) + Contents(n, got))
         /\ image' = image \cup {Header(Head(todo), atoffs + n.pad)}
         /\ todo' = n.kids \o Tail(todo)
  /\ UNCHANGED <<host, options, pc, scan>>

\* The end of dumpall: the whole is a multiple of 1024.
PadImage ==
  /\ pc = "dumpnode" /\ todo = <<>>
  /\ dumpdata((1024 - (curroffset % 1024)) % 1024)
  /\ pc' = "done"
  /\ UNCHANGED <<host, options, scan, todo, image>>

Next ==
  \/ main \/ AddDots \/ NoSource
  \/ SkipDots \/ Ignore \/ AddLink \/ AddNode \/ EndDir
  \/ dumpall \/ dumpnode \/ PadImage

Spec == Init /\ [][Next]_vars

----------------------------------------------------------------------------
(* Properties.                                                             *)

(***************************************************************************)
(* The two passes agree, whatever is read of the files in the second: each *)
(* header is written at the offset that the first pass gave its node and   *)
(* that the other headers refer to; the size in the header of the volume   *)
(* is where the last node ends, and the file is that, rounded up to 1024.  *)
(***************************************************************************)
PassesAgree ==
  /\ \A h \in image : h.at = nodes[h.node].offset
  /\ pc = "dumpnode" /\ todo # <<>> => atoffs + nodes[Head(todo)].pad = nodes[Head(todo)].offset
  /\ pc = "dumpnode" /\ todo = <<>> => atoffs = curroffset
  /\ pc = "done" => file = atoffs /\ file \in curroffset..(curroffset + 1023) /\ file % 1024 = 0

\* The headers that a reader of the image finds from an offset on.
HeaderAt(off) == CHOOSE h \in image : h.at = off
ChainFrom(off) ==
  LET next[k \in 1..Cardinality(image)] ==
        IF k = 1 THEN off
        ELSE IF next[k - 1] = 0 THEN 0 ELSE HeaderAt(next[k - 1]).next
      used == {k \in 1..Cardinality(image) : next[k] # 0}
  IN  [k \in 1..Cardinality(used) |-> HeaderAt(next[k])]

NameOf(h) == nodes[h.node].name

\* What a directory of the host holds, by the names it gets in the image.
Listed(dir, ino) ==
  LET all  == IF dir = 1 THEN <<".", "..">> ELSE <<>>
      list == SelectSeq(host.list[ino],
                LAMBDA e : <<dir, e.name>> \notin ignored /\ (dir # 1 \/ e.name \notin Dots))
  IN  all \o [k \in DOMAIN list |-> Special(list[k]).name]

\* Each inode has its contents in the image once, however many names and links lead to it.
ContentsOnce ==
  \A j, k \in 2..Len(nodes) :
    nodes[j].orig_link = Nil /\ nodes[k].orig_link = Nil /\ nodes[j].ino = nodes[k].ino => j = k

(***************************************************************************)
(* A reader finds in each directory of the image the entries of the host's *)
(* directory that were not left out, in order; "." leads to the directory  *)
(* that it is in and ".." to the one above it, for the root to the root;   *)
(* every other hard link leads to a node of the same inode that has the    *)
(* contents, and carries no attribute of its own.  A directory that could  *)
(* not be opened, or with everything excluded, has itself as first entry.  *)
(* And each inode has its contents in the image once.                      *)
(***************************************************************************)
TreeReadBack ==
  pc = "done" =>
    /\ ContentsOnce
    /\ \A h \in image :
         h.type = "dir" /\ (h.node = 2 \/ nodes[h.node].kids # <<>>) =>
           LET list == ChainFrom(h.spec)
               dir  == IF h.node = 2 THEN 1 ELSE h.node
           IN  [k \in DOMAIN list |-> NameOf(list[k])] = Listed(dir, nodes[h.node].ino)
    /\ \A h \in image : h.type = "hrd" =>
         LET to == HeaderAt(h.spec)
         IN  /\ ~h.exec
             /\ to.type \notin {"hrd", "vol"}
             /\ CASE NameOf(h) = "."  -> h \in Range(ChainFrom(to.spec))
                  [] NameOf(h) = ".." ->
                       \E d \in Range(ChainFrom(to.spec)) :
                         d.type = "dir" /\ h \in Range(ChainFrom(d.spec))
                  [] OTHER -> nodes[to.node].ino = nodes[h.node].ino

\* The contents of a file, and the header of anything else, are aligned as the options say.
Aligned ==
  \A k \in 2..Len(nodes) :
    LET n == nodes[k]
    IN  (n.offset + IF n.kind = "reg" /\ n.orig_link = Nil THEN dumpri(n) ELSE 0) % findalign(n) = 0

(***************************************************************************)
(* The nodes are aligned as the options say; and made as the makefile      *)
(* makes it, with no option, an image without subdirectories is laid out   *)
(* as the kernel's romfs takes it to be.                                   *)
(***************************************************************************)
LaidOutForKernel ==
  /\ Aligned
  /\ LET kids == nodes[1].kids
     IN  /\ pc = "done" /\ Len(kids) > 0
         /\ options.align = 16 /\ options.alignlist = {}
         /\ \A k \in 3..Len(nodes) : nodes[k].kind # "dir" \/ nodes[k].orig_link # Nil
         => PlacedBy([len   |-> nodes[1].len,
                      files |-> [k \in DOMAIN kids |-> nodes[kids[k]]],
                      at    |-> [k \in DOMAIN kids |-> nodes[kids[k]].offset] \o <<curroffset>>])

=============================================================================
