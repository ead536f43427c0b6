---------------------------- MODULE MCSequential ----------------------------
(***************************************************************************)
(* The constants of Sequential, part by part.                              *)
(***************************************************************************)
EXTENDS Sequential, SequencesExt

----------------------------------------------------------------------------
(* The boot sector: LOADER.BIN at the ends of the sectors of the root      *)
(* directory, in the first and the last cluster, or missing, after files,  *)
(* deleted files and a label with its name.                                *)

Entry(k, c) == [kind |-> k, cluster |-> c]

Filled(n, k) == [j \in 0..(n - 1) |-> Entry(k, IF k = "file" THEN 3 ELSE 0)]
With(n, k, c) == [j \in 0..n |-> IF j = n THEN Entry("loader", c) ELSE Filled(n, k)[j]]

MCFloppy ==
  {With(n, k, c) : n \in {0, 1, 15, 16, 17, 223}, k \in {"file", "deleted"}, c \in {2, 5, 2848}}
  \cup {Filled(n, k) : n \in {1, 16, 224}, k \in {"file", "deleted"}}
  \cup {With(1, "label", 7), Filled(1, "label")}

MCJunkSize == {0, 256, 512, 7168, 65535}

----------------------------------------------------------------------------
(* The loader, with the numbers of a 1.44 MB floppy: the disk mkfs makes,  *)
(* one with a single FAT and 112 entries, and one whose root directory     *)
(* does not fill its last sector.  The entry of cluster 341 crosses two    *)
(* sectors of the FAT; 2848 is the last cluster of the first.              *)

DiskFormat(fats, entries) ==
  [boot_occupy_sector |-> 1, fat_count |-> fats, fat_occupy_sector |-> 9,
   root_entry_count |-> entries]

MCChain == UNION {{c \in [1..n -> {2, 340, 341, 2848}] : \A j, k \in 1..n : c[j] = c[k] => j = k}
                    : n \in 1..3}

MCDiskFormat == {DiskFormat(2, 224), DiskFormat(1, 112), DiskFormat(2, 100)}

Sizes(c) == {512 * Len(c) - 511, 512 * Len(c)}

\* Every chain, behind 16 labels; every format, with the kernel anywhere in the
\* directory; and no kernel, in a directory that is empty or full.
MCDisk ==
  UNION {[bpb : {DiskFormat(2, 224)}, chain : {c}, size : Sizes(c), present : {TRUE},
          before : {16}, kind : {"label"}] : c \in MCChain}
    \cup
  UNION {[bpb : {b}, chain : {c}, size : {512 * Len(c)}, present : {TRUE},
          before : {0, 1, 15, 40, b.root_entry_count - 1}, kind : {"deleted", "label", "file"}]
           : b \in MCDiskFormat, c \in {<<341, 2848>>}}
    \cup
  UNION {[bpb : {b}, chain : {<<340>>}, size : {512}, present : {FALSE},
          before : {0, b.root_entry_count}, kind : {"label", "file"}] : b \in MCDiskFormat}

----------------------------------------------------------------------------
(* The copying of the kernel: two segments anywhere in a memory a little   *)
(* larger than the file, so that they overlap the headers, each other and  *)
(* themselves in every way.                                                *)

Phdr == [p_type : {"PT_LOAD", "PT_NOTE"}, p_offset : {3, 4, 5},
         p_vaddr : {0, 1, 3, 4, 5, 6, 7, 8, 10}, p_filesz : {0, 1, 2, 3}]

Fits(ph) == /\ ph.p_offset + ph.p_filesz <= 7
            /\ ph.p_vaddr + ph.p_filesz <= 12
            /\ ph.p_type = "PT_NOTE" => ph.p_offset = 3 /\ ph.p_filesz = 1

MCImage ==
  [e_entry : {0}, e_phoff : {1}, phdr : {<<x, y>> : x, y \in {ph \in Phdr : Fits(ph)}}]

----------------------------------------------------------------------------
(* genromfs: directories with hard links within and across directories,    *)
(* links to follow that lead up, out and nowhere, devices, and names and   *)
(* sizes at the boundaries of 16 bytes.                                    *)

Item(n, len, ino) == [name |-> n, len |-> len, ino |-> ino, at |-> FALSE, dev |-> "", plain |-> <<>>]
AtItem(n, len, ino, dev) ==
  [name |-> "@" \o n, len |-> len, ino |-> ino, at |-> TRUE, dev |-> dev,
   plain |-> [name |-> n, len |-> IF dev = "" THEN len - 1 ELSE len - 7]]

NoInode == 0
Stat(k, size, x) == [kind |-> k, size |-> size, exec |-> x, to |-> NoInode]
SymLink(to) == [kind |-> "lnk", size |-> 5, exec |-> TRUE, to |-> to]
Directory == Stat("dir", 4096, TRUE)

\* A flat directory, the last two files with one inode.
Flat ==
  [root |-> 1,
   stat |-> <<Directory, Stat("reg", 17, FALSE), Stat("reg", 0, TRUE), SymLink(2)>>,
   list |-> <<<<Item(".", 1, 1), Item("a", 16, 2), Item("..", 2, 1), Item("s", 1, 4), Item("e", 1, 3),
                Item("echo", 4, 2)>>>>]

\* Two levels; a file of the second is a link to one of the first, a link to follow leads to the root.
Deep ==
  [root |-> 1,
   stat |-> <<Directory, Directory, Directory, Stat("reg", 480, TRUE), SymLink(1), Stat("reg", 33, FALSE)>>,
   list |-> <<<<Item("a", 1, 4), Item("d", 15, 2), Item("echo", 4, 6)>>,
              <<Item("b", 1, 4), Item("..", 2, 1), Item("f", 1, 3), Item(".", 1, 2)>>,
              <<Item("..", 2, 2), AtItem("up", 3, 5, ""), Item(".", 1, 3), Item("c", 1, 6)>>>>]

\* Links to follow that lead out of the tree and nowhere, devices, and a name that is no device.
Odd ==
  [root |-> 1,
   stat |-> <<Directory, SymLink(3), Directory, SymLink(NoInode), Stat("reg", 0, FALSE),
              Stat("reg", 1, FALSE), Stat("sock", 0, TRUE), Stat("reg", 0, FALSE)>>,
   list |-> [d \in {1, 3} |->
              IF d = 1 THEN <<AtItem("out", 4, 2, ""), AtItem("lost", 5, 4, ""), AtItem("tty", 10, 5, "c"),
                              AtItem("x", 8, 8, "z"), AtItem("q", 8, 6, "b")>>
              ELSE <<Item(".", 1, 3), Item("..", 2, 1), Item("a", 1, 6), Item("k", 1, 7)>>]]

MCHost == {Flat, Deep, Odd}

Opt(a, l, x) == [align |-> a, alignlist |-> l, exclude |-> x]
MCOptions ==
  {Opt(16, {}, {}), Opt(64, {}, {"a"}), Opt(24, {}, {}), Opt(16, {}, {".", ".."}),
   Opt(32, {[align |-> 128, pattern |-> {"d", "echo"}], [align |-> 64, pattern |-> {"echo", "."}]}, {"@up"})}

----------------------------------------------------------------------------
(* Files: file systems with "." first, as genromfs writes them, with names *)
(* and sizes at the boundaries of 16 bytes, and memories of 28 MB and more.*)

File(n, len, size, flags) == [name |-> n, len |-> len, size |-> size, flags |-> flags]

Contents ==
  {<<File(".", 1, 0, 9), File("..", 2, 0, 0)>> \o f
     : f \in {<<>>, <<File("echo", 4, 1, 10)>>, <<File("echo", 4, 16, 10), File("a", 1, 1, 2)>>}
        \cup {<<File("a", l, s, 2), File("echo", 4, 33, 10)>> : l \in {1, 15, 16}, s \in {0, 16, 17}}}

Volumes == {<<"rom", n>> : n \in {12, 15, 16}} \cup {<<"echo", 4>>}

At(len, files) ==
  LET Place[k \in 1..(Len(files) + 1)] ==
        IF k = 1 THEN 16 + get_next_16_boundary(len + 1)
        ELSE Place[k - 1] + 16 + get_next_16_boundary(files[k - 1].len + 1)
                               + get_next_16_boundary(files[k - 1].size)
  IN  [k \in 1..(Len(files) + 1) |-> Place[k]]

MCRom == {[volume |-> v[1], len |-> v[2], files |-> f, at |-> At(v[2], f)]
            : v \in Volumes, f \in Contents}

MCRam == {28 * MB, 32 * MB, 64 * MB}
\* Nothing, one page, and so much that 64 MB do with it and less do not.
MCLowWord == {0, 1, 36 * MB}

----------------------------------------------------------------------------
(* Formatted output: formats of up to three items with every function,     *)
(* strings with a '%' in them and around the size of the buffer, and       *)
(* numbers at the edges of their digits.                                   *)

Lit(c) == [conv |-> FALSE, ch |-> c]
Conv(c) == [conv |-> TRUE, ch |-> c]

Plain == {<<Lit(97)>>, <<Lit(97), Lit(37)>>, << >>}
Args == (100 :> 10) @@ (120 :> 255) @@ (115 :> <<37, 100>>) @@ (99 :> 98) @@ (117 :> 7)

\* A letter, %d, %x, %s, %c, and %u, which nobody knows.
Mixed == {<<x, y, z>> : x, y, z \in {Lit(97)} \cup {Conv(c) : c \in DOMAIN Args}}

ArgsOf(items) ==
  LET convs == SelectSeq(items, LAMBDA it : it.conv)
  IN  [k \in DOMAIN convs |-> Args[convs[k].ch]]

Long(n) == [k \in 1..n |-> 98]

Made(f, items, as) == [fn |-> f, items |-> items, args |-> as, task |-> FALSE]

Formats ==
  {Made(f, items, ArgsOf(items)) : f \in {"sprintf", "vsprintf", "printf", "panic"}, items \in Plain \cup Mixed}
  \cup {Made(f, <<Conv(115)>>, <<Long(n)>>) : f \in {"sprintf", "printf", "panic"}, n \in 8..11}

\* assertion_failure: "%c asert(%s) failed ... ln%d", by a process or a task; 3 is MAG_CH_ASSERT.
Asserts ==
  {[fn |-> "assertion_failure", items |-> <<Conv(99), Conv(115), Conv(100)>>,
    args |-> <<3, <<37, 120>>, 5>>, task |-> t] : t \in BOOLEAN}

Number == {0, 1, 9, 10, 15, 16, 100, 255, 256, 1000, 4096, 65535, 65536, 123456, 99999999,
           268435456, 1000000000, 2147483647}
Ints == {Made("s32_print_int", << >>, <<n, r>>) : n \in Number, r \in {10, 16}}
Dumps == {Made("p_dump_u8", << >>, <<b, 255 - b>>) : b \in {0, 9, 10, 16, 153, 160}}
Signed == {Made("s16_print_int", << >>, <<n, 10>>) : n \in {0, 5, 123, -5, -12, -123}}

MCCall == Formats \cup Asserts \cup Ints \cup Dumps \cup Signed
=============================================================================
