----------------------------- MODULE BootProofs -----------------------------
(***************************************************************************)
(* Proofs about the parts of Sequential that bring the kernel and its      *)
(* files into memory, for every value of the constants and every initial   *)
(* state: what the boot sector jumps to, what the loader loads, where      *)
(* copy_elf_code puts it, and that both passes of genromfs agree on an     *)
(* image that the kernel can use.                                          *)
(***************************************************************************)
EXTENDS Sequential, WellFoundedInduction, FiniteSetTheorems, SequenceTheorems, TLAPS

\* Every set of naturals that is not empty has a least element.
LEMMA LeastExists ==
  ASSUME NEW S0 \in SUBSET Nat, S0 # {}
  PROVE  \E n \in S0 : \A m \in S0 : n =< m
<1> DEFINE R == {ss \in Nat \X Nat : ss[1] < ss[2]}
<1>1. IsWellFoundedOn(R, Nat)
  BY NatLessThanWellFounded, Zenon DEF OpToRel
<1>2. PICK n \in S0 : \A m \in S0 : ~ (<<m, n>> \in R)
  BY <1>1, WFMin, Zenon
<1>3. ASSUME NEW m \in S0 PROVE n =< m
  <2>1. <<m, n>> \in R <=> m < n
    OBVIOUS
  <2>2. ~ (m < n)
    BY <1>2, <2>1
  <2> QED BY <2>2
<1> QED BY <1>3, Zenon

\* A behaviour begins in an initial state of each of these parts.
LEMMA InitOfParts ==
  ASSUME SequentialInit
  PROVE  B!Init /\ L!Init /\ E!Init /\ G!Init
BY DEF SequentialInit

\* A step of the system is a step of a part or leaves it alone.
LEMMA StepOfParts ==
  ASSUME [SequentialNext]_allvars
  PROVE  /\ B!Next \/ UNCHANGED bvars
         /\ L!Next \/ UNCHANGED lvars
         /\ E!Next \/ UNCHANGED evars
         /\ G!Next \/ UNCHANGED gvars
BY DEF SequentialNext, Still, allvars

----------------------------------------------------------------------------
(* The boot sector                                                         *)

\* No volume label has the name of the loader.
NoLabel == B!OfKind("label") = {}

\* Where the first sector of a file of that name is.
LoaderSector(s) == \E n \in B!OfKind("loader") : s = B!DataSector(b_floppy[n].cluster)

\* Without a failed read of the boot sector the search knows the directory's size;
\* what it finds is LOADER.BIN, and what it leaves behind is not.
SearchInv ==
  NoLabel /\ "boot" \notin b_failed =>
    /\ b_buff \in Int
    /\ b_pc # "boot" => b_root_dir_secotrs = 14
    /\ b_pc \in {"boot", "search"} => b_read_sec = 0
    /\ b_read_sec = 0 \/ LoaderSector(b_read_sec)
    /\ b_pc = "jump" => b_read_sec # 0 /\ ("file" \notin b_failed => b_buff = b_read_sec)
    /\ b_pc = "hang" => b_read_sec = 0
    /\ b_failed = {} /\ b_pc \in {"boot", "search"} =>
         \A n \in B!OfKind("loader") : n >= (b_i - 19) * 16
    /\ b_failed = {} /\ b_pc \in {"search_end", "hang"} /\ b_read_sec = 0 =>
         B!OfKind("loader") = {}

BootInv ==
  /\ b_floppy \in Floppy /\ b_DOS_COM \in BOOLEAN
  /\ b_pc \in {"boot", "fault", "search", "search_end", "jump", "hang"}
  /\ b_i \in Nat /\ b_i >= 19
  /\ SearchInv

\* The heads and tracks lead to every sector of the floppy.
LEMMA BootChs ==
  ASSUME NEW s \in 0..2879
  PROVE  B!Lba(B!Chs(s)) = s
BY DEF B!Lba, B!Chs

\* What the BIOS is asked for is a number, whatever it means.
LEMMA BootChsType ==
  ASSUME NEW s \in Int
  PROVE  B!Lba(B!Chs(s)) \in Int
BY DEF B!Lba, B!Chs

\* The clusters of the floppy's files.
Clusters == 0..2848

\* What is known of the floppy.
LEMMA FloppyFacts ==
  ASSUME b_floppy \in Floppy, NEW k \in DOMAIN b_floppy
  PROVE  /\ k \in 0..223
         /\ \A j \in 0..k : j \in DOMAIN b_floppy
         /\ b_floppy[k].kind \in {"loader", "label", "deleted", "file"}
         /\ b_floppy[k].cluster \in Clusters
<1>1. B!FloppyAssumption
  BY InstancesAssumption
<1>2. B!IsFloppy(b_floppy)
  BY <1>1, Zenon DEF B!FloppyAssumption
<1> QED BY <1>2 DEF B!IsFloppy, Clusters

\* An entry that matches is LOADER.BIN, and Found computes its first sector.
LEMMA MatchIsLoader ==
  ASSUME b_floppy \in Floppy, NoLabel, NEW s \in Int, NEW j \in 0..15, B!Matches(B!EntryIn(s, j))
  PROVE  /\ B!EntryIn(s, j).kind = "loader"
         /\ b_root_dir_secotrs = 14 => LoaderSector(B!Found(B!EntryIn(s, j)))
<1> DEFINE k == (s - 19) * 16 + j
<1>1. B!EntryIn(s, j) = IF s \in 19..(19 + 14 - 1)
                           THEN IF k \in DOMAIN b_floppy THEN b_floppy[k] ELSE [kind |-> "end", cluster |-> 0]
                           ELSE [kind |-> "file", cluster |-> 0]
  BY DEF B!EntryIn, B!RootSectors
<1> HIDE DEF k
<1>2. B!EntryIn(s, j) = b_floppy[k] /\ k \in DOMAIN b_floppy
  BY <1>1 DEF B!Matches
<1>3. b_floppy[k].kind = "loader" /\ b_floppy[k].cluster \in Clusters
  <2>1. b_floppy[k].kind \in {"loader", "label"} /\ b_floppy[k].kind # "label"
    BY <1>2 DEF B!Matches, NoLabel, B!OfKind
  <2> QED BY <1>2, <2>1, FloppyFacts, Zenon
<1>4. b_root_dir_secotrs = 14 => B!Found(b_floppy[k]) = B!DataSector(b_floppy[k].cluster)
  <2> DEFINE c == b_floppy[k].cluster
  <2>1. c \in Clusters
    BY <1>3, Zenon
  <2>2. B!Found(b_floppy[k]) = (c - 2 + b_root_dir_secotrs + 19) % 65536
    BY DEF B!Found
  <2>3. B!DataSector(c) = 19 + 14 + c - 2
    BY DEF B!DataSector, B!RootSectors
  <2> HIDE DEF c
  <2>4. b_root_dir_secotrs = 14 => B!Found(b_floppy[k]) = B!DataSector(c)
    BY <2>1, <2>2, <2>3 DEF Clusters
  <2> QED BY <2>4 DEF c
<1> QED BY <1>2, <1>3, <1>4 DEF LoaderSector, B!OfKind

\* The search of one sector: it goes on past what does not match, and stops at
\* LOADER.BIN or, as a DOS program, where the directory ends.
LEMMA SectorSearched ==
  ASSUME b_floppy \in Floppy, NoLabel, b_DOS_COM \in BOOLEAN, b_root_dir_secotrs = 14, NEW s \in Int
  PROVE  LET r == B!SearchResult(s)
         IN  /\ ~ r.end => /\ r.sec = b_read_sec
                           /\ \A j \in 0..15 : ~ B!Matches(B!EntryIn(s, j))
             /\ r.end => \/ LoaderSector(r.sec)
                         \/ /\ r.sec = b_read_sec
                            /\ \E j \in 0..15 : /\ B!EntryIn(s, j).kind = "end"
                                                /\ \A k \in 0..(j - 1) : ~ B!Matches(B!EntryIn(s, k))
<1> DEFINE stop == {j \in 0..15 : B!Stops(B!EntryIn(s, j))}
           least == CHOOSE j \in stop : \A k \in stop : j <= k
           last == IF stop = {} THEN 15 ELSE least
           hits == {j \in 0..last : B!Matches(B!EntryIn(s, j))}
           hit == CHOOSE j \in hits : \A k \in hits : k <= j
           r == B!SearchResult(s)
<1>1. /\ r.end = (stop # {})
      /\ r.sec = IF hits = {} THEN b_read_sec ELSE B!Found(B!EntryIn(s, hit))
  BY DEF B!SearchResult
<1>2. ASSUME NEW j \in 0..15, B!Matches(B!EntryIn(s, j)) PROVE j \in stop
  BY <1>2, MatchIsLoader DEF B!Stops
<1> HIDE DEF r
<1>3. CASE stop = {}
  <2>1. \A j \in 0..15 : ~ B!Matches(B!EntryIn(s, j))
    BY <1>2, <1>3
  <2>2. hits = {}
    BY <1>3, <2>1
  <2>3. ~ r.end /\ r.sec = b_read_sec
    BY <1>1, <1>3, <2>2
  <2> QED BY <2>1, <2>3 DEF r
<1>4. CASE stop # {}
  <2>1. stop \in SUBSET Nat
    OBVIOUS
  <2>2. \E n \in stop : \A m \in stop : n =< m
    BY <1>4, <2>1, LeastExists
  <2>3. least \in stop /\ \A k \in stop : least <= k
    BY <2>2
  <2>4. last = least /\ least \in 0..15
    BY <1>4, <2>3
  <2>5. \A k \in 0..(least - 1) : ~ B!Matches(B!EntryIn(s, k))
    <3> HIDE DEF least
    <3> SUFFICES ASSUME NEW k \in 0..(least - 1), B!Matches(B!EntryIn(s, k)) PROVE FALSE
      OBVIOUS
    <3>1. k \in 0..15 /\ k < least
      BY <2>4
    <3>2. k \in stop
      BY <1>2, <3>1
    <3> QED BY <2>3, <2>4, <3>1, <3>2
  <2> HIDE DEF least, last
  <2>6. CASE B!Matches(B!EntryIn(s, least))
    <3>1. hits = {least}
      BY <2>4, <2>5, <2>6
    <3>2. hit = least
      BY <2>4, <3>1
    <3>3. r.end /\ r.sec = B!Found(B!EntryIn(s, least))
      BY <1>1, <1>4, <3>1, <3>2
    <3> QED BY <2>4, <2>6, <3>3, MatchIsLoader DEF r
  <2>7. CASE ~ B!Matches(B!EntryIn(s, least))
    <3>1. hits = {}
      BY <2>4, <2>5, <2>7
    <3>2. r.end /\ r.sec = b_read_sec
      BY <1>1, <1>4, <3>1
    <3>3. B!EntryIn(s, least).kind = "end"
      BY <2>3, <2>7 DEF B!Stops, B!Matches
    <3> QED BY <2>4, <2>5, <3>2, <3>3 DEF r
  <2> QED BY <2>6, <2>7
<1> QED BY <1>3, <1>4


\* Where the entries of the directory are.
LEMMA EntryHere ==
  ASSUME b_floppy \in Floppy, NEW s \in 19..32, NEW j \in 0..15
  PROVE  B!EntryIn(s, j) = IF (s - 19) * 16 + j \in DOMAIN b_floppy THEN b_floppy[(s - 19) * 16 + j]
                           ELSE [kind |-> "end", cluster |-> 0]
BY DEF B!EntryIn, B!RootSectors

\* The first sector of LOADER.BIN is a sector of the data.
LEMMA LoaderSectorType ==
  ASSUME b_floppy \in Floppy, NEW s, LoaderSector(s)
  PROVE  s \in 31..2879
<1>1. PICK n \in B!OfKind("loader") : s = B!DataSector(b_floppy[n].cluster)
  BY DEF LoaderSector
<1>2. n \in DOMAIN b_floppy
  BY DEF B!OfKind
<1>3. b_floppy[n].cluster \in Clusters
  BY <1>2, FloppyFacts, Zenon
<1> DEFINE c == b_floppy[n].cluster
<1>4. s = B!DataSector(c) /\ c \in Clusters
  BY <1>1, <1>3, Zenon
<1> HIDE DEF c
<1>5. B!DataSector(c) = 19 + 14 + c - 2
  BY DEF B!DataSector, B!RootSectors
<1> QED BY <1>4, <1>5 DEF Clusters

\* An entry of LOADER.BIN lies in a sector of the root directory, and matches.
LEMMA LoaderInSector ==
  ASSUME b_floppy \in Floppy, NEW n \in B!OfKind("loader"), NEW s \in 19..32, n >= (s - 19) * 16,
         \A j \in 0..15 : ~ B!Matches(B!EntryIn(s, j))
  PROVE  n >= (s + 1 - 19) * 16
<1>1. n \in DOMAIN b_floppy /\ b_floppy[n].kind = "loader"
  BY DEF B!OfKind
<1>2. n \in 0..223
  BY <1>1, FloppyFacts
<1> SUFFICES ASSUME n < (s + 1 - 19) * 16 PROVE FALSE
  BY <1>2
<1> DEFINE j == n - (s - 19) * 16
<1>3. j \in 0..15 /\ n = (s - 19) * 16 + j
  BY <1>2
<1> HIDE DEF j
<1>4. B!EntryIn(s, j) = b_floppy[n]
  BY <1>1, <1>3, EntryHere
<1> QED BY <1>1, <1>3, <1>4 DEF B!Matches

\* The directory ends at the first entry that is not there.
LEMMA EndsHere ==
  ASSUME b_floppy \in Floppy, NEW s \in 19..32, NEW j \in 0..15, B!EntryIn(s, j).kind = "end",
         \A k \in 0..(j - 1) : ~ B!Matches(B!EntryIn(s, k)),
         NEW n \in B!OfKind("loader"), n >= (s - 19) * 16
  PROVE  FALSE
<1>1. n \in DOMAIN b_floppy /\ b_floppy[n].kind = "loader"
  BY DEF B!OfKind
<1>2. n \in 0..223 /\ \A m \in 0..n : m \in DOMAIN b_floppy
  BY <1>1, FloppyFacts
<1> DEFINE k == (s - 19) * 16 + j
<1>3. B!EntryIn(s, j) = IF k \in DOMAIN b_floppy THEN b_floppy[k] ELSE [kind |-> "end", cluster |-> 0]
  BY EntryHere
<1>4. k \in Nat
  OBVIOUS
<1>5. k \notin DOMAIN b_floppy
  <2> HIDE DEF k
  <2> QED BY <1>3, FloppyFacts
<1>6. n < k
  BY <1>2, <1>4, <1>5
<1> DEFINE l == n - (s - 19) * 16
<1>7. l \in 0..(j - 1) /\ l \in 0..15 /\ n = (s - 19) * 16 + l
  BY <1>2, <1>6
<1> HIDE DEF l, k
<1>8. B!EntryIn(s, l) = b_floppy[n]
  BY <1>1, <1>7, EntryHere
<1> QED BY <1>1, <1>7, <1>8 DEF B!Matches

\* The boot sector begins with nothing found and nothing searched.
LEMMA BootInit ==
  ASSUME B!Init
  PROVE  BootInv
<1>1. \A n \in B!OfKind("loader") : n >= (19 - 19) * 16
  <2> SUFFICES ASSUME NEW n \in B!OfKind("loader") PROVE n >= 0
    OBVIOUS
  <2>1. n \in DOMAIN b_floppy
    BY DEF B!OfKind
  <2> QED BY <2>1, FloppyFacts DEF B!Init
<1> QED BY <1>1 DEF B!Init, BootInv, SearchInv, B!Nothing, B!root_sec_no


\* One sector of the directory.
LEMMA BootReadRoot ==
  ASSUME BootInv, B!ReadRoot
  PROVE  BootInv'
<1> USE DEF BootInv
<1>1. /\ b_floppy' = b_floppy /\ b_DOS_COM' = b_DOS_COM /\ b_root_dir_secotrs' = b_root_dir_secotrs
      /\ b_pc = "search" /\ b_i' = b_i + 1 /\ b_pc' \in {"search", "search_end"}
      /\ b_i <= b_root_dir_secotrs + 19
      /\ \/ b_buff' = B!Lba(B!Chs(b_i)) /\ b_failed' = b_failed
         \/ b_buff' = b_buff /\ b_failed' = b_failed \cup {"root"}
      /\ b_read_sec' = B!SearchResult(b_buff').sec
      /\ b_pc' = IF B!SearchResult(b_buff').end THEN "search_end" ELSE "search"
  BY DEF B!ReadRoot, B!read_sector, B!InRoot, B!root_sec_no
<1>2. SearchInv'
  <2> SUFFICES ASSUME NoLabel, "boot" \notin b_failed
               PROVE  SearchInv'
    BY <1>1 DEF SearchInv, NoLabel, B!OfKind
  <2>1. b_root_dir_secotrs = 14 /\ b_read_sec = 0 /\ b_buff \in Int
    BY <1>1 DEF SearchInv
  <2>2. b_i \in 19..33
    BY <1>1, <2>1
  <2>3. b_buff' \in Int
    BY <1>1, <2>1, <2>2, BootChsType
  <2> DEFINE r == B!SearchResult(b_buff')
  <2>4. /\ ~ r.end => /\ r.sec = b_read_sec
                      /\ \A j \in 0..15 : ~ B!Matches(B!EntryIn(b_buff', j))
        /\ r.end => \/ LoaderSector(r.sec)
                    \/ /\ r.sec = b_read_sec
                       /\ \E j \in 0..15 : /\ B!EntryIn(b_buff', j).kind = "end"
                                           /\ \A k \in 0..(j - 1) : ~ B!Matches(B!EntryIn(b_buff', k))
    BY <2>1, <2>3, SectorSearched
  <2> HIDE DEF r
  <2>5. b_read_sec' = r.sec /\ b_pc' = IF r.end THEN "search_end" ELSE "search"
    BY <1>1 DEF r
  <2>6. ASSUME NEW s PROVE LoaderSector(s)' <=> LoaderSector(s)
    BY <1>1 DEF LoaderSector, B!OfKind, B!DataSector
  <2>7. b_read_sec' = 0 \/ LoaderSector(b_read_sec)'
    BY <2>1, <2>4, <2>5, <1>1 DEF LoaderSector, B!OfKind, B!DataSector
  <2>8. ASSUME b_failed' = {}
        PROVE  /\ b_failed = {} /\ b_buff' = b_i
               /\ \A n \in B!OfKind("loader") : n >= (b_i - 19) * 16
    <3>1. b_failed = {} /\ b_buff' = B!Lba(B!Chs(b_i))
      BY <1>1, <2>8
    <3> QED BY <3>1, <2>1, <2>2, <1>1, BootChs DEF SearchInv
  <2>9. ASSUME b_failed' = {}, b_pc' = "search"
        PROVE  \A n \in B!OfKind("loader") : n >= (b_i' - 19) * 16
    <3> SUFFICES ASSUME NEW n \in B!OfKind("loader") PROVE n >= (b_i + 1 - 19) * 16
      BY <1>1
    <3>1. n >= (b_i - 19) * 16
      BY <2>8, <2>9
    <3>2. \A j \in 0..15 : ~ B!Matches(B!EntryIn(b_i, j))
      BY <2>4, <2>5, <2>8, <2>9
    <3>3. n \in DOMAIN b_floppy
      BY DEF B!OfKind
    <3>4. n \in 0..223
      BY <3>3, FloppyFacts
    <3>5. b_i \in 19..32
      BY <2>2, <3>1, <3>4
    <3> QED BY <3>1, <3>2, <3>5, LoaderInSector
  <2>10. ASSUME b_failed' = {}, b_pc' = "search_end", b_read_sec' = 0
         PROVE  B!OfKind("loader") = {}
    <3> SUFFICES ASSUME NEW n \in B!OfKind("loader") PROVE FALSE
      OBVIOUS
    <3>1. n >= (b_i - 19) * 16
      BY <2>8, <2>10
    <3>2. n \in DOMAIN b_floppy
      BY DEF B!OfKind
    <3>3. n \in 0..223
      BY <3>2, FloppyFacts
    <3>4. b_i \in 19..32
      BY <2>2, <3>1, <3>3
    <3>5. r.end /\ r.sec = 0
      BY <2>5, <2>10
    <3>6. ~ LoaderSector(r.sec)
      BY <3>5, LoaderSectorType, SMTT(30)
    <3>7. PICK j \in 0..15 : /\ B!EntryIn(b_i, j).kind = "end"
                             /\ \A k \in 0..(j - 1) : ~ B!Matches(B!EntryIn(b_i, k))
      BY <2>4, <2>8, <2>10, <3>5, <3>6
    <3> QED BY <3>1, <3>4, <3>7, EndsHere
  <2>11. b_pc' = "search" => b_read_sec' = 0
    BY <2>1, <2>4, <2>5
  <2>12. B!OfKind("loader")' = B!OfKind("loader")
    BY <1>1 DEF B!OfKind
  <2> QED BY <1>1, <2>1, <2>3, <2>7, <2>9, <2>10, <2>11, <2>12 DEF SearchInv
<1> QED BY <1>1, <1>2

\* The boot sector, the end of the search and the file.
LEMMA BootOthers ==
  ASSUME BootInv, B!ReadBoot \/ B!NotFound \/ B!LoadFile
  PROVE  BootInv'
<1> USE DEF BootInv
<1>1. CASE B!ReadBoot
  <2>1. /\ b_floppy' = b_floppy /\ b_DOS_COM' = b_DOS_COM /\ b_i' = b_i /\ b_read_sec' = b_read_sec
        /\ b_pc = "boot" /\ b_pc' \in {"search", "fault"}
        /\ \/ b_buff' = B!Lba(B!Chs(0)) /\ b_failed' = b_failed
           \/ b_failed' = b_failed \cup {"boot"}
    BY <1>1 DEF B!ReadBoot, B!read_sector
  <2>2. B!Lba(B!Chs(0)) = 0
    BY BootChs
  <2>3. ASSUME b_buff' = 0
        PROVE  b_pc' = "search" /\ b_root_dir_secotrs' = 14
    <3>1. PICK z \in {512} : IF z = 0 THEN b_pc' = "fault" /\ UNCHANGED b_root_dir_secotrs
                             ELSE /\ b_pc' = "search"
                                  /\ b_root_dir_secotrs' = (224 * 32 + z - 1) \div z
      BY <1>1, <2>3 DEF B!ReadBoot, B!root_entry_count
    <3>2. (224 * 32 + 512 - 1) \div 512 = 14
      OBVIOUS
    <3> QED BY <3>1, <3>2
  <2>4. B!OfKind("loader")' = B!OfKind("loader") /\ NoLabel' = NoLabel
    BY <2>1 DEF B!OfKind, NoLabel
  <2> QED BY <2>1, <2>2, <2>3, <2>4 DEF SearchInv
<1>2. CASE B!NotFound
  <2>1. /\ b_pc = "search" /\ b_pc' = "search_end" /\ UNCHANGED <<b_floppy, b_DOS_COM, b_buff,
             b_root_dir_secotrs, b_i, b_read_sec, b_failed>>
        /\ ~ (b_i <= b_root_dir_secotrs + 19)
    BY <1>2 DEF B!NotFound, B!InRoot, B!root_sec_no
  <2>2. ASSUME b_root_dir_secotrs = 14, \A n \in B!OfKind("loader") : n >= (b_i - 19) * 16
        PROVE  B!OfKind("loader") = {}
    <3> SUFFICES ASSUME NEW n \in B!OfKind("loader") PROVE FALSE
      OBVIOUS
    <3>1. n \in DOMAIN b_floppy
      BY DEF B!OfKind
    <3>2. n \in 0..223 /\ n >= (b_i - 19) * 16
      BY <2>2, <3>1, FloppyFacts
    <3> QED BY <2>1, <2>2, <3>2
  <2>3. B!OfKind("loader")' = B!OfKind("loader") /\ NoLabel' = NoLabel
    BY <2>1 DEF B!OfKind, NoLabel
  <2>4. b_read_sec' = 0 \/ ~ LoaderSector(b_read_sec) \/ LoaderSector(b_read_sec)'
    BY <2>1 DEF LoaderSector, B!OfKind, B!DataSector
  <2> QED BY <2>1, <2>2, <2>3, <2>4 DEF SearchInv
<1>3. CASE B!LoadFile
  <2>1. /\ b_pc = "search_end" /\ UNCHANGED <<b_floppy, b_DOS_COM, b_root_dir_secotrs, b_i, b_read_sec>>
        /\ \/ /\ b_read_sec # 0 /\ b_pc' = "jump"
              /\ \/ b_buff' = B!Lba(B!Chs(b_read_sec)) /\ b_failed' = b_failed
                 \/ b_buff' = b_buff /\ b_failed' = b_failed \cup {"file"}
           \/ b_read_sec = 0 /\ b_pc' = "hang" /\ b_buff' = b_buff /\ b_failed' = b_failed
    BY <1>3 DEF B!LoadFile, B!read_sector
  <2>2. ASSUME LoaderSector(b_read_sec) PROVE b_read_sec \in Int /\ B!Lba(B!Chs(b_read_sec)) = b_read_sec
    <3>1. b_read_sec \in 31..2879
      BY <2>2, LoaderSectorType
    <3>2. b_read_sec \in 0..2879
      BY <3>1
    <3> QED BY <3>2, BootChs, SMTT(30)
  <2>3. B!OfKind("loader")' = B!OfKind("loader") /\ NoLabel' = NoLabel
    BY <2>1 DEF B!OfKind, NoLabel
  <2>4. ~ LoaderSector(b_read_sec) \/ LoaderSector(b_read_sec)'
    BY <2>1 DEF LoaderSector, B!OfKind, B!DataSector
  <2> QED BY <2>1, <2>2, <2>3, <2>4 DEF SearchInv
<1> QED BY <1>1, <1>2, <1>3

\* What the boot sector jumps to is the first sector of LOADER.BIN: the run's property,
\* for every floppy, wherever the entry is and whichever reads of the directory fail.
THEOREM LoaderFound == SequentialSpec => []JumpsToLoader
<1>1. SequentialInit => BootInv
  BY InitOfParts, BootInit
<1>2. BootInv /\ [SequentialNext]_allvars => BootInv'
  <2> SUFFICES ASSUME BootInv, [SequentialNext]_allvars PROVE BootInv'
    OBVIOUS
  <2>1. CASE UNCHANGED bvars
    BY <2>1 DEF bvars, BootInv, SearchInv, NoLabel, LoaderSector, B!OfKind, B!DataSector
  <2>2. CASE B!Next
    BY <2>2, BootReadRoot, BootOthers DEF B!Next
  <2> QED BY <2>1, <2>2, StepOfParts
<1>3. BootInv => JumpsToLoader
  <2> SUFFICES ASSUME BootInv, NoLabel
               PROVE  /\ b_pc = "jump" /\ b_failed \cap {"boot", "file"} = {} =>
                           \E n \in B!OfKind("loader") : b_buff = B!DataSector(b_floppy[n].cluster)
                      /\ b_pc = "hang" /\ b_failed = {} => B!OfKind("loader") = {}
    BY DEF JumpsToLoader, B!JumpsToLoader, NoLabel, B!OfKind, B!DataSector
  <2> QED BY DEF BootInv, SearchInv, LoaderSector
<1> QED BY <1>1, <1>2, <1>3, PTL DEF SequentialSpec

----------------------------------------------------------------------------
(* The kernel loader                                                       *)

\* The sector of the root directory with the kernel's entry, and the end of the FAT's reads.
KernelSector == L!RootStart + l_disk.before \div 16

\* The part of the image that is there is right, but for the data that could not be read.
ImageInv ==
  \A k \in 1..Len(l_mem) :
    k \notin l_bad => l_mem[k] = L!RootStart + L!RootSectors + l_disk.chain[k] - 2

\* Where the loader is, on a disk with the kernel and with no read that does harm.
WalkInv ==
  l_disk.present /\ L!Harmless =>
    /\ l_pc \in {"boot", "root", "first", "fat", "data", "done"}
    /\ l_mem \in Seq(Int) /\ l_read_data \in Int
    /\ l_pc # "boot" => l_bpb = l_disk.bpb
    /\ l_pc \in {"boot", "root", "first"} => l_mem = <<>>
    /\ l_pc = "boot" => l_buff = -1
    /\ l_pc = "root" => /\ l_i \in L!RootStart..KernelSector
                        /\ IF l_i = L!RootStart THEN l_buff = 0 ELSE l_buff \in L!RootStart..(l_i - 1)
    /\ l_pc = "first" => l_first = l_disk.chain[1] /\ l_file_size = l_disk.size
    /\ l_pc = "fat" => /\ Len(l_mem) \in 1..Len(l_disk.chain)
                       /\ l_cur = l_disk.chain[Len(l_mem)]
    /\ l_pc = "data" => /\ Len(l_mem) + 1 \in 1..Len(l_disk.chain)
                        /\ l_cur = l_disk.chain[Len(l_mem) + 1]
    /\ l_pc = "done" => Len(l_mem) = Len(l_disk.chain)
    /\ ImageInv

LoaderInv == l_disk \in Disk /\ WalkInv

\* What is known of the disk.
LEMMA DiskFacts ==
  ASSUME l_disk \in Disk
  PROVE  /\ L!IsDisk(l_disk)
         /\ l_disk.bpb.boot_occupy_sector = 1
         /\ l_disk.bpb.fat_occupy_sector \in 1..15
         /\ l_disk.bpb.fat_count \in Nat /\ l_disk.bpb.fat_count > 0
         /\ l_disk.bpb.root_entry_count \in Nat
         /\ l_disk.before \in Nat
         /\ l_disk.present => l_disk.before < l_disk.bpb.root_entry_count
         /\ l_disk.kind \in {"deleted", "label", "file"}
<1>1. L!LoaderAssumption
  BY InstancesAssumption
<1>2. L!IsDisk(l_disk)
  BY <1>1, Zenon DEF L!LoaderAssumption
<1>3. l_disk.bpb \in L!Bpb
  BY <1>2 DEF L!IsDisk
<1> QED BY <1>2, <1>3 DEF L!IsDisk, L!Bpb

\* ... and of the kernel on it.
LEMMA ChainFacts ==
  ASSUME l_disk \in Disk
  PROVE  /\ Len(l_disk.chain) \in Nat /\ Len(l_disk.chain) >= 1
         /\ DOMAIN l_disk.chain = 1..Len(l_disk.chain)
         /\ \A k \in 1..Len(l_disk.chain) :
              /\ l_disk.chain[k] \in L!Cluster
              /\ 3 * (l_disk.chain[k] \div 2) + 2 < 512 * l_disk.bpb.fat_occupy_sector
              /\ \A j \in 1..Len(l_disk.chain) : l_disk.chain[j] = l_disk.chain[k] => j = k
         /\ l_disk.size <= 512 => Len(l_disk.chain) = 1
<1>1. L!IsDisk(l_disk)
  BY DiskFacts
<1>2. l_disk.chain \in Seq(L!Cluster) /\ Len(l_disk.chain) >= 1
  BY <1>1 DEF L!IsDisk
<1>3. /\ Len(l_disk.chain) \in Nat /\ Len(l_disk.chain) >= 1
      /\ DOMAIN l_disk.chain = 1..Len(l_disk.chain)
      /\ \A k \in 1..Len(l_disk.chain) : l_disk.chain[k] \in L!Cluster
  <2> DEFINE c == l_disk.chain
             T == L!Cluster
  <2>1. c \in Seq(T) /\ Len(c) >= 1
    BY <1>2
  <2> HIDE DEF c, T
  <2>2. /\ Len(c) \in Nat /\ Len(c) >= 1 /\ DOMAIN c = 1..Len(c)
        /\ \A k \in 1..Len(c) : c[k] \in T
    BY <2>1
  <2> QED BY <2>2 DEF c, T
<1>4. \A k \in DOMAIN l_disk.chain :
        /\ 3 * (l_disk.chain[k] \div 2) + 2 < 512 * l_disk.bpb.fat_occupy_sector
        /\ \A j \in DOMAIN l_disk.chain : l_disk.chain[j] = l_disk.chain[k] => j = k
  BY <1>1 DEF L!IsDisk
<1>5. l_disk.size > 512 * (Len(l_disk.chain) - 1)
  BY <1>1 DEF L!IsDisk
<1>6. l_disk.size <= 512 => Len(l_disk.chain) = 1
  <2> DEFINE n == Len(l_disk.chain)
             z == l_disk.size
  <2>1. n \in Nat /\ n >= 1 /\ z > 512 * (n - 1)
    BY <1>3, <1>5
  <2>2. z \in Int
    BY <1>1 DEF L!IsDisk
  <2> HIDE DEF n, z
  <2>3. z <= 512 => n = 1
    BY <2>1, <2>2
  <2> QED BY <2>3 DEF n, z
<1>7. \A k \in 1..Len(l_disk.chain) :
        /\ 3 * (l_disk.chain[k] \div 2) + 2 < 512 * l_disk.bpb.fat_occupy_sector
        /\ \A j \in 1..Len(l_disk.chain) : l_disk.chain[j] = l_disk.chain[k] => j = k
  BY <1>3, <1>4
<1>8. ASSUME NEW k \in 1..Len(l_disk.chain)
      PROVE  /\ l_disk.chain[k] \in L!Cluster
             /\ 3 * (l_disk.chain[k] \div 2) + 2 < 512 * l_disk.bpb.fat_occupy_sector
             /\ \A j \in 1..Len(l_disk.chain) : l_disk.chain[j] = l_disk.chain[k] => j = k
  BY <1>3, <1>7
<1> QED BY <1>3, <1>6, <1>8

LEMMA ChainElement ==
  ASSUME l_disk \in Disk
  PROVE  \A k \in 1..Len(l_disk.chain) : l_disk.chain[k] \in L!Cluster
BY ChainFacts, Zenon

\* Where the root directory is: after the boot sector and at least one FAT.
LEMMA RootPlace ==
  ASSUME l_disk \in Disk
  PROVE  /\ L!RootStart \in Nat /\ L!RootStart > l_disk.bpb.fat_occupy_sector
         /\ L!RootSectors \in Nat
         /\ L!root_dir_start_sector(l_disk.bpb) = L!RootStart
         /\ L!root_dir_occupy_sector(l_disk.bpb) = L!RootSectors
         /\ KernelSector \in Nat /\ KernelSector >= L!RootStart
         /\ l_disk.present => KernelSector < L!RootStart + L!RootSectors
<1> DEFINE f == l_disk.bpb.fat_count
           z == l_disk.bpb.fat_occupy_sector
           n == l_disk.bpb.root_entry_count
           b == l_disk.before
<1>1. f \in Nat /\ f > 0 /\ z \in 1..15 /\ n \in Nat /\ b \in Nat /\ (l_disk.present => b < n)
  BY DiskFacts
<1>2. /\ L!RootStart = 1 + f * z
      /\ L!RootSectors = (n * 32 + 511) \div 512
      /\ L!root_dir_start_sector(l_disk.bpb) = f * z + 1
      /\ L!root_dir_occupy_sector(l_disk.bpb)
           = IF (n * 32) % 512 # 0 THEN (n * 32) \div 512 + 1 ELSE (n * 32) \div 512
      /\ KernelSector = L!RootStart + b \div 16
  BY DiskFacts DEF L!RootStart, L!RootSectors, L!root_dir_start_sector, L!root_dir_occupy_sector, KernelSector
<1> HIDE DEF f, z, n, b
<1>3. f * z \in Nat /\ f * z >= z
  <2>1. (f - 1) * z >= 0 /\ (f - 1) * z = f * z - z /\ f * z \in Int
    BY <1>1
  <2> QED BY <1>1, <2>1
<1>4. (n * 32 + 511) \div 512 = IF (n * 32) % 512 # 0 THEN (n * 32) \div 512 + 1 ELSE (n * 32) \div 512
  BY <1>1
<1>5. b \div 16 \in Nat /\ (b < n => b \div 16 < (n * 32 + 511) \div 512)
  BY <1>1
<1>6. L!RootStart \in Nat /\ L!RootStart > z /\ L!RootSectors \in Nat
  BY <1>1, <1>2, <1>3
<1> QED BY <1>1, <1>2, <1>3, <1>4, <1>5, <1>6 DEF z

\* The heads and tracks lead to every sector.
LEMMA LoaderChs ==
  ASSUME NEW l \in Nat
  PROVE  L!Lba(L!Chs(l)) = l
BY DEF L!Lba, L!Chs, L!SPT

LEMMA LoaderFatChs ==
  ASSUME NEW n \in 1..17
  PROVE  L!Lba(L!FatChs(n)) = n - 1
BY DEF L!Lba, L!FatChs, L!SPT

\* The loader begins with an empty image.
LEMMA LoaderInit ==
  ASSUME L!Init
  PROVE  LoaderInv
BY DEF L!Init, LoaderInv, WalkInv, ImageInv, L!Nothing

\* Two clusters share three bytes.
LEMMA OffsetInFat ==
  ASSUME NEW c \in Nat
  PROVE  L!FatOffset(c) = 3 * (c \div 2)
<1>1. CASE c % 2 = 1
  <2>1. (c - 1) \div 2 = c \div 2 /\ c \div 2 \in Nat
    BY <1>1
  <2> QED BY <1>1, <2>1 DEF L!FatOffset
<1>2. CASE c % 2 # 1
  <2>1. c \div 2 \in Nat
    OBVIOUS
  <2> QED BY <1>2, <2>1 DEF L!FatOffset
<1> QED BY <1>1, <1>2

\* The k-th cluster's entry of the FAT: the next cluster, or the end.
LEMMA FatEntryOfChain ==
  ASSUME l_disk \in Disk, NEW k \in 1..Len(l_disk.chain)
  PROVE  L!FatEntry(l_disk.chain[k]) = IF k = Len(l_disk.chain) THEN 4095 ELSE l_disk.chain[k + 1]
<1> DEFINE c == l_disk.chain
           m == CHOOSE m \in DOMAIN c : c[m] = c[k]
<1>1. k \in DOMAIN c /\ \A j \in DOMAIN c : c[j] = c[k] => j = k
  BY ChainFacts
<1>2. m = k
  BY <1>1
<1>3. L!FatEntry(c[k]) = IF \E j \in DOMAIN c : c[j] = c[k]
                           THEN IF m = Len(c) THEN 4095 ELSE c[m + 1]
                           ELSE CASE c[k] = 0 -> 4080 [] c[k] = 1 -> 4095 [] OTHER -> 0
  BY DEF L!FatEntry, L!EOF
<1> QED BY <1>1, <1>2, <1>3

\* Entries of the FAT have 12 bits.
Bits12 == 0..4095

LEMMA FatEntryType ==
  ASSUME l_disk \in Disk, NEW c \in Nat
  PROVE  L!FatEntry(c) \in Bits12
<1>1. CASE \E k \in DOMAIN l_disk.chain : l_disk.chain[k] = c
  <2>1. PICK k \in DOMAIN l_disk.chain : l_disk.chain[k] = c
    BY <1>1
  <2>2. k \in 1..Len(l_disk.chain) /\ Len(l_disk.chain) \in Nat
    BY ChainFacts
  <2>3. k # Len(l_disk.chain) => k + 1 \in 1..Len(l_disk.chain)
    BY <2>2
  <2>4. 4095 \in Bits12
    BY DEF Bits12
  <2>5. ASSUME NEW x \in L!Cluster PROVE x \in Bits12
    BY DEF L!Cluster, Bits12
  <2>6. k # Len(l_disk.chain) => l_disk.chain[k + 1] \in L!Cluster
    BY <2>3, ChainElement, Zenon
  <2>7. L!FatEntry(c) = IF k = Len(l_disk.chain) THEN 4095 ELSE l_disk.chain[k + 1]
    BY <2>1, <2>2, FatEntryOfChain
  <2> QED BY <2>4, <2>6, <2>7, <2>5
<1>2. CASE ~ \E k \in DOMAIN l_disk.chain : l_disk.chain[k] = c
  <2>1. L!FatEntry(c) = CASE c = 0 -> 4080 [] c = 1 -> 4095 [] OTHER -> 0
    BY <1>2 DEF L!FatEntry, L!EOF
  <2> QED BY <2>1 DEF Bits12
<1> QED BY <1>1, <1>2

\* Two entries in three bytes, taken apart again.
LEMMA TwoInThree ==
  ASSUME NEW x \in Bits12, NEW y \in Bits12
  PROVE  /\ (x \div 256 + 16 * (y % 16)) \div 16 + (y \div 16) * 16 = y
         /\ ((x \div 256 + 16 * (y % 16)) % 16) * 256 + (x % 256) = x
<1> DEFINE h == x \div 256
           w == y % 16
<1>1. h \in 0..15 /\ w \in 0..15
  <2>1. x \in 0..4095 /\ y \in 0..4095
    BY DEF Bits12
  <2>2. x \div 256 \in 0..15
    BY <2>1
  <2>3. y % 16 \in 0..15
    BY <2>1
  <2> QED BY <2>2, <2>3
<1>2. x = h * 256 + (x % 256) /\ (x % 256) \in Int
  BY DEF Bits12
<1>3. y = (y \div 16) * 16 + w /\ y \div 16 \in Int
  BY DEF Bits12
<1> HIDE DEF h, w
<1>4. (h + 16 * w) \div 16 = w /\ (h + 16 * w) % 16 = h
  BY <1>1
<1>5. w + (y \div 16) * 16 = y
  BY <1>1, <1>3
<1> QED BY <1>2, <1>4, <1>5 DEF h, w

\* The bytes of an entry that is read whole give it back, be its cluster even or odd
\* and wherever its bytes lie in the sectors held.
LEMMA DecodeEntry ==
  ASSUME l_disk \in Disk, NEW c \in L!Cluster, 3 * (c \div 2) + 2 < 512 * l_disk.bpb.fat_occupy_sector
  PROVE  L!Decode(c, (3 * (c \div 2)) \div 512 + 1) = L!FatEntry(c)
<1> DEFINE o == 3 * (c \div 2)
           q == o \div 512
           z == l_disk.bpb.fat_occupy_sector
           ev == L!FatEntry(2 * (c \div 2))
           od == L!FatEntry(2 * (c \div 2) + 1)
           p == o % 512
           Bt(n) == L!Byte(q + 1, p + n)
<1> c \in Nat /\ c \in 2..4079
  BY DEF L!Cluster
<1>1. o \in Nat
  OBVIOUS
<1>2. q \in Nat /\ p \in 0..511 /\ o = q * 512 + p /\ q + 1 # -1
  <2> HIDE DEF o
  <2> QED BY <1>1
<1>3. L!FatOffset(c) = o
  BY OffsetInFat
<1>4. z \in 1..15
  BY DiskFacts
<1>5. ASSUME NEW n \in 0..2
      PROVE  Bt(n) = L!FatByte(o + n)
  <2>1. ((q + 1) - 1) * 512 + (p + n) = o + n
    <3> HIDE DEF o, q, p
    <3> QED BY <1>1, <1>2
  <2>2. o + n \in 0..(z * 512 - 1)
    <3>1. o + 2 < 512 * z
      OBVIOUS
    <3> HIDE DEF o, z
    <3> QED BY <3>1, <1>1, <1>4
  <2> DEFINE x == o + n
             w == z * 512
  <2>3. x % w = x
    <3>1. x \in 0..(w - 1) /\ w \in Nat
      <4> HIDE DEF o, z
      <4> QED BY <1>4, <2>2
    <3> HIDE DEF x, w
    <3> QED BY <3>1
  <2>4. Bt(n) = L!FatByte((((q + 1) - 1) * 512 + (p + n)) % (z * 512))
    BY <1>2 DEF L!Byte, L!Nothing
  <2> QED BY <2>1, <2>3, <2>4
<1>6. ev \in Bits12 /\ od \in Bits12
  <2>1. 2 * (c \div 2) \in Nat /\ 2 * (c \div 2) + 1 \in Nat
    OBVIOUS
  <2> QED BY <2>1, FatEntryType
<1>7. /\ L!FatByte(o) = ev % 256
      /\ L!FatByte(o + 1) = ev \div 256 + 16 * (od % 16)
      /\ L!FatByte(o + 2) = od \div 16
  <2>1. /\ o % 3 = 0 /\ o \div 3 = c \div 2
        /\ (o + 1) % 3 = 1 /\ (o + 1) \div 3 = c \div 2
        /\ (o + 2) % 3 = 2 /\ (o + 2) \div 3 = c \div 2
    OBVIOUS
  <2> HIDE DEF o
  <2> QED BY <2>1 DEF L!FatByte
<1>8. L!Decode(c, q + 1) = IF c % 2 = 1 THEN Bt(1) \div 16 + Bt(2) * 16 ELSE (Bt(1) % 16) * 256 + Bt(0)
  BY <1>3 DEF L!Decode
<1>9. Bt(0) = L!FatByte(o + 0) /\ Bt(1) = L!FatByte(o + 1) /\ Bt(2) = L!FatByte(o + 2) /\ o + 0 = o
  BY <1>5, <1>2
<1>10. CASE c % 2 = 1
  <2>1. c = 2 * (c \div 2) + 1
    BY <1>10
  <2>2. od = L!FatEntry(c)
    BY <2>1
  <2> HIDE DEF ev, od, Bt, q, o
  <2>3. (ev \div 256 + 16 * (od % 16)) \div 16 + (od \div 16) * 16 = od
    BY <1>6, TwoInThree
  <2>4. L!Decode(c, q + 1) = od
    BY <1>7, <1>8, <1>9, <1>10, <2>3
  <2> QED BY <2>2, <2>4 DEF q, o
<1>11. CASE c % 2 = 0
  <2>1. c = 2 * (c \div 2)
    BY <1>11
  <2>2. ev = L!FatEntry(c)
    BY <2>1
  <2> HIDE DEF ev, od, Bt, q, o
  <2>3. ev \in Int
    BY <1>6 DEF Bits12
  <2>4. ((ev \div 256 + 16 * (od % 16)) % 16) * 256 + (ev % 256) = ev
    BY <1>6, TwoInThree
  <2>5. L!Decode(c, q + 1) = ev
    BY <1>7, <1>8, <1>9, <1>11, <2>4
  <2> QED BY <2>2, <2>5 DEF q, o
<1> QED BY <1>10, <1>11

\* The entries before the kernel's.
LEMMA EntryBefore ==
  ASSUME l_disk \in Disk, NEW k \in Int, k < l_disk.before
  PROVE  L!RootEntry(k).kind = l_disk.kind
<1> DEFINE e == [kind |-> l_disk.kind, cluster |-> 0, size |-> IF l_disk.kind = "file" THEN 513 ELSE 0]
<1>1. L!RootEntry(k) = e
  BY DiskFacts DEF L!RootEntry
<1> QED BY <1>1

\* The sectors before the kernel's hold nothing that stops the search.
LEMMA ScanBefore ==
  ASSUME l_disk \in Disk, l_disk.present, NEW l \in L!RootStart..(KernelSector - 1)
  PROVE  \A e \in L!Scan(l) : e.kind \in {"deleted", "label", "file"}
<1> DEFINE base == 16 * (l - L!RootStart)
           Stops == {j \in 0..15 : L!RootEntry(base + j).kind \notin L!Passed}
           b == l_disk.before
           r == L!RootStart
<1>1. r \in Nat /\ L!RootSectors \in Nat /\ KernelSector \in Nat /\ b \in Nat
      /\ KernelSector = r + b \div 16 /\ KernelSector < r + L!RootSectors
  BY RootPlace, DiskFacts DEF KernelSector
<1>2. L!InRoot(l)
  BY <1>1 DEF L!InRoot
<1>3. ASSUME NEW j \in 0..15
      PROVE  base + j < b
  <2> DEFINE t == l - r
  <2>1. t \in Nat /\ t < b \div 16
    BY <1>1
  <2>2. base + j = 16 * t + j
    OBVIOUS
  <2> HIDE DEF t, b, base
  <2> QED BY <1>1, <2>1, <2>2
<1>4. ASSUME NEW j \in 0..15
      PROVE  L!RootEntry(base + j).kind = l_disk.kind
  <2>1. base + j < b /\ base + j \in Int
    BY <1>1, <1>3
  <2> QED BY <2>1, EntryBefore
<1>5. l_disk.kind \in {"deleted", "label", "file"}
  BY DiskFacts
<1>6. Stops = {}
  BY <1>4, <1>5 DEF L!Passed
<1>7. L!RootScan(l) = L!RootEntry(base + 15)
  BY <1>6 DEF L!RootScan
<1>8. L!Scan(l) = {L!RootScan(l)}
  BY <1>2 DEF L!Scan
<1> QED BY <1>4, <1>5, <1>7, <1>8

\* The kernel's sector stops it at the kernel's entry.
LEMMA ScanKernel ==
  ASSUME l_disk \in Disk, l_disk.present
  PROVE  L!Scan(KernelSector) = {[kind |-> "kernel", cluster |-> l_disk.chain[1], size |-> l_disk.size]}
<1> DEFINE l == KernelSector
           base == 16 * (l - L!RootStart)
           Stops == {j \in 0..15 : L!RootEntry(base + j).kind \notin L!Passed}
           b == l_disk.before
           r == L!RootStart
           s == b % 16
           least == CHOOSE j \in Stops : \A k \in Stops : j <= k
<1>1. r \in Nat /\ L!RootSectors \in Nat /\ KernelSector \in Nat /\ b \in Nat
      /\ KernelSector = r + b \div 16 /\ KernelSector < r + L!RootSectors /\ KernelSector >= r
  BY RootPlace, DiskFacts DEF KernelSector
<1>2. L!InRoot(l)
  BY <1>1 DEF L!InRoot
<1>3. base \in Nat /\ base + s = b /\ s \in 0..15
  <2>1. base = 16 * (b \div 16)
    BY <1>1
  <2> HIDE DEF base
  <2> QED BY <1>1, <2>1
<1> HIDE DEF base, s
<1>4. L!RootEntry(base + s) = [kind |-> "kernel", cluster |-> l_disk.chain[1], size |-> l_disk.size]
  BY <1>1, <1>3 DEF L!RootEntry
<1>5. s \in Stops
  BY <1>3, <1>4 DEF L!Passed
<1>6. ASSUME NEW j \in Stops PROVE s <= j
  <2> SUFFICES ASSUME j < s PROVE FALSE
    BY <1>3
  <2>1. base + j < b /\ base + j \in Int
    BY <1>3
  <2>2. L!RootEntry(base + j).kind = l_disk.kind
    BY <2>1, EntryBefore
  <2> QED BY <2>2, DiskFacts DEF L!Passed
<1>7. least = s
  <2>1. least \in Stops /\ \A k \in Stops : least <= k
    BY <1>5, <1>6
  <2>2. least <= s /\ s <= least /\ least \in 0..15
    BY <1>5, <1>6, <2>1
  <2> QED BY <1>3, <2>2
<1>8. L!RootScan(l) = L!RootEntry(base + s)
  BY <1>5, <1>7 DEF L!RootScan, base
<1>9. L!Scan(l) = {L!RootScan(l)}
  BY <1>2 DEF L!Scan
<1> QED BY <1>4, <1>8, <1>9

\* The disk stays, and what is derived from it; harm that is done stays done.
LEMMA DiskStays ==
  ASSUME l_disk' = l_disk
  PROVE  /\ L!RootStart' = L!RootStart /\ L!RootSectors' = L!RootSectors /\ KernelSector' = KernelSector
         /\ l_stale \subseteq l_stale' => (L!Harmless' => L!Harmless)
BY DEF L!RootStart, L!RootSectors, KernelSector, L!Harmless

\* The boot sector and the FAT may not fail without harm.
LEMMA HarmlessReads ==
  ASSUME l_disk \in Disk, L!Harmless, NEW l \in Int,
         l <= L!RootStart \/ l = KernelSector
  PROVE  l \notin l_stale
BY RootPlace DEF L!Harmless, KernelSector

\* One more sector of the image.
LEMMA OneMoreSector ==
  ASSUME l_disk \in Disk, l_bpb = l_disk.bpb, l_mem \in Seq(Int), l_read_data \in Int, ImageInv,
         Len(l_mem) + 1 \in 1..Len(l_disk.chain), L!ReadData(l_disk.chain[Len(l_mem) + 1]),
         l_disk' = l_disk
  PROVE  /\ l_mem' \in Seq(Int) /\ l_read_data' \in Int /\ ImageInv' /\ Len(l_mem') = Len(l_mem) + 1
<1> DEFINE n == Len(l_mem) + 1
           c == l_disk.chain[n]
           r == L!RootStart + L!RootSectors + c - 2
<1>1. c \in L!Cluster
  BY ChainElement
<1>2. r \in Nat /\ L!r_sec(c) = r
  <2>1. L!r_sec(c) = c - 2 + L!RootSectors + L!RootStart
    BY RootPlace DEF L!r_sec
  <2>2. L!RootStart \in Nat /\ L!RootSectors \in Nat
    BY RootPlace
  <2> HIDE DEF c
  <2> QED BY <1>1, <2>1, <2>2 DEF L!Cluster
<1>3. L!Lba(L!Chs(r)) = r
  BY <1>2, LoaderChs
<1>4. PICK ok \in BOOLEAN : /\ l_read_data' = IF ok THEN r ELSE l_read_data
                            /\ l_mem' = Append(l_mem, l_read_data')
                            /\ l_bad' = IF ok THEN l_bad ELSE l_bad \cup {Len(l_mem')}
  BY <1>2, <1>3 DEF L!ReadData, L!Held
<1> HIDE DEF r
<1>5. l_read_data' \in Int
  BY <1>2, <1>4
<1>6. l_mem' \in Seq(Int) /\ Len(l_mem') = n /\ n \in Nat
  BY <1>4, <1>5
<1>7. /\ \A k \in 1..Len(l_mem) : l_mem'[k] = l_mem[k]
      /\ l_mem'[n] = l_read_data'
  BY <1>4, <1>5
<1>8. ASSUME NEW k \in 1..n, k \notin l_bad'
      PROVE  l_mem'[k] = L!RootStart + L!RootSectors + l_disk.chain[k] - 2
  <2>1. CASE k = n
    <3>1. ok
      BY <1>4, <1>6, <1>8, <2>1
    <3>2. l_mem'[k] = r
      BY <1>4, <1>7, <2>1, <3>1
    <3> QED BY <2>1, <3>2 DEF r
  <2>2. CASE k # n
    <3>1. k \in 1..Len(l_mem)
      BY <1>6, <2>2
    <3>2. k \notin l_bad
      BY <1>4, <1>8
    <3> QED BY <1>7, <3>1, <3>2 DEF ImageInv
  <2> QED BY <2>1, <2>2
<1>9. ImageInv'
  BY <1>6, <1>8, DiskStays DEF ImageInv
<1> QED BY <1>5, <1>6, <1>9

\* The boot sector is read, or harm is done.
LEMMA LoaderReadBoot ==
  ASSUME LoaderInv, L!ReadBoot
  PROVE  LoaderInv'
<1>1. /\ l_disk' = l_disk /\ l_mem' = l_mem /\ l_read_data' = l_read_data /\ l_bad' = l_bad /\ l_pc = "boot"
      /\ l_i' = L!root_dir_start_sector(l_bpb')
  BY DEF L!ReadBoot
<1>2. PICK ok \in BOOLEAN : /\ l_buff' = IF ok THEN L!Lba(L!Chs(0)) ELSE l_buff
                            /\ l_stale' = IF ok THEN l_stale ELSE l_stale \cup {0}
                            /\ ok => l_bpb' = l_disk.bpb /\ l_pc' = "root"
  BY DEF L!ReadBoot, L!Held
<1>3. l_disk \in Disk /\ l_disk' \in Disk
  BY <1>1 DEF LoaderInv
<1>4. L!RootStart \in Nat /\ KernelSector \in Nat /\ KernelSector >= L!RootStart
  BY <1>3, RootPlace
<1> SUFFICES ASSUME l_disk.present, L!Harmless'
             PROVE  WalkInv'
  BY <1>1, <1>3 DEF LoaderInv, WalkInv
<1>5. ok
  <2>1. 0 \notin l_stale'
    <3>1. L!RootStart' = L!RootStart
      BY <1>1, DiskStays
    <3> QED BY <1>4, <3>1 DEF L!Harmless
  <2> QED BY <1>2, <2>1
<1>6. L!Harmless
  BY <1>1, <1>2, <1>5, DiskStays
<1>7. l_mem = <<>> /\ l_mem \in Seq(Int) /\ l_read_data \in Int
  BY <1>1, <1>6 DEF LoaderInv, WalkInv
<1>8. l_buff' = 0
  BY <1>2, <1>5, LoaderChs
<1>9. l_i' = L!RootStart /\ l_bpb' = l_disk'.bpb
  BY <1>1, <1>2, <1>3, <1>5, RootPlace
<1>10. ImageInv'
  BY <1>1, <1>7 DEF ImageInv
<1> QED BY <1>1, <1>2, <1>4, <1>5, <1>7, <1>8, <1>9, <1>10, DiskStays DEF WalkInv

\* One sector of the root directory.
LEMMA LoaderReadRoot ==
  ASSUME LoaderInv, L!ReadRoot
  PROVE  LoaderInv'
<1>1. /\ l_disk' = l_disk /\ l_mem' = l_mem /\ l_read_data' = l_read_data /\ l_bad' = l_bad /\ l_pc = "root"
      /\ l_i' = l_i + 1 /\ l_bpb' = l_bpb
  BY DEF L!ReadRoot
<1>2. PICK ok \in BOOLEAN : /\ l_buff' = IF ok THEN L!Lba(L!Chs(l_i)) ELSE l_buff
                            /\ l_stale' = IF l_buff' = l_i THEN l_stale ELSE l_stale \cup {l_i}
  BY DEF L!ReadRoot, L!Held
<1>3. PICK e \in L!Scan(l_buff') :
        /\ l_file_size' = e.size
        /\ l_first' = IF e.kind = "kernel" THEN e.cluster ELSE l_first
        /\ l_pc' = IF \/ e.kind \in {"kernel", "end"}
                      \/ l_i = L!root_dir_occupy_sector(l_bpb) + L!root_dir_start_sector(l_bpb)
                     THEN "first" ELSE "root"
  BY DEF L!ReadRoot
<1>4. l_disk \in Disk /\ l_disk' \in Disk
  BY <1>1 DEF LoaderInv
<1>5. /\ L!RootStart \in Nat /\ KernelSector \in Nat /\ KernelSector >= L!RootStart
      /\ L!RootSectors \in Nat
  BY <1>4, RootPlace
<1> SUFFICES ASSUME l_disk.present, L!Harmless'
             PROVE  WalkInv'
  BY <1>1, <1>4 DEF LoaderInv, WalkInv
<1>6. L!Harmless
  BY <1>1, <1>2, DiskStays
<1>7. /\ l_mem = <<>> /\ l_mem \in Seq(Int) /\ l_read_data \in Int /\ l_bpb = l_disk.bpb
      /\ l_i \in L!RootStart..KernelSector
      /\ IF l_i = L!RootStart THEN l_buff = 0 ELSE l_buff \in L!RootStart..(l_i - 1)
  BY <1>1, <1>6 DEF LoaderInv, WalkInv
<1>8. l_buff' \in L!RootStart..l_i /\ (l_i = KernelSector => l_buff' = l_i)
  <2>1. CASE ok
    <3>1. l_i \in Nat
      BY <1>5, <1>7
    <3>2. l_buff' = l_i
      BY <1>2, <2>1, <3>1, LoaderChs
    <3> QED BY <1>5, <1>7, <3>2
  <2>2. CASE ~ ok
    <3>1. l_buff' = l_buff
      BY <1>2, <2>2
    <3>2. l_buff' # l_i
      BY <1>4, <1>5, <1>7, <3>1, RootPlace, DiskFacts, SMTT(30)
    <3>3. l_i \in l_stale'
      BY <1>2, <3>2
    <3>4. l_i # L!RootStart /\ l_i # KernelSector
      <4>1. L!RootStart' = L!RootStart /\ KernelSector' = KernelSector
        BY <1>1, DiskStays
      <4>2. l_stale' \subseteq {l \in L!RootStart' + 1 .. L!RootStart' + L!RootSectors' - 1 : l # KernelSector'}
        BY DEF L!Harmless, KernelSector
      <4> QED BY <1>5, <3>3, <4>1, <4>2
    <3> QED BY <1>5, <1>7, <3>1, <3>4
  <2> QED BY <2>1, <2>2
<1>9. L!root_dir_occupy_sector(l_bpb) + L!root_dir_start_sector(l_bpb) > l_i
  BY <1>4, <1>5, <1>7, RootPlace
<1>10. ImageInv'
  BY <1>1, <1>7 DEF ImageInv
<1>11. CASE l_buff' = KernelSector
  <2>1. e = [kind |-> "kernel", cluster |-> l_disk.chain[1], size |-> l_disk.size]
    BY <1>3, <1>4, <1>11, ScanKernel
  <2>2. l_pc' = "first" /\ l_first' = l_disk.chain[1] /\ l_file_size' = l_disk.size
    BY <1>3, <2>1
  <2> QED BY <1>1, <1>7, <1>10, <2>2 DEF WalkInv
<1>12. CASE l_buff' # KernelSector
  <2>1. l_buff' \in L!RootStart..(KernelSector - 1) /\ l_i < KernelSector
    BY <1>5, <1>7, <1>8, <1>12
  <2>2. e.kind \in {"deleted", "label", "file"}
    BY <1>3, <1>4, <2>1, ScanBefore
  <2>3. l_pc' = "root"
    BY <1>3, <1>5, <1>7, <1>9, <2>2
  <2>4. /\ l_i' \in L!RootStart..KernelSector /\ l_i' # L!RootStart
        /\ l_buff' \in L!RootStart..(l_i' - 1)
    BY <1>1, <1>5, <1>7, <1>8, <2>1
  <2>5. L!RootStart' = L!RootStart /\ KernelSector' = KernelSector
    BY <1>1, DiskStays
  <2> QED BY <1>1, <1>7, <1>10, <2>3, <2>4, <2>5 DEF WalkInv
<1> QED BY <1>11, <1>12

\* The data: the first cluster, and each one after it.
LEMMA LoaderReadData ==
  ASSUME LoaderInv, L!LoadFirst \/ L!LoadNext
  PROVE  LoaderInv'
<1>1. /\ l_disk' = l_disk /\ l_bpb' = l_bpb /\ l_stale' = l_stale
      /\ \/ /\ l_pc = "first" /\ L!ReadData(l_first) /\ l_cur' = l_first % 65536
            /\ l_pc' = IF l_file_size > 512 THEN "fat" ELSE "done"
         \/ l_pc = "data" /\ L!ReadData(l_cur) /\ l_cur' = l_cur /\ l_pc' = "fat"
  BY DEF L!LoadFirst, L!LoadNext
<1>2. l_disk \in Disk /\ l_disk' \in Disk
  BY <1>1 DEF LoaderInv
<1> SUFFICES ASSUME l_disk.present, L!Harmless'
             PROVE  WalkInv'
  BY <1>1, <1>2 DEF LoaderInv, WalkInv
<1>3. L!Harmless
  BY <1>1, DiskStays
<1> DEFINE n == Len(l_mem)
<1>4. l_bpb = l_disk.bpb /\ l_mem \in Seq(Int) /\ l_read_data \in Int /\ ImageInv
  BY <1>1, <1>3 DEF LoaderInv, WalkInv
<1>5. /\ n + 1 \in 1..Len(l_disk.chain)
      /\ l_pc = "first" => n = 0 /\ l_first = l_disk.chain[1] /\ l_file_size = l_disk.size
      /\ l_pc = "data" => l_cur = l_disk.chain[n + 1]
  <2>1. CASE l_pc = "first"
    <3>1. n = 0 /\ l_first = l_disk.chain[1] /\ l_file_size = l_disk.size
      BY <1>3, <2>1 DEF LoaderInv, WalkInv
    <3>2. n + 1 \in 1..Len(l_disk.chain)
      BY <1>2, <3>1, ChainFacts
    <3> QED BY <2>1, <3>1, <3>2
  <2>2. CASE l_pc = "data"
    BY <1>3, <2>2 DEF LoaderInv, WalkInv
  <2> QED BY <1>1, <2>1, <2>2
<1> DEFINE c == l_disk.chain[n + 1]
<1>6. c \in L!Cluster
  BY <1>2, <1>5, ChainElement
<1>7. L!ReadData(c)
  BY <1>1, <1>5
<1>8. /\ l_mem' \in Seq(Int) /\ l_read_data' \in Int /\ ImageInv' /\ Len(l_mem') = n + 1
  BY <1>1, <1>2, <1>4, <1>5, <1>7, OneMoreSector
<1>9. l_cur' = c
  <2>1. CASE l_pc = "data"
    BY <1>1, <1>5, <2>1
  <2>2. CASE l_pc = "first"
    <3>1. l_cur' = c % 65536
      BY <1>1, <1>5, <2>2
    <3> HIDE DEF c
    <3>2. c \in 2..4079
      BY <1>6 DEF L!Cluster
    <3> QED BY <3>1, <3>2
  <2> QED BY <1>1, <2>1, <2>2
<1>10. l_pc' \in {"fat", "done"} /\ (l_pc' = "done" => Len(l_disk.chain) = 1 /\ n = 0)
  <2>1. CASE l_pc = "data"
    BY <1>1, <2>1
  <2>2. CASE l_pc = "first"
    <3>1. l_disk.size \in Nat
      BY <1>2, DiskFacts DEF L!IsDisk
    <3>2. l_pc' = IF l_disk.size > 512 THEN "fat" ELSE "done"
      BY <1>1, <1>5, <2>2
    <3> QED BY <1>2, <1>5, <2>2, <3>1, <3>2, ChainFacts
  <2> QED BY <1>1, <2>1, <2>2
<1> HIDE DEF c, n
<1>11. l_cur' = l_disk'.chain[Len(l_mem')] /\ Len(l_mem') \in 1..Len(l_disk'.chain)
       /\ (l_pc' = "done" => Len(l_mem') = Len(l_disk'.chain))
  <2>1. n \in Nat /\ Len(l_mem') \in 1..Len(l_disk.chain)
    BY <1>4, <1>5, <1>8 DEF n
  <2>2. l_cur' = l_disk.chain[Len(l_mem')]
    BY <1>8, <1>9 DEF c
  <2>3. l_pc' = "done" => Len(l_mem') = Len(l_disk.chain)
    BY <1>8, <1>10
  <2> QED BY <1>1, <2>1, <2>2, <2>3
<1> QED BY <1>1, <1>4, <1>8, <1>10, <1>11 DEF WalkInv

\* The FAT is read, or harm is done; it leads to the next cluster, or to the end.
LEMMA LoaderFollowFat ==
  ASSUME LoaderInv, L!FollowFat
  PROVE  LoaderInv'
<1> DEFINE chs == L!FatChs(L!read_fat_sector_no(l_cur))
<1>1. /\ l_disk' = l_disk /\ l_bpb' = l_bpb /\ l_mem' = l_mem /\ l_read_data' = l_read_data /\ l_bad' = l_bad
      /\ l_pc = "fat" /\ l_cur' \in L!NextCluster(l_cur, l_fat_buffer')
      /\ l_pc' = IF l_cur' = 4095 THEN "done" ELSE "data"
      /\ l_stale' = IF l_fat_buffer' = L!Lba(chs) THEN l_stale ELSE l_stale \cup {L!Lba(chs)}
  BY DEF L!FollowFat, L!AtEnd, L!EOF
<1> HIDE DEF chs
<1>2. l_disk \in Disk /\ l_disk' \in Disk
  BY <1>1 DEF LoaderInv
<1> SUFFICES ASSUME l_disk.present, L!Harmless'
             PROVE  WalkInv'
  BY <1>1, <1>2 DEF LoaderInv, WalkInv
<1>3. L!Harmless
  BY <1>1, DiskStays
<1> DEFINE n == Len(l_mem)
           z == l_disk.bpb.fat_occupy_sector
           o == 3 * (l_cur \div 2)
           q == o \div 512
<1>4. /\ l_bpb = l_disk.bpb /\ l_mem \in Seq(Int) /\ l_read_data \in Int /\ ImageInv
      /\ n \in 1..Len(l_disk.chain) /\ l_cur = l_disk.chain[n]
  BY <1>1, <1>3 DEF LoaderInv, WalkInv
<1>5. l_cur \in L!Cluster /\ o + 2 < 512 * z
  BY <1>2, <1>4, ChainFacts
<1>6. /\ z \in 1..15 /\ L!RootStart \in Nat /\ L!RootStart > z
      /\ L!RootStart' = L!RootStart
  BY <1>1, <1>2, DiskFacts, RootPlace, DiskStays
<1>7. l_cur \in 2..4079
  BY <1>5 DEF L!Cluster
<1>8. L!FatOffset(l_cur) = o
  BY <1>7, OffsetInFat
<1> HIDE DEF z
<1>9. o \in Nat /\ o <= 6117
  <2> DEFINE h == l_cur \div 2
  <2>1. h \in 0..2039 /\ o = 3 * h
    BY <1>7
  <2> HIDE DEF h, o
  <2> QED BY <2>1
<1> HIDE DEF o
<1>10. q \in 0..11 /\ q + 1 <= z /\ q + (((o % 512) + 2) \div 512) + 1 <= z
       /\ ((o % 512) + 2) \div 512 \in Nat
  BY <1>5, <1>6, <1>9
<1> HIDE DEF q
<1>11. L!Lba(chs) = q + 1
  <2>1. L!read_fat_sector_no(l_cur) = q + 2
    BY <1>8 DEF L!read_fat_sector_no, q
  <2> DEFINE m == q + 2
  <2>2. m \in 1..17 /\ m - 1 = q + 1
    BY <1>10
  <2> HIDE DEF m
  <2>3. L!Lba(L!FatChs(m)) = m - 1
    BY <2>2, LoaderFatChs
  <2> QED BY <2>1, <2>2, <2>3 DEF chs, m
<1>12. l_fat_buffer' = q + 1
  <2>1. q + 1 \notin l_stale'
    BY <1>6, <1>10 DEF L!Harmless
  <2> QED BY <1>1, <1>11, <2>1
<1>13. L!NextCluster(l_cur, q + 1) = {L!Decode(l_cur, q + 1)}
  <2>1. L!InFat(q + 1) /\ L!InFat(q + 1 + (((o % 512) + 2) \div 512))
    BY <1>6, <1>10 DEF L!InFat
  <2> QED BY <1>8, <2>1 DEF L!NextCluster
<1>14. L!Decode(l_cur, q + 1) = L!FatEntry(l_cur)
  BY <1>2, <1>5, DecodeEntry DEF o, q, z
<1>15. l_cur' = IF n = Len(l_disk.chain) THEN 4095 ELSE l_disk.chain[n + 1]
  BY <1>1, <1>2, <1>4, <1>12, <1>13, <1>14, FatEntryOfChain
<1>16. Len(l_disk.chain) \in Nat
  BY <1>2, ChainFacts
<1>17. ImageInv'
  BY <1>1, <1>4 DEF ImageInv, L!RootStart, L!RootSectors
<1>18. CASE n = Len(l_disk.chain)
  <2>1. l_pc' = "done"
    BY <1>1, <1>15, <1>18
  <2> QED BY <1>1, <1>4, <1>17, <1>18, <2>1 DEF WalkInv
<1>19. CASE n # Len(l_disk.chain)
  <2>1. n + 1 \in 1..Len(l_disk.chain)
    BY <1>4, <1>16, <1>19
  <2>2. l_disk.chain[n + 1] \in L!Cluster
    BY <1>2, <2>1, ChainElement, Zenon
  <2>3. ASSUME NEW x \in L!Cluster PROVE x # 4095
    BY DEF L!Cluster
  <2>4. l_cur' = l_disk.chain[n + 1] /\ l_cur' # 4095
    BY <1>15, <1>19, <2>2, <2>3
  <2>5. l_pc' = "data"
    BY <1>1, <2>4
  <2> QED BY <1>1, <1>4, <1>17, <2>1, <2>4, <2>5 DEF WalkInv
<1> QED BY <1>18, <1>19

(***************************************************************************)
(* Once the loader is done the image is the kernel, for every geometry of  *)
(* the disk and every chain of clusters, wherever the kernel's entry is.   *)
(***************************************************************************)
THEOREM KernelIsLoaded == SequentialSpec => []KernelLoaded
<1>1. SequentialInit => LoaderInv
  BY InitOfParts, LoaderInit
<1>2. LoaderInv /\ [SequentialNext]_allvars => LoaderInv'
  <2> SUFFICES ASSUME LoaderInv, [SequentialNext]_allvars PROVE LoaderInv'
    OBVIOUS
  <2>1. CASE UNCHANGED lvars
    BY <2>1 DEF lvars, LoaderInv, WalkInv, ImageInv, KernelSector, L!RootStart, L!RootSectors, L!Harmless
  <2>2. CASE L!Next
    BY <2>2, LoaderReadBoot, LoaderReadRoot, LoaderReadData, LoaderFollowFat DEF L!Next
  <2> QED BY <2>1, <2>2, StepOfParts
<1>3. LoaderInv => KernelLoaded
  BY DEF LoaderInv, WalkInv, ImageInv, KernelLoaded, L!KernelLoaded
<1> QED BY <1>1, <1>2, <1>3, PTL DEF SequentialSpec

----------------------------------------------------------------------------
(* The copying of the kernel                                               *)

\* What s32_memcpy copies when no byte is overwritten before its turn comes.
Moved(m, dest, src, n) ==
  [a \in DOMAIN m |-> IF a \in dest..(dest + n - 1) THEN m[src + (a - dest)] ELSE m[a]]

\* s32_memcpy, byte by byte, moves the bytes as long as it does not overtake itself.
LEMMA CopyMoves ==
  ASSUME NEW m, NEW dom, DOMAIN m = dom, m = [a \in dom |-> m[a]],
         NEW dest \in Nat, NEW src \in Nat, NEW n \in Nat,
         \A a \in dest..(dest + n - 1) : a \in dom,
         \A k \in 0..(n - 1) : src + k \in dom /\ src + k \notin dest..(dest + k - 1)
  PROVE  E!s32_memcpy(m, dest, src, n) = Moved(m, dest, src, n)
<1> DEFINE IsCopy(f) == f = [k \in 0..n |-> IF k = 0 THEN m
                                            ELSE [f[k - 1] EXCEPT ![dest + k - 1] = f[k - 1][src + k - 1]]]
           copied == CHOOSE f : IsCopy(f)
           g == [k \in 0..n |-> Moved(m, dest, src, k)]
<1>1. E!s32_memcpy(m, dest, src, n) = copied[n]
  BY DEF E!s32_memcpy
<1>2. g[0] = m
  <2>1. Moved(m, dest, src, 0) = [a \in dom |-> m[a]]
    BY DEF Moved
  <2> QED BY <2>1
<1>3. ASSUME NEW k \in 1..n
      PROVE  Moved(m, dest, src, k)
               = [Moved(m, dest, src, k - 1) EXCEPT ![dest + k - 1] = Moved(m, dest, src, k - 1)[src + k - 1]]
  <2> DEFINE h == Moved(m, dest, src, k - 1)
             e == [h EXCEPT ![dest + k - 1] = h[src + k - 1]]
             d == dest + k - 1
             s == src + k - 1
  <2>1. d \in dom /\ d \in Nat /\ s \in Nat /\ d \in dest..(dest + n - 1)
    OBVIOUS
  <2>2. DOMAIN h = dom /\ DOMAIN e = dom /\ DOMAIN Moved(m, dest, src, k) = dom
    BY DEF Moved
  <2>3. s \in dom /\ s \notin dest..(dest + (k - 1) - 1)
    <3>1. k - 1 \in 0..(n - 1) /\ src + (k - 1) = s
      OBVIOUS
    <3> QED BY <3>1
  <2>4. ASSUME NEW a \in dom
        PROVE  Moved(m, dest, src, k)[a] = e[a]
    <3>1. CASE a = d
      <4>1. Moved(m, dest, src, k)[a] = m[s]
        <5>1. d \in dest..(dest + k - 1) /\ src + (d - dest) = s
          OBVIOUS
        <5> QED BY <2>1, <3>1, <5>1 DEF Moved
      <4>2. e[a] = h[s]
        BY <2>1, <2>2, <3>1
      <4>3. s \in dom => h[s] = m[s]
        BY <2>3 DEF Moved
      <4> QED BY <4>1, <4>2, <4>3
    <3>2. CASE a # d
      <4>1. e[a] = h[a]
        BY <2>1, <2>2, <3>2
      <4>2. a \in dest..(dest + k - 1) <=> a \in dest..(dest + (k - 1) - 1)
        BY <3>2
      <4> QED BY <4>1, <4>2 DEF Moved
    <3> QED BY <3>1, <3>2
  <2> QED BY <2>2, <2>4 DEF Moved
<1>4. IsCopy(g)
  <2>1. ASSUME NEW k \in 0..n
        PROVE  g[k] = IF k = 0 THEN m ELSE [g[k - 1] EXCEPT ![dest + k - 1] = g[k - 1][src + k - 1]]
    <3>1. CASE k = 0
      BY <1>2, <3>1
    <3>2. CASE k # 0
      <4>1. k \in 1..n /\ k - 1 \in 0..n
        BY <3>2
      <4>2. g[k] = Moved(m, dest, src, k) /\ g[k - 1] = Moved(m, dest, src, k - 1)
        BY <4>1
      <4> QED BY <1>3, <3>2, <4>1, <4>2
    <3> QED BY <3>1, <3>2
  <2> QED BY <2>1
<1>5. IsCopy(copied)
  BY <1>4
<1> HIDE DEF copied, g
<1>6. ASSUME NEW k \in 0..n
      PROVE  /\ copied[k] = IF k = 0 THEN m
                            ELSE [copied[k - 1] EXCEPT ![dest + k - 1] = copied[k - 1][src + k - 1]]
             /\ g[k] = IF k = 0 THEN m
                       ELSE [g[k - 1] EXCEPT ![dest + k - 1] = g[k - 1][src + k - 1]]
  BY <1>4, <1>5
<1>7. \A k \in 0..n : copied[k] = g[k]
  <2> DEFINE Wrong == {k \in 0..n : copied[k] # g[k]}
  <2> SUFFICES ASSUME Wrong # {} PROVE FALSE
    OBVIOUS
  <2>1. Wrong \in SUBSET Nat
    OBVIOUS
  <2>2. PICK k \in Wrong : \A j \in Wrong : k =< j
    BY <2>1, LeastExists
  <2>3. k # 0
    BY <1>6
  <2>4. k - 1 \in 0..n /\ k - 1 \notin Wrong
    BY <2>2, <2>3
  <2>5. copied[k - 1] = g[k - 1]
    BY <2>4
  <2>6. k \in 0..n /\ copied[k] # g[k]
    OBVIOUS
  <2>7. /\ copied[k] = [copied[k - 1] EXCEPT ![dest + k - 1] = copied[k - 1][src + k - 1]]
        /\ g[k] = [g[k - 1] EXCEPT ![dest + k - 1] = g[k - 1][src + k - 1]]
    BY <1>6, <2>3, <2>6, Zenon
  <2>8. copied[k] = g[k]
    BY <2>5, <2>7, Zenon
  <2> QED BY <2>6, <2>8
<1>8. g[n] = Moved(m, dest, src, n)
  BY DEF g
<1> QED BY <1>1, <1>7, <1>8

\* The file in memory as far as it is still needed, and the segments copied so far.
CopyInv ==
  /\ e_file \in Image /\ e_entry = e_file.e_entry
  /\ E!Spared =>
       /\ e_pc \in {"copy", "jump"}
       /\ e_i \in 0..Len(e_file.phdr)
       /\ e_pc = "jump" => e_i = Len(e_file.phdr)
       /\ e_mem = [a \in 0..(MemSize - 1) |-> e_mem[a]]
       /\ \A a \in E!Headers : e_mem[a] = a - e_buff
       /\ \A k \in E!Loads :
            IF k > e_i
              THEN \A a \in E!Source(k) : e_mem[a] = a - e_buff
              ELSE \A c \in 0..(e_file.phdr[k].p_filesz - 1) :
                     e_mem[seg_base + e_file.phdr[k].p_vaddr + c] = e_file.phdr[k].p_offset + c

\* What is known of the file and of memory.
LEMMA ImageFacts ==
  ASSUME e_file \in Image
  PROVE  /\ e_buff \in Nat /\ seg_base \in Nat /\ Size \in Nat /\ MemSize \in Nat /\ e_buff + Size <= MemSize
         /\ e_file.e_phoff \in Nat \ {0} /\ Len(e_file.phdr) \in Nat
         /\ e_file.e_phoff + Len(e_file.phdr) <= Size
         /\ DOMAIN e_file.phdr = 1..Len(e_file.phdr)
<1>1. E!ElfAssumption
  BY InstancesAssumption
<1>2. E!IsImage(e_file)
  BY <1>1, Zenon DEF E!ElfAssumption
<1> QED BY <1>1, <1>2 DEF E!ElfAssumption, E!IsImage

LEMMA SegmentFacts ==
  ASSUME e_file \in Image, NEW k \in DOMAIN e_file.phdr
  PROVE  LET ph == e_file.phdr[k]
         IN  /\ ph.p_offset \in Nat /\ ph.p_vaddr \in Nat /\ ph.p_filesz \in Nat
             /\ ph.p_offset + ph.p_filesz <= Size
             /\ seg_base + ph.p_vaddr + ph.p_filesz <= MemSize
<1>1. E!ElfAssumption
  BY InstancesAssumption
<1>2. E!IsImage(e_file)
  BY <1>1, Zenon DEF E!ElfAssumption
<1> QED BY <1>2 DEF E!IsImage

\* The headers and the segments of the file lie in memory.
LEMMA FileInMemory ==
  ASSUME e_file \in Image
  PROVE  /\ \A a \in E!Headers : a \in 0..(MemSize - 1) /\ a - e_buff \in 0..(Size - 1)
         /\ \A k \in E!Loads : \A a \in E!Source(k) : a \in 0..(MemSize - 1) /\ a - e_buff \in 0..(Size - 1)
<1>1. ASSUME NEW a \in E!Headers PROVE a \in 0..(MemSize - 1) /\ a - e_buff \in 0..(Size - 1)
  <2> DEFINE z == e_file.e_phoff
             n == Len(e_file.phdr)
  <2>1. a = e_buff \/ \E k \in 0..(n - 1) : a = e_buff + z + k
    BY DEF E!Headers
  <2>2. /\ e_buff \in Nat /\ Size \in Nat /\ MemSize \in Nat /\ e_buff + Size <= MemSize
        /\ z \in Nat \ {0} /\ n \in Nat /\ z + n <= Size
    BY ImageFacts
  <2> HIDE DEF z, n
  <2> QED BY <2>1, <2>2
<1>2. ASSUME NEW k \in E!Loads, NEW a \in E!Source(k)
      PROVE  a \in 0..(MemSize - 1) /\ a - e_buff \in 0..(Size - 1)
  <2> DEFINE o == e_file.phdr[k].p_offset
             z == e_file.phdr[k].p_filesz
  <2>1. \E c \in 0..(z - 1) : a = e_buff + o + c
    BY DEF E!Source
  <2>2. e_buff \in Nat /\ Size \in Nat /\ MemSize \in Nat /\ e_buff + Size <= MemSize
    BY ImageFacts
  <2>3. k \in DOMAIN e_file.phdr
    BY DEF E!Loads
  <2>4. o \in Nat /\ z \in Nat /\ o + z <= Size
    BY <2>3, SegmentFacts
  <2> HIDE DEF o, z
  <2> QED BY <2>1, <2>2, <2>4
<1> QED BY <1>1, <1>2

LEMMA CopyInit ==
  ASSUME E!Init
  PROVE  CopyInv
<1>1. e_file \in Image /\ e_entry = e_file.e_entry /\ e_pc = "copy" /\ e_i = 0
      /\ e_mem = [c \in 0..(MemSize - 1) |-> IF c - e_buff \in 0..(Size - 1) THEN c - e_buff ELSE -1]
  BY DEF E!Init, E!Other
<1>2. e_i \in 0..Len(e_file.phdr) /\ \A k \in E!Loads : k > e_i
  BY <1>1, ImageFacts DEF E!Loads
<1>3. ASSUME NEW a \in 0..(MemSize - 1), a - e_buff \in 0..(Size - 1)
      PROVE  e_mem[a] = a - e_buff
  BY <1>1, <1>3
<1>4. /\ \A a \in E!Headers : e_mem[a] = a - e_buff
      /\ \A k \in E!Loads : \A a \in E!Source(k) : e_mem[a] = a - e_buff
  BY <1>1, <1>3, FileInMemory
<1> QED BY <1>1, <1>2, <1>4 DEF CopyInv

\* What is derived from the file stays with it.
LEMMA FileStays ==
  ASSUME e_file' = e_file
  PROVE  /\ E!Loads' = E!Loads /\ E!Headers' = E!Headers
         /\ E!Spared' <=> E!Spared
         /\ \A k : E!Source(k)' = E!Source(k)
<1>1. E!Loads' = E!Loads /\ E!Headers' = E!Headers
  BY DEF E!Loads, E!Headers
<1>2. ASSUME NEW k PROVE E!Source(k)' = E!Source(k) /\ E!Dest(k)' = E!Dest(k)
  BY DEF E!Source, E!Dest
<1>3. E!Spared' <=> E!Spared
  BY <1>1, <1>2 DEF E!Spared
<1> QED BY <1>1, <1>2, <1>3

\* One segment.
LEMMA CopyOne ==
  ASSUME CopyInv, E!CopySegment
  PROVE  CopyInv'
<1>1. /\ e_file' = e_file /\ e_entry' = e_entry /\ e_i' = e_i + 1 /\ e_pc = "copy"
      /\ \E n \in E!e_phnum : e_i < n
      /\ IF E!PhdrIntact(e_i)
           THEN LET ph == e_file.phdr[e_i + 1]
                IN  /\ e_mem' = IF ph.p_type = "PT_LOAD"
                                  THEN E!s32_memcpy(e_mem, seg_base + ph.p_vaddr, e_buff + ph.p_offset, ph.p_filesz)
                                  ELSE e_mem
                    /\ e_pc' = e_pc
           ELSE TRUE
  BY DEF E!CopySegment
<1>2. /\ e_file \in Image /\ e_file' \in Image /\ e_entry' = e_file'.e_entry
  BY <1>1 DEF CopyInv
<1>3. E!Spared' => E!Spared
  BY <1>1, FileStays
<1> SUFFICES ASSUME E!Spared
             PROVE  /\ e_pc' = "copy"
                    /\ e_i' \in 0..Len(e_file.phdr)
                    /\ e_mem' = [a \in 0..(MemSize - 1) |-> e_mem'[a]]
                    /\ \A a \in E!Headers : e_mem'[a] = a - e_buff
                    /\ \A k \in E!Loads :
                         IF k > e_i'
                           THEN \A a \in E!Source(k) : e_mem'[a] = a - e_buff
                           ELSE \A c \in 0..(e_file.phdr[k].p_filesz - 1) :
                                  e_mem'[seg_base + e_file.phdr[k].p_vaddr + c] = e_file.phdr[k].p_offset + c
  BY <1>1, <1>2, <1>3 DEF CopyInv, E!Loads, E!Dest, E!Source, E!Headers
<1> DEFINE N == Len(e_file.phdr)
           q == e_i + 1
           ph == e_file.phdr[q]
           dest == seg_base + ph.p_vaddr
           src == e_buff + ph.p_offset
           z == ph.p_filesz
<1>4. /\ e_i \in 0..N
      /\ e_mem = [a \in 0..(MemSize - 1) |-> e_mem[a]]
      /\ \A a \in E!Headers : e_mem[a] = a - e_buff
      /\ \A k \in E!Loads :
           IF k > e_i THEN \A a \in E!Source(k) : e_mem[a] = a - e_buff
           ELSE \A c \in 0..(e_file.phdr[k].p_filesz - 1) :
                  e_mem[seg_base + e_file.phdr[k].p_vaddr + c] = e_file.phdr[k].p_offset + c
  BY DEF CopyInv
<1>5. /\ e_buff \in Nat /\ seg_base \in Nat /\ Size \in Nat /\ MemSize \in Nat /\ e_buff + Size <= MemSize
      /\ e_file.e_phoff \in Nat \ {0} /\ N \in Nat
      /\ e_file.e_phoff + N <= Size /\ DOMAIN e_file.phdr = 1..N
  BY <1>2, ImageFacts
<1>6. E!e_phnum = {N}
  <2>1. e_buff \in E!Headers
    BY DEF E!Headers
  <2>2. e_mem[e_buff] = e_buff - e_buff
    BY <1>4, <2>1, Zenon
  <2>3. e_mem[e_buff] = 0
    BY <1>5, <2>2
  <2> QED BY <2>3 DEF E!e_phnum, E!HeaderIntact
<1>7. e_i < N /\ q \in 1..N /\ e_i' = q /\ e_i \in Nat
  BY <1>1, <1>4, <1>5, <1>6
<1>8. E!PhdrIntact(e_i)
  <2> DEFINE a == e_buff + e_file.e_phoff + e_i
  <2>1. a \in E!Headers
    <3>1. e_i \in 0..(Len(e_file.phdr) - 1)
      BY <1>5, <1>7
    <3> QED BY <3>1 DEF E!Headers
  <2>2. e_mem[a] = a - e_buff
    BY <1>4, <2>1
  <2>3. a < MemSize /\ a - e_buff = e_file.e_phoff + e_i
    <3> DEFINE y == e_file.e_phoff
    <3>1. y \in Nat /\ y + N <= Size
      BY <1>5
    <3> HIDE DEF y, N
    <3> QED BY <1>5, <1>7, <3>1 DEF y
  <2> QED BY <1>7, <2>2, <2>3 DEF E!PhdrIntact
<1>9. /\ e_pc' = "copy"
      /\ e_mem' = IF ph.p_type = "PT_LOAD" THEN E!s32_memcpy(e_mem, dest, src, z) ELSE e_mem
  BY <1>1, <1>8
<1>10. CASE ph.p_type # "PT_LOAD"
  <2>1. q \notin E!Loads
    BY <1>10 DEF E!Loads
  <2>2. e_mem' = e_mem
    BY <1>9, <1>10
  <2>3. ASSUME NEW k \in E!Loads PROVE k > e_i <=> k > e_i'
    <3>1. k \in 1..N /\ k # q
      BY <1>5, <2>1 DEF E!Loads
    <3> QED BY <1>7, <3>1
  <2>4. e_i' \in 0..N
    BY <1>5, <1>7
  <2> HIDE DEF ph, q, N
  <2> QED BY <1>4, <1>9, <2>2, <2>3, <2>4 DEF N
<1>11. CASE ph.p_type = "PT_LOAD"
  <2>1. q \in E!Loads
    BY <1>5, <1>7, <1>11 DEF E!Loads
  <2>2. /\ dest \in Nat /\ src \in Nat /\ z \in Nat
        /\ src + z <= MemSize /\ dest + z <= MemSize
    <3> DEFINE o == ph.p_offset
               w == ph.p_vaddr
    <3>1. q \in DOMAIN e_file.phdr
      BY <1>5, <1>7
    <3>2. /\ o \in Nat /\ w \in Nat /\ z \in Nat /\ o + z <= Size
          /\ seg_base + w + z <= MemSize
      BY <1>2, <3>1, SegmentFacts
    <3>3. dest = seg_base + w /\ src = e_buff + o
      OBVIOUS
    <3> HIDE DEF o, w, z, dest, src
    <3> QED BY <1>5, <3>2, <3>3
  <2>3. /\ E!Dest(q) \cap E!Headers = {}
        /\ \A j \in E!Loads : j > q => E!Dest(q) \cap E!Source(j) = {}
        /\ \A j \in E!Loads : j < q => E!Dest(j) \cap E!Dest(q) = {}
        /\ E!Dest(q) \cap E!Source(q) # {} => dest <= src
    <3>1. \A j \in E!Loads : j < q => q > j
      BY <1>5, <1>7 DEF E!Loads
    <3> QED BY <2>1, <3>1 DEF E!Spared
  <2>4. /\ \A a : a \in E!Dest(q) <=> a \in dest..(dest + z - 1)
        /\ \A a : a \in E!Source(q) <=> a \in src..(src + z - 1)
    <3>1. /\ E!Dest(q) = {dest + c : c \in 0..(z - 1)}
          /\ E!Source(q) = {src + c : c \in 0..(z - 1)}
      BY DEF E!Dest, E!Source
    <3> HIDE DEF dest, src, z
    <3>2. ASSUME NEW x \in Nat, NEW a
          PROVE  a \in {x + c : c \in 0..(z - 1)} <=> a \in x..(x + z - 1)
      <4>1. ASSUME a \in x..(x + z - 1) PROVE a \in {x + c : c \in 0..(z - 1)}
        <5>1. a - x \in 0..(z - 1) /\ x + (a - x) = a
          BY <2>2, <4>1
        <5> QED BY <5>1
      <4>2. ASSUME a \in {x + c : c \in 0..(z - 1)} PROVE a \in x..(x + z - 1)
        BY <2>2, <4>2
      <4> QED BY <4>1, <4>2
    <3> QED BY <2>2, <3>1, <3>2
  <2>5. e_mem' = Moved(e_mem, dest, src, z)
    <3> HIDE DEF dest, src, z
    <3>1. DOMAIN e_mem = 0..(MemSize - 1)
      BY <1>4
    <3>2. \A a \in dest..(dest + z - 1) : a \in 0..(MemSize - 1)
      BY <1>5, <2>2
    <3>3. ASSUME NEW k \in 0..(z - 1)
          PROVE  src + k \in 0..(MemSize - 1) /\ src + k \notin dest..(dest + k - 1)
      <4>1. src + k \in 0..(MemSize - 1) /\ src + k \in src..(src + z - 1)
        BY <1>5, <2>2
      <4>2. CASE dest <= src
        BY <2>2, <4>1, <4>2
      <4>3. CASE ~ (dest <= src)
        <5>1. src + k \in E!Source(q) /\ E!Dest(q) \cap E!Source(q) = {}
          BY <2>3, <2>4, <4>1, <4>3 DEF dest, src
        <5>2. src + k \notin dest..(dest + z - 1)
          BY <2>4, <5>1
        <5> QED BY <2>2, <4>1, <5>2
      <4> QED BY <4>2, <4>3
    <3>4. e_mem' = E!s32_memcpy(e_mem, dest, src, z)
      BY <1>9, <1>11 DEF dest, src, z
    <3> DEFINE M == 0..(MemSize - 1)
    <3>5. DOMAIN e_mem = M /\ e_mem = [a \in M |-> e_mem[a]] /\ \A a \in dest..(dest + z - 1) : a \in M
      BY <1>4, <3>1, <3>2
    <3>6. \A k \in 0..(z - 1) : src + k \in M /\ src + k \notin dest..(dest + k - 1)
      BY <3>3
    <3> HIDE DEF M
    <3>7. E!s32_memcpy(e_mem, dest, src, z) = Moved(e_mem, dest, src, z)
      BY <2>2, <3>5, <3>6, CopyMoves
    <3> QED BY <3>4, <3>7
  <2> HIDE DEF dest, src, z
  <2>6. /\ e_mem' = [a \in 0..(MemSize - 1) |-> e_mem'[a]]
        /\ \A a \in 0..(MemSize - 1) : a \notin E!Dest(q) => e_mem'[a] = e_mem[a]
        /\ \A c \in 0..(z - 1) : e_mem'[dest + c] = e_mem[src + c]
    <3>1. DOMAIN e_mem = 0..(MemSize - 1)
      BY <1>4
    <3>2. e_mem' = [a \in 0..(MemSize - 1) |->
                      IF a \in dest..(dest + z - 1) THEN e_mem[src + (a - dest)] ELSE e_mem[a]]
      BY <2>5, <3>1 DEF Moved
    <3>3. ASSUME NEW c \in 0..(z - 1) PROVE e_mem'[dest + c] = e_mem[src + c]
      <4>1. dest + c \in 0..(MemSize - 1) /\ dest + c \in dest..(dest + z - 1)
            /\ src + ((dest + c) - dest) = src + c
        BY <1>5, <2>2
      <4> QED BY <3>2, <4>1
    <3>4. \A a \in 0..(MemSize - 1) : a \notin E!Dest(q) => e_mem'[a] = e_mem[a]
      BY <2>4, <3>2
    <3> QED BY <3>2, <3>3, <3>4
  <2>7. \A a \in E!Headers : e_mem'[a] = a - e_buff
    BY <1>2, <1>4, <2>3, <2>6, FileInMemory
  <2>8. ASSUME NEW k \in E!Loads, k > q
        PROVE  \A a \in E!Source(k) : e_mem'[a] = a - e_buff
    <3> SUFFICES ASSUME NEW a \in E!Source(k) PROVE e_mem'[a] = a - e_buff
      OBVIOUS
    <3>1. k \in 1..N /\ k > e_i
      BY <1>5, <1>7, <2>8 DEF E!Loads
    <3>2. e_mem[a] = a - e_buff
      BY <1>4, <3>1
    <3>3. a \notin E!Dest(q) /\ a \in 0..(MemSize - 1)
      BY <1>2, <2>3, <2>8, FileInMemory
    <3> QED BY <2>6, <3>2, <3>3
  <2>9. ASSUME NEW k \in E!Loads, k < q, NEW c \in 0..(e_file.phdr[k].p_filesz - 1)
        PROVE  e_mem'[seg_base + e_file.phdr[k].p_vaddr + c] = e_file.phdr[k].p_offset + c
    <3> DEFINE a == seg_base + e_file.phdr[k].p_vaddr + c
    <3>1. k \in 1..N /\ ~ (k > e_i)
      BY <1>5, <1>7, <2>9 DEF E!Loads
    <3>2. e_mem[a] = e_file.phdr[k].p_offset + c
      BY <1>4, <3>1
    <3>3. a \in E!Dest(k)
      BY DEF E!Dest
    <3>4. a \in 0..(MemSize - 1)
      <4> DEFINE w == e_file.phdr[k].p_vaddr
                 y == e_file.phdr[k].p_filesz
      <4>1. k \in DOMAIN e_file.phdr
        BY <1>5, <3>1
      <4>2. w \in Nat /\ y \in Nat /\ seg_base + w + y <= MemSize /\ a = seg_base + w + c /\ c \in 0..(y - 1)
        BY <1>2, <4>1, SegmentFacts
      <4> HIDE DEF w, y, a
      <4> QED BY <1>5, <4>2
    <3>5. a \notin E!Dest(q)
      BY <2>3, <2>9, <3>3
    <3> QED BY <2>6, <3>2, <3>4, <3>5
  <2>10. ASSUME NEW c \in 0..(z - 1)
         PROVE  e_mem'[dest + c] = ph.p_offset + c
    <3>1. src + c \in E!Source(q)
      <4>1. src + c \in src..(src + z - 1)
        BY <2>2
      <4> QED BY <2>4, <4>1
    <3>2. \A a \in E!Source(q) : e_mem[a] = a - e_buff
      <4>1. q > e_i
        BY <1>7
      <4> QED BY <1>4, <2>1, <4>1
    <3>3. e_mem[src + c] = (src + c) - e_buff
      BY <3>1, <3>2, Zenon
    <3>4. (src + c) - e_buff = ph.p_offset + c
      <4> DEFINE o == ph.p_offset
      <4>1. q \in DOMAIN e_file.phdr
        BY <1>5, <1>7
      <4>2. o \in Nat /\ src = e_buff + o
        BY <1>2, <4>1, SegmentFacts DEF src
      <4> HIDE DEF o
      <4>3. (src + c) - e_buff = o + c
        BY <1>5, <2>2, <4>2, SMTT(30)
      <4> QED BY <4>3 DEF o
    <3> QED BY <2>6, <3>3, <3>4
  <2>11. ASSUME NEW k \in E!Loads
         PROVE  IF k > e_i'
                  THEN \A a \in E!Source(k) : e_mem'[a] = a - e_buff
                  ELSE \A c \in 0..(e_file.phdr[k].p_filesz - 1) :
                         e_mem'[seg_base + e_file.phdr[k].p_vaddr + c] = e_file.phdr[k].p_offset + c
    <3>1. k \in 1..N
      BY <1>5 DEF E!Loads
    <3>2. CASE k > q
      BY <1>7, <2>8, <3>2
    <3>3. CASE k < q
      BY <1>7, <2>9, <3>1, <3>3
    <3>4. CASE k = q
      BY <1>7, <2>10, <3>4 DEF dest, z
    <3> QED BY <1>7, <3>1, <3>2, <3>3, <3>4
  <2> QED BY <1>5, <1>7, <1>9, <2>6, <2>7, <2>11
<1> QED BY <1>10, <1>11

\* The jump.
LEMMA CopyEnds ==
  ASSUME CopyInv, E!JumpKernel
  PROVE  CopyInv'
<1>1. /\ e_file' = e_file /\ e_entry' = e_entry /\ e_i' = e_i /\ e_mem' = e_mem /\ e_pc' = "jump"
      /\ \E n \in E!e_phnum : e_i >= n
  BY DEF E!JumpKernel, E!Target
<1>2. E!Spared => e_i = Len(e_file.phdr)
  <2> SUFFICES ASSUME E!Spared PROVE e_i = Len(e_file.phdr)
    OBVIOUS
  <2>1. /\ e_i \in 0..Len(e_file.phdr) /\ e_file \in Image
        /\ \A a \in E!Headers : e_mem[a] = a - e_buff
    BY DEF CopyInv
  <2>2. e_buff \in Nat /\ Len(e_file.phdr) \in Nat
    BY <2>1, ImageFacts
  <2>3. e_buff \in E!Headers
    BY DEF E!Headers
  <2>4. e_mem[e_buff] = 0
    BY <2>1, <2>2, <2>3
  <2>5. E!e_phnum = {Len(e_file.phdr)}
    BY <2>4 DEF E!e_phnum, E!HeaderIntact
  <2> QED BY <1>1, <2>1, <2>2, <2>5
<1> QED BY <1>1, <1>2, FileStays DEF CopyInv

(***************************************************************************)
(* copy_elf_code jumps to the entry point of the file, and unless its own  *)
(* copies destroy what it still needs every segment is in its place: for   *)
(* every file, and every place of the file and its segments in memory,     *)
(* where they overlap too.                                                 *)
(***************************************************************************)
THEOREM KernelInPlace == SequentialSpec => []KernelPlaced
<1>1. SequentialInit => CopyInv
  BY InitOfParts, CopyInit
<1>2. CopyInv /\ [SequentialNext]_allvars => CopyInv'
  <2> SUFFICES ASSUME CopyInv, [SequentialNext]_allvars PROVE CopyInv'
    OBVIOUS
  <2>1. CASE UNCHANGED evars
    BY <2>1, FileStays DEF evars, CopyInv
  <2>2. CASE E!Next
    BY <2>2, CopyOne, CopyEnds DEF E!Next
  <2> QED BY <2>1, <2>2, StepOfParts
<1>3. CopyInv => KernelPlaced
  <2> SUFFICES ASSUME CopyInv
               PROVE  /\ e_pc = "jump" => e_entry = e_file.e_entry
                      /\ e_pc = "wild" => ~ E!Spared
                      /\ e_pc = "jump" /\ E!Spared =>
                           \A k \in E!Loads : \A c \in 0..(e_file.phdr[k].p_filesz - 1) :
                             e_mem[seg_base + e_file.phdr[k].p_vaddr + c] = e_file.phdr[k].p_offset + c
    BY DEF KernelPlaced, E!KernelPlaced, E!Loads
  <2>1. ASSUME e_pc = "jump", E!Spared, NEW k \in E!Loads PROVE ~ (k > e_i)
    <3>1. e_file \in Image /\ e_i = Len(e_file.phdr)
      BY <2>1 DEF CopyInv
    <3> QED BY <3>1, ImageFacts DEF E!Loads
  <2> QED BY <2>1 DEF CopyInv
<1> QED BY <1>1, <1>2, <1>3, PTL DEF SequentialSpec

----------------------------------------------------------------------------
(* genromfs                                                                *)

\* Strings; the provers do not know that the literals are among them.
Names == STRING \cup {"rom", ".", ".."}

NodeRec ==
  [name : Names, len : Nat, ino : Nat, kind : G!Kinds \cup {"none"}, exec : BOOLEAN, size : Nat,
   offset : Nat, pad : Nat, orig_link : Nat, parent : Nat, owner : Nat, kids : Seq(Nat)]

KidOf(ns, d, k) == \E i \in DOMAIN ns[d].kids : ns[d].kids[i] = k

Ascends(s) == \A i, j \in DOMAIN s : i < j => s[i] < s[j]

(***************************************************************************)
(* The nodes form a tree, numbered in preorder: the nodes of a directory   *)
(* follow it in ascending order, every node but the root is in one, and    *)
(* what lies below a node comes before the next one of its directory.      *)
(***************************************************************************)
Tree(ns) ==
  /\ ns \in Seq(NodeRec) /\ Len(ns) >= 1
  /\ \A d \in DOMAIN ns : ns[d].owner \in DOMAIN ns /\ ns[d].parent \in DOMAIN ns
  /\ \A d \in DOMAIN ns : Ascends(ns[d].kids)
  /\ \A d \in DOMAIN ns : \A i \in DOMAIN ns[d].kids : ns[d].kids[i] \in DOMAIN ns /\ d < ns[d].kids[i]
  /\ \A k \in DOMAIN ns : k # 1 => \E d \in DOMAIN ns : KidOf(ns, d, k)
  /\ \A d, e, j, k \in DOMAIN ns : KidOf(ns, d, j) /\ KidOf(ns, e, k) /\ d < e /\ e < j => k < j

\* A directory that processdir goes into: the root, or one that is no link.
Real(ns, d) == d = 1 \/ (d >= 3 /\ ns[d].kind = "dir" /\ ns[d].orig_link = 0)

DirsOnly(ns) == \A d, k \in DOMAIN ns : KidOf(ns, d, k) => Real(ns, d)

\* findalign under options o.
AlignOf(o, n) ==
  G!Max({IF n.kind = "reg" THEN o.align ELSE 16}
        \cup {a.align : a \in {b \in o.alignlist : n.name \in b.pattern}})

\* A node that follows offset off: where it is, its padding, and its size.
Fit(o, n, off) ==
  /\ n.offset = off + n.pad
  /\ n.pad < AlignOf(o, n)
  /\ (n.offset + IF n.kind = "reg" /\ n.orig_link = 0 THEN G!dumpri(n) ELSE 0) % AlignOf(o, n) = 0
  /\ n.orig_link # 0 \/ n.kind \notin {"reg", "lnk"} => n.size = 0

Chained(o, ns) ==
  /\ ns[1].offset = 0 /\ ns[1].size = 0
  /\ \A k \in 2..Len(ns) : Fit(o, ns[k], G!After(ns[k - 1]))

\* A directory to which nodes may still be added: whatever comes after it is below it.
Open(ns, d) == \A e, j \in DOMAIN ns : KidOf(ns, e, j) /\ d < j => d <= e

Frame(h, ns) == [dir : DOMAIN ns, list : Seq(G!EntriesOf(h))]

Stacked(h, ns, st) ==
  /\ Len(ns) >= 3
  /\ st \in Seq(Frame(h, ns))
  /\ \A i \in DOMAIN st : Real(ns, st[i].dir) /\ Open(ns, st[i].dir)
  /\ \A i, j \in DOMAIN st : i < j => st[j].dir < st[i].dir

\* The second pass has written the nodes up to m; the others are those of todo and what is below them.
Written(ns, todo, m) ==
  /\ todo \in Seq(DOMAIN ns) /\ Ascends(todo)
  /\ \A i \in DOMAIN todo : m < todo[i] /\ \E d \in 1..m : KidOf(ns, d, todo[i])
  /\ \A d \in 1..m : \A k \in DOMAIN ns : KidOf(ns, d, k) /\ m < k => \E i \in DOMAIN todo : todo[i] = k

GenromfsInv ==
  /\ g_host \in Host /\ g_options \in Options
  /\ g_pc \in {"main", "exit", "dots", "scan", "dumpall", "dumpnode", "done"}
  /\ g_pc \in {"main", "exit"} => g_nodes = <<>>
  /\ g_pc \in {"main", "exit", "dots", "scan", "dumpall"} => g_image = {} /\ g_atoffs = 0
  /\ g_pc \notin {"main", "exit"} =>
       /\ g_options.align \in G!Alignments
       /\ Tree(g_nodes) /\ DirsOnly(g_nodes) /\ Chained(g_options, g_nodes)
       /\ g_curroffset = G!After(g_nodes[Len(g_nodes)])
  /\ g_pc = "dots" => Len(g_nodes) = 1 /\ g_nodes[1].kids = <<>>
  /\ g_pc = "scan" => Stacked(g_host, g_nodes, g_stack)
  /\ g_pc = "dumpnode" => \E m \in DOMAIN g_nodes : g_atoffs = G!After(g_nodes[m]) /\ Written(g_nodes, g_todo, m)
  /\ \A h \in g_image : h.at = g_nodes[h.node].offset
  /\ g_pc = "done" =>
       g_file = g_atoffs /\ g_file \in g_curroffset..(g_curroffset + 1023) /\ g_file % 1024 = 0

\* What the assumptions say of a host and of options.
LEMMA HostAndOptions ==
  /\ \A h \in Host : G!IsHost(h)
  /\ \A o \in Options : G!IsOptions(o)
BY InstancesAssumption, Zenon DEF G!HostAssumption

\* findalign is one of the alignments of the options.
LEMMA AlignOfIsAlignment ==
  ASSUME NEW o, G!IsOptions(o), o.align \in G!Alignments, NEW n
  PROVE  /\ AlignOf(o, n) \in G!Alignments
         /\ o.align = 16 /\ o.alignlist = {} => AlignOf(o, n) = 16
<1> DEFINE A == {IF n.kind = "reg" THEN o.align ELSE 16}
                  \cup {a.align : a \in {b \in o.alignlist : n.name \in b.pattern}}
           T == {4096 - x : x \in A}
<1>1. A \subseteq G!Alignments
  <2>1. 16 \in G!Alignments
    BY DEF G!Alignments
  <2>2. \A a \in o.alignlist : a.align \in G!Alignments
    BY DEF G!IsOptions
  <2> QED BY <2>1, <2>2
<1>2. A # {}
  OBVIOUS
<1> HIDE DEF A
<1>3. \A x \in G!Alignments : x \in Nat /\ x <= 4096
  BY DEF G!Alignments
<1>4. T \in SUBSET Nat /\ T # {}
  BY <1>1, <1>2, <1>3
<1>5. PICK t \in T : \A u \in T : t =< u
  BY <1>4, LeastExists, ZenonT(30)
<1>6. PICK x \in A : t = 4096 - x
  BY <1>5
<1>7. \A y \in A : x >= y
  <2> TAKE y \in A
  <2>1. 4096 - y \in T
    OBVIOUS
  <2>2. t =< 4096 - y
    BY <1>5, <2>1
  <2>3. x \in Nat /\ y \in Nat
    BY <1>1, <1>3
  <2> QED BY <1>6, <2>2, <2>3
<1>8. G!Max(A) \in A
  <2> DEFINE P(z) == \A y \in A : z >= y
  <2>1. P(x)
    BY <1>7
  <2> HIDE DEF P
  <2>2. (CHOOSE z \in A : P(z)) \in A
    BY <2>1, Zenon
  <2> QED BY <2>2 DEF P, G!Max
<1>9. AlignOf(o, n) = G!Max(A)
  BY Zenon DEF AlignOf, A
<1>10. ASSUME o.align = 16, o.alignlist = {}
       PROVE  A = {16}
  BY <1>10 DEF A
<1> QED BY <1>1, <1>8, <1>9, <1>10

\* Two nodes that differ at most in their directory's bookkeeping and in what is below them.
Same(n, m) ==
  /\ m.name = n.name /\ m.len = n.len /\ m.kind = n.kind /\ m.size = n.size
  /\ m.offset = n.offset /\ m.pad = n.pad /\ m.orig_link = n.orig_link

(***************************************************************************)
(* ms is ns with node n added to directory d: nothing else changes.        *)
(***************************************************************************)
Grown(ns, ms, d, n) ==
  /\ ms \in Seq(NodeRec) /\ Len(ms) = Len(ns) + 1
  /\ \A k \in DOMAIN ns : Same(ns[k], ms[k]) /\ ms[k].owner = ns[k].owner /\ ms[k].parent = ns[k].parent
  /\ \A k \in DOMAIN ns : ms[k].kids = IF k = d THEN Append(ns[k].kids, Len(ns) + 1) ELSE ns[k].kids
  /\ Same(n, ms[Len(ns) + 1])
  /\ ms[Len(ns) + 1].kids = <<>>
  /\ ms[Len(ns) + 1].owner = Len(ns) + 1 /\ ms[Len(ns) + 1].parent = ns[d].owner

LEMMA AppendGrows ==
  ASSUME NEW ns \in Seq(NodeRec), NEW d \in DOMAIN ns, NEW n \in NodeRec, n.kids = <<>>
  PROVE  Grown(ns, G!append(ns, d, n), d, n)
<1> DEFINE K == Len(ns) + 1
           bs == [ns EXCEPT ![d].kids = Append(@, K)]
           last == [n EXCEPT !.parent = ns[d].owner, !.owner = K]
           ms == G!append(ns, d, n)
<1>1. Len(ns) \in Nat /\ K \in Nat /\ DOMAIN ns = 1..Len(ns)
  OBVIOUS
<1>2. ASSUME NEW k \in DOMAIN ns PROVE ns[k] \in NodeRec
  OBVIOUS
<1>3. ASSUME NEW r \in NodeRec, NEW s \in Seq(Nat)
      PROVE  /\ [r EXCEPT !.kids = s] \in NodeRec
             /\ Same(r, [r EXCEPT !.kids = s])
             /\ [r EXCEPT !.kids = s].kids = s
             /\ [r EXCEPT !.kids = s].owner = r.owner /\ [r EXCEPT !.kids = s].parent = r.parent
  BY DEF NodeRec, Same
<1>4. ns[d].kids \in Seq(Nat) /\ ns[d].owner \in Nat
  BY <1>2 DEF NodeRec
<1>5. Append(ns[d].kids, K) \in Seq(Nat)
  BY <1>4, <1>1, AppendProperties, Zenon
<1>6. /\ last \in NodeRec /\ Same(n, last) /\ last.kids = <<>> /\ last.owner = K /\ last.parent = ns[d].owner
  BY <1>1, <1>4 DEF NodeRec, Same
<1>7. bs = [k \in 1..Len(ns) |-> IF k = d THEN [ns[d] EXCEPT !.kids = Append(ns[d].kids, K)] ELSE ns[k]]
  BY <1>1
<1>8. \A k \in 1..Len(ns) : bs[k] = IF k = d THEN [ns[d] EXCEPT !.kids = Append(ns[d].kids, K)] ELSE ns[k]
  BY <1>7
<1>9. bs \in Seq(NodeRec) /\ Len(bs) = Len(ns)
  <2>1. \A k \in 1..Len(ns) : bs[k] \in NodeRec
    BY <1>1, <1>2, <1>3, <1>5, <1>8
  <2>2. DOMAIN bs = 1..Len(ns) /\ bs = [k \in 1..Len(ns) |-> bs[k]]
    BY <1>7
  <2> HIDE DEF bs
  <2>3. bs \in [1..Len(ns) -> NodeRec]
    BY <2>1, <2>2
  <2>4. bs \in Seq(NodeRec)
    BY <1>1, <2>3
  <2> QED BY <1>1, <2>2, <2>4
<1>10. ms = Append(bs, last)
  BY Zenon DEF G!append
<1> HIDE DEF bs, last, ms
<1>11. /\ ms \in Seq(NodeRec) /\ Len(ms) = K /\ ms[K] = last
       /\ \A k \in 1..Len(ns) : ms[k] = bs[k]
  BY <1>1, <1>6, <1>9, <1>10
<1>12. ASSUME NEW k \in DOMAIN ns
       PROVE  /\ Same(ns[k], ms[k]) /\ ms[k].owner = ns[k].owner /\ ms[k].parent = ns[k].parent
              /\ ms[k].kids = IF k = d THEN Append(ns[k].kids, K) ELSE ns[k].kids
  <2>1. CASE k = d
    <3>1. ms[k] = [ns[k] EXCEPT !.kids = Append(ns[k].kids, K)]
      BY <1>1, <1>8, <1>11, <2>1
    <3>2. ns[k] \in NodeRec /\ Append(ns[k].kids, K) \in Seq(Nat)
      BY <1>2, <1>5, <2>1
    <3> DEFINE q == Append(ns[k].kids, K)
               r == [ns[k] EXCEPT !.kids = q]
    <3>3. q \in Seq(Nat)
      BY <3>2
    <3> HIDE DEF q
    <3>4. Same(ns[k], r) /\ r.kids = q /\ r.owner = ns[k].owner /\ r.parent = ns[k].parent
      BY <1>3, <3>2, <3>3
    <3>5. ms[k] = r
      BY <3>1, Zenon DEF q
    <3> HIDE DEF r
    <3>6. ms[k].kids = Append(ns[k].kids, K)
      BY <3>4, <3>5 DEF q
    <3> QED BY <2>1, <3>4, <3>5, <3>6
  <2>2. CASE k # d
    <3>1. ms[k] = ns[k]
      BY <1>1, <1>8, <1>11, <2>2
    <3> QED BY <3>1, <2>2 DEF Same
  <2> QED BY <2>1, <2>2
<1>13. Grown(ns, ms, d, n)
  BY <1>1, <1>6, <1>11, <1>12 DEF Grown
<1> QED BY <1>13 DEF ms

\* The types of a tree's nodes, and the order of parent and child.
LEMMA TreeFacts ==
  ASSUME NEW ns, Tree(ns)
  PROVE  /\ Len(ns) \in Nat /\ DOMAIN ns = 1..Len(ns) /\ 1 \in DOMAIN ns
         /\ \A d \in DOMAIN ns : /\ ns[d] \in NodeRec /\ ns[d].kids \in Seq(Nat)
                                 /\ ns[d].offset \in Nat /\ ns[d].size \in Nat /\ ns[d].len \in Nat
                                 /\ ns[d].pad \in Nat /\ ns[d].orig_link \in Nat
         /\ \A d \in DOMAIN ns : \A k : KidOf(ns, d, k) => k \in DOMAIN ns /\ d < k
<1>1. ns \in Seq(NodeRec) /\ Len(ns) >= 1
  BY DEF Tree
<1>2. Len(ns) \in Nat /\ DOMAIN ns = 1..Len(ns) /\ 1 \in DOMAIN ns
  BY <1>1
<1>3. \A d \in DOMAIN ns : ns[d] \in NodeRec
  BY <1>1, <1>2
<1>4. \A d \in DOMAIN ns : \A i \in DOMAIN ns[d].kids : ns[d].kids[i] \in DOMAIN ns /\ d < ns[d].kids[i]
  BY DEF Tree
<1>5. ASSUME NEW d \in DOMAIN ns, NEW k, KidOf(ns, d, k)
      PROVE  k \in DOMAIN ns /\ d < k
  BY <1>4, <1>5 DEF KidOf
<1>6. ASSUME NEW r \in NodeRec
      PROVE  /\ r.kids \in Seq(Nat) /\ r.offset \in Nat /\ r.size \in Nat /\ r.len \in Nat
             /\ r.pad \in Nat /\ r.orig_link \in Nat
  BY DEF NodeRec
<1>7. ASSUME NEW d \in DOMAIN ns
      PROVE  /\ ns[d] \in NodeRec /\ ns[d].kids \in Seq(Nat)
             /\ ns[d].offset \in Nat /\ ns[d].size \in Nat /\ ns[d].len \in Nat
             /\ ns[d].pad \in Nat /\ ns[d].orig_link \in Nat
  BY <1>3, <1>6
<1> QED BY <1>2, <1>5, <1>7

\* What is below a directory of the grown tree.
LEMMA GrownKids ==
  ASSUME NEW ns, Tree(ns), NEW ms, NEW d \in DOMAIN ns, NEW n, Grown(ns, ms, d, n)
  PROVE  /\ DOMAIN ns = 1..Len(ns) /\ DOMAIN ms = 1..(Len(ns) + 1) /\ Len(ns) \in Nat
         /\ \A e, k \in DOMAIN ms :
              KidOf(ms, e, k) <=> \/ e \in DOMAIN ns /\ k \in DOMAIN ns /\ KidOf(ns, e, k)
                                  \/ e = d /\ k = Len(ns) + 1
<1>1. DOMAIN ns = 1..Len(ns) /\ DOMAIN ms = 1..(Len(ns) + 1) /\ Len(ns) \in Nat
  BY DEF Tree, Grown
<1>2. ASSUME NEW e \in DOMAIN ns, NEW k \in DOMAIN ms, e # d
      PROVE  KidOf(ms, e, k) <=> KidOf(ns, e, k)
  BY <1>2 DEF Grown, KidOf
<1>3. ASSUME NEW k \in DOMAIN ms
      PROVE  KidOf(ms, d, k) <=> KidOf(ns, d, k) \/ k = Len(ns) + 1
  <2> DEFINE s == ns[d].kids
             t == ms[d].kids
  <2>1. t = Append(s, Len(ns) + 1) /\ s \in Seq(Nat)
    BY TreeFacts DEF Grown
  <2>2. s \in Seq(Nat) /\ t \in Seq(Nat) /\ Len(t) = Len(s) + 1 /\ t[Len(s) + 1] = Len(ns) + 1
        /\ \A i \in 1..Len(s) : t[i] = s[i]
    BY <1>1, <2>1
  <2>3. DOMAIN s = 1..Len(s) /\ DOMAIN t = 1..(Len(s) + 1) /\ Len(s) \in Nat
    BY <2>2
  <2> HIDE DEF s, t
  <2>4. (\E i \in DOMAIN t : t[i] = k) <=> (\E i \in DOMAIN s : s[i] = k) \/ k = Len(ns) + 1
    BY <2>2, <2>3, SMTT(30)
  <2> QED BY <2>4 DEF s, t, KidOf
<1>4. ASSUME NEW k \in DOMAIN ms
      PROVE  ~KidOf(ms, Len(ns) + 1, k)
  BY DEF Grown, KidOf
<1>5. ASSUME NEW e \in DOMAIN ns, NEW k \in DOMAIN ms, KidOf(ns, e, k)
      PROVE  k \in DOMAIN ns
  BY <1>5, TreeFacts
<1>6. ASSUME NEW e \in DOMAIN ms, NEW k \in DOMAIN ms
      PROVE  KidOf(ms, e, k) <=> \/ e \in DOMAIN ns /\ k \in DOMAIN ns /\ KidOf(ns, e, k)
                                 \/ e = d /\ k = Len(ns) + 1
  <2>1. CASE e = Len(ns) + 1
    <3>1. e \notin DOMAIN ns /\ e # d
      BY <1>1, <2>1
    <3> QED BY <1>4, <2>1, <3>1
  <2>2. CASE e # Len(ns) + 1
    <3>1. e \in DOMAIN ns
      BY <1>1, <2>2
    <3>2. CASE e = d
      BY <1>3, <1>5, <3>1, <3>2
    <3>3. CASE e # d
      BY <1>2, <1>5, <3>1, <3>3
    <3> QED BY <3>2, <3>3
  <2> QED BY <2>1, <2>2
<1> QED BY <1>1, <1>6, Zenon

\* Adding a node to an open directory keeps the tree, and the directories around it open.
LEMMA GrownTree ==
  ASSUME NEW ns, Tree(ns), NEW d \in DOMAIN ns, Open(ns, d), NEW n, NEW ms, Grown(ns, ms, d, n)
  PROVE  /\ Tree(ms)
         /\ \A e \in DOMAIN ns : Open(ns, e) /\ e <= d => Open(ms, e)
         /\ Open(ms, Len(ns) + 1)
<1> DEFINE K == Len(ns) + 1
<1>1. DOMAIN ns = 1..Len(ns) /\ DOMAIN ms = 1..K /\ Len(ns) \in Nat
  BY GrownKids, Zenon
<1>2. \A e, k \in DOMAIN ms : KidOf(ms, e, k) <=> \/ e \in DOMAIN ns /\ k \in DOMAIN ns /\ KidOf(ns, e, k)
                                                  \/ e = d /\ k = K
  BY GrownKids, Zenon
<1>3. ms \in Seq(NodeRec) /\ Len(ms) = K
  BY DEF Grown
<1>4. ASSUME NEW e \in DOMAIN ms
      PROVE  ms[e].owner \in DOMAIN ms /\ ms[e].parent \in DOMAIN ms
  <2>1. \A k \in DOMAIN ns : ns[k].owner \in DOMAIN ns /\ ns[k].parent \in DOMAIN ns
    BY DEF Tree
  <2>2. /\ \A k \in DOMAIN ns : ms[k].owner = ns[k].owner /\ ms[k].parent = ns[k].parent
        /\ ms[K].owner = K /\ ms[K].parent = ns[d].owner
    BY DEF Grown
  <2>3. CASE e = K
    BY <1>1, <2>1, <2>2, <2>3
  <2>4. CASE e # K
    <3>1. e \in DOMAIN ns
      BY <1>1, <2>4
    <3> QED BY <1>1, <2>1, <2>2, <3>1
  <2> QED BY <2>3, <2>4
<1>5. ASSUME NEW e \in DOMAIN ms
      PROVE  /\ Ascends(ms[e].kids)
             /\ \A i \in DOMAIN ms[e].kids : ms[e].kids[i] \in DOMAIN ms /\ e < ms[e].kids[i]
  <2>1. \A k \in DOMAIN ns : ms[k].kids = IF k = d THEN Append(ns[k].kids, K) ELSE ns[k].kids
    BY DEF Grown
  <2>2. ms[K].kids = <<>>
    BY DEF Grown
  <2>3. \A k \in DOMAIN ns : /\ Ascends(ns[k].kids)
                             /\ \A i \in DOMAIN ns[k].kids : ns[k].kids[i] \in DOMAIN ns /\ k < ns[k].kids[i]
    BY DEF Tree
  <2>4. CASE e = K
    BY <2>2, <2>4 DEF Ascends
  <2>5. CASE e # K /\ e # d
    <3>1. e \in DOMAIN ns
      BY <1>1, <2>5
    <3>2. ms[e].kids = ns[e].kids
      BY <2>1, <2>5, <3>1
    <3> QED BY <1>1, <2>3, <3>1, <3>2
  <2>6. CASE e = d
    <3> DEFINE s == ns[d].kids
               t == ms[d].kids
    <3>1. t = Append(s, K) /\ s \in Seq(Nat)
      BY <2>1, TreeFacts
    <3>2. /\ DOMAIN s = 1..Len(s) /\ DOMAIN t = 1..(Len(s) + 1) /\ Len(s) \in Nat
          /\ t[Len(s) + 1] = K /\ \A i \in 1..Len(s) : t[i] = s[i]
      BY <1>1, <3>1
    <3>3. Ascends(s) /\ \A i \in DOMAIN s : s[i] \in DOMAIN ns /\ d < s[i]
      BY <2>3
    <3> HIDE DEF s, t
    <3>4. \A i \in DOMAIN t : t[i] \in DOMAIN ms /\ d < t[i]
      BY <1>1, <3>2, <3>3
    <3>5. Ascends(t)
      BY <1>1, <3>2, <3>3 DEF Ascends
    <3> QED BY <2>6, <3>4, <3>5 DEF t
  <2> QED BY <2>4, <2>5, <2>6
<1>6. ASSUME NEW k \in DOMAIN ms, k # 1
      PROVE  \E e \in DOMAIN ms : KidOf(ms, e, k)
  <2>1. CASE k = K
    <3>1. d \in DOMAIN ms
      BY <1>1
    <3> QED BY <1>2, <2>1, <3>1
  <2>2. CASE k # K
    <3>1. k \in DOMAIN ns
      BY <1>1, <2>2
    <3>2. PICK e \in DOMAIN ns : KidOf(ns, e, k)
      BY <1>6, <3>1 DEF Tree
    <3>3. e \in DOMAIN ms
      BY <1>1
    <3> QED BY <1>2, <3>1, <3>2, <3>3
  <2> QED BY <2>1, <2>2
<1>7. \A a, b, j, k \in DOMAIN ns : KidOf(ns, a, j) /\ KidOf(ns, b, k) /\ a < b /\ b < j => k < j
  BY DEF Tree
<1>8. \A a, j \in DOMAIN ns : KidOf(ns, a, j) /\ d < j => d <= a
  BY DEF Open
<1>9. ASSUME NEW a \in DOMAIN ms, NEW b \in DOMAIN ms, NEW j \in DOMAIN ms, NEW k \in DOMAIN ms,
             KidOf(ms, a, j), KidOf(ms, b, k), a < b, b < j
      PROVE  k < j
  <2>1. \/ a \in DOMAIN ns /\ j \in DOMAIN ns /\ KidOf(ns, a, j)
        \/ a = d /\ j = K
    BY <1>2, <1>9
  <2>2. \/ b \in DOMAIN ns /\ k \in DOMAIN ns /\ KidOf(ns, b, k)
        \/ b = d /\ k = K
    BY <1>2, <1>9
  <2>3. CASE a = d /\ j = K
    <3>1. k # K
      BY <1>1, <1>9, <2>2, <2>3
    <3> QED BY <1>1, <2>3, <3>1
  <2>4. CASE a \in DOMAIN ns /\ j \in DOMAIN ns /\ KidOf(ns, a, j)
    <3>1. CASE b = d /\ k = K
      BY <1>1, <1>8, <1>9, <2>4, <3>1
    <3>2. CASE b \in DOMAIN ns /\ k \in DOMAIN ns /\ KidOf(ns, b, k)
      BY <1>7, <1>9, <2>4, <3>2
    <3> QED BY <2>2, <3>1, <3>2
  <2> QED BY <2>1, <2>3, <2>4
<1>10. Tree(ms)
  <2>1. \A a, b, j, k \in DOMAIN ms : KidOf(ms, a, j) /\ KidOf(ms, b, k) /\ a < b /\ b < j => k < j
    BY <1>9
  <2>2. K >= 1
    BY <1>1
  <2> QED BY <1>3, <1>4, <1>5, <1>6, <2>1, <2>2 DEF Tree
<1>11. ASSUME NEW e \in DOMAIN ns, Open(ns, e), e <= d
       PROVE  Open(ms, e)
  <2>1. ASSUME NEW a \in DOMAIN ms, NEW j \in DOMAIN ms, KidOf(ms, a, j), e < j
        PROVE  e <= a
    <3>1. CASE a = d
      BY <1>11, <3>1
    <3>2. CASE a # d
      BY <1>2, <1>11, <2>1, <3>2 DEF Open
    <3> QED BY <3>1, <3>2
  <2> QED BY <2>1 DEF Open
<1>12. Open(ms, K)
  BY <1>1 DEF Open
<1> QED BY <1>10, <1>11, <1>12

\* ... and directories stay what they are.
LEMMA GrownDirs ==
  ASSUME NEW ns, Tree(ns), NEW d \in DOMAIN ns, Real(ns, d), DirsOnly(ns),
         NEW n, NEW ms, Grown(ns, ms, d, n)
  PROVE  /\ DirsOnly(ms)
         /\ \A e \in DOMAIN ns : Real(ns, e) => Real(ms, e)
<1>1. \A e \in DOMAIN ns : Real(ns, e) => Real(ms, e)
  BY DEF Grown, Same, Real
<1>2. ASSUME NEW e \in DOMAIN ms, NEW k \in DOMAIN ms, KidOf(ms, e, k)
      PROVE  e \in DOMAIN ns /\ Real(ns, e)
  <2>1. \/ e \in DOMAIN ns /\ k \in DOMAIN ns /\ KidOf(ns, e, k)
        \/ e = d /\ k = Len(ns) + 1
    BY <1>2, GrownKids, Zenon
  <2> QED BY <2>1 DEF DirsOnly
<1> QED BY <1>1, <1>2 DEF DirsOnly

\* ... and the offsets, if the new node fits after the last one.
LEMMA GrownChain ==
  ASSUME NEW o, NEW ns, Tree(ns), Chained(o, ns), NEW d \in DOMAIN ns, NEW n, NEW ms, Grown(ns, ms, d, n),
         Fit(o, n, G!After(ns[Len(ns)]))
  PROVE  Chained(o, ms) /\ G!After(ms[Len(ms)]) = G!After(n)
<1> DEFINE K == Len(ns) + 1
<1>1. /\ Len(ns) \in Nat /\ DOMAIN ns = 1..Len(ns) /\ 1 \in DOMAIN ns
      /\ Len(ms) = K
  BY TreeFacts DEF Grown
<1>2. (\A k \in DOMAIN ns : Same(ns[k], ms[k])) /\ Same(n, ms[K])
  BY DEF Grown
<1>3. ASSUME NEW x, NEW y, Same(x, y)
      PROVE  G!After(y) = G!After(x) /\ G!dumpri(y) = G!dumpri(x)
  BY <1>3 DEF Same, G!After, G!spaceneeded, G!dumpri
<1>4. ASSUME NEW x, NEW y, Same(x, y), NEW off, Fit(o, x, off)
      PROVE  Fit(o, y, off)
  <2>1. AlignOf(o, y) = AlignOf(o, x)
    BY <1>4 DEF Same, AlignOf
  <2>2. G!dumpri(y) = G!dumpri(x)
    BY <1>3, <1>4
  <2> QED BY <1>4, <2>1, <2>2 DEF Same, Fit
<1>5. ASSUME NEW k \in 2..K
      PROVE  Fit(o, ms[k], G!After(ms[k - 1]))
  <2>1. k - 1 \in DOMAIN ns
    BY <1>1
  <2>2. G!After(ms[k - 1]) = G!After(ns[k - 1])
    BY <1>2, <1>3, <2>1
  <2>3. CASE k = K
    BY <1>1, <1>2, <1>4, <2>2, <2>3
  <2>4. CASE k # K
    <3>1. k \in DOMAIN ns /\ k \in 2..Len(ns)
      BY <1>1, <2>4
    <3>2. Fit(o, ns[k], G!After(ns[k - 1]))
      BY <3>1 DEF Chained
    <3> QED BY <1>2, <1>4, <2>2, <3>1, <3>2
  <2> QED BY <2>3, <2>4
<1>6. ms[1].offset = 0 /\ ms[1].size = 0
  BY <1>1, <1>2 DEF Same, Chained
<1> QED BY <1>1, <1>2, <1>3, <1>5, <1>6 DEF Chained

\* The padding up to the next multiple of an alignment.
LEMMA PaddingAligns ==
  ASSUME NEW a \in G!Alignments, NEW x \in Nat
  PROVE  LET p == IF x % a = 0 THEN 0 ELSE a - (x % a)
         IN  p \in Nat /\ p < a /\ (x + p) % a = 0
BY DEF G!Alignments

\* Rounding up to 16 bytes.
LEMMA RoundedUp ==
  /\ \A x \in Nat : G!get_next_16_boundary(x) \in Nat /\ G!get_next_16_boundary(x) % 16 = 0
  /\ G!get_next_16_boundary(0) = 0
BY DEF G!get_next_16_boundary

\* alignnode makes a node fit.
LEMMA AlignedFits ==
  ASSUME G!IsOptions(g_options), g_options.align \in G!Alignments,
         NEW n \in NodeRec, NEW x \in Nat, NEW r \in NodeRec,
         r.name = n.name, r.kind = n.kind,
         r.pad = G!Padding(n, n.offset, x), r.offset = n.offset + r.pad,
         x = IF r.kind = "reg" /\ r.orig_link = 0 THEN G!dumpri(r) ELSE 0,
         r.orig_link # 0 \/ r.kind \notin {"reg", "lnk"} => r.size = 0
  PROVE  Fit(g_options, r, n.offset)
<1> DEFINE a == AlignOf(g_options, n)
<1>1. G!findalign(n) = a
  BY DEF G!findalign, AlignOf
<1>2. AlignOf(g_options, r) = a
  BY DEF AlignOf
<1>3. a \in G!Alignments
  BY AlignOfIsAlignment
<1> HIDE DEF a
<1>4. n.offset \in Nat
  BY DEF NodeRec
<1>5. r.pad = IF (n.offset + x) % a = 0 THEN 0 ELSE a - ((n.offset + x) % a)
  BY <1>1 DEF G!Padding
<1> DEFINE y == n.offset + x
<1>6. y \in Nat
  BY <1>4
<1>7. r.pad \in Nat /\ r.pad < a /\ (y + r.pad) % a = 0
  <2> HIDE DEF y
  <2>1. LET p == IF y % a = 0 THEN 0 ELSE a - (y % a)
        IN  p \in Nat /\ p < a /\ (y + p) % a = 0
    BY <1>3, <1>6, PaddingAligns
  <2>2. r.pad = IF y % a = 0 THEN 0 ELSE a - (y % a)
    BY <1>5 DEF y
  <2> QED BY <2>1, <2>2
<1>8. r.offset + x = y + r.pad
  BY <1>4, <1>7
<1>9. (r.offset + x) % a = 0
  BY <1>7, <1>8
<1> QED BY <1>2, <1>7, <1>9 DEF Fit

\* The fields of a new node, without and with what lstat says.
LEMMA NewRecord ==
  ASSUME NEW name \in Names, NEW len \in Nat, NEW off \in Nat
  PROVE  LET n == G!newnode(name, len, off)
         IN  n \in NodeRec /\ n.kids = <<>> /\ n.size = 0 /\ n.orig_link = 0 /\ n.offset = off
<1> DEFINE m == G!newnode(name, len, off)
<1>1. m = [name |-> name, len |-> len, ino |-> 0, kind |-> "none", exec |-> FALSE, size |-> 0,
           offset |-> off, pad |-> 0, orig_link |-> 0, parent |-> 0, owner |-> 0, kids |-> <<>>]
  BY DEF G!newnode, G!Nil
<1>2. m \in NodeRec /\ m.kids = <<>> /\ m.size = 0 /\ m.orig_link = 0 /\ m.offset = off
  BY <1>1 DEF NodeRec
<1> QED BY <1>2

LEMMA NewNode ==
  ASSUME NEW name \in Names, NEW len \in Nat, NEW off \in Nat, NEW ino \in Nat,
         NEW st, st.kind \in G!Kinds, st.exec \in BOOLEAN
  PROVE  LET n == G!setnode(G!newnode(name, len, off), ino, st)
         IN  /\ n \in NodeRec /\ n.kids = <<>> /\ n.size = 0 /\ n.orig_link = 0 /\ n.offset = off
             /\ n.kind = st.kind /\ n.ino = ino
<1> DEFINE m == G!newnode(name, len, off)
<1>1. m \in NodeRec /\ m.kids = <<>> /\ m.size = 0 /\ m.orig_link = 0 /\ m.offset = off
  BY NewRecord
<1> HIDE DEF m
<1>2. [m EXCEPT !.ino = ino, !.kind = st.kind, !.exec = st.exec] \in NodeRec
  BY <1>1 DEF NodeRec
<1> QED BY <1>1, <1>2 DEF G!setnode, m, NodeRec

\* alignnode keeps the type of a node and changes its offset and padding.
LEMMA AlignedNode ==
  ASSUME G!IsOptions(g_options), g_options.align \in G!Alignments,
         NEW n \in NodeRec, NEW x \in Nat
  PROVE  LET a == G!alignnode(n, n.offset, x)
         IN  /\ a \in NodeRec /\ a.name = n.name /\ a.len = n.len /\ a.kind = n.kind /\ a.ino = n.ino
             /\ a.size = n.size /\ a.pad = G!Padding(n, n.offset, x) /\ a.pad \in Nat
             /\ a.offset = n.offset + a.pad /\ a.orig_link = n.orig_link /\ a.kids = n.kids
<1> DEFINE p == G!Padding(n, n.offset, x)
           q == n.offset + p
           a == [n EXCEPT !.offset = q, !.pad = p]
<1>1. p \in Nat
  <2>1. G!findalign(n) \in G!Alignments
    BY AlignOfIsAlignment DEF G!findalign, AlignOf
  <2>2. n.offset + x \in Nat
    BY DEF NodeRec
  <2> QED BY <2>1, <2>2, PaddingAligns DEF G!Padding
<1> HIDE DEF p
<1>2. q \in Nat
  BY <1>1 DEF NodeRec
<1> HIDE DEF q
<1>3. /\ a \in NodeRec /\ a.name = n.name /\ a.len = n.len /\ a.kind = n.kind /\ a.ino = n.ino
      /\ a.size = n.size /\ a.pad = p
      /\ a.offset = q /\ a.orig_link = n.orig_link /\ a.kids = n.kids
  BY <1>1, <1>2 DEF NodeRec
<1>4. G!alignnode(n, n.offset, x) = a
  BY DEF G!alignnode, p, q
<1> HIDE DEF a
<1> QED BY <1>1, <1>3, <1>4 DEF p, q

\* A node that becomes a link, and one that gets its size.
LEMMA LinkedNode ==
  ASSUME NEW n \in NodeRec, NEW l \in Nat
  PROVE  LET b == [n EXCEPT !.orig_link = l]
         IN  /\ b \in NodeRec /\ b.name = n.name /\ b.len = n.len /\ b.kind = n.kind /\ b.ino = n.ino
             /\ b.size = n.size /\ b.pad = n.pad
             /\ b.offset = n.offset /\ b.orig_link = l /\ b.kids = n.kids
BY DEF NodeRec

LEMMA SizedNode ==
  ASSUME NEW n \in NodeRec, NEW z \in Nat
  PROVE  LET b == [n EXCEPT !.size = z]
         IN  /\ b \in NodeRec /\ b.name = n.name /\ b.len = n.len /\ b.kind = n.kind /\ b.ino = n.ino
             /\ b.size = z /\ b.pad = n.pad
             /\ b.offset = n.offset /\ b.orig_link = n.orig_link /\ b.kids = n.kids
BY DEF NodeRec

\* The name, inode and status of an entry that is kept.
LEMMA SpecialTypes ==
  ASSUME g_host \in Host, NEW e \in G!EntriesOf(g_host), G!Special(e).name # ""
  PROVE  LET s == G!Special(e)
         IN  /\ s.name \in STRING /\ s.len \in Nat /\ s.ino \in Nat
             /\ s.st.kind \in G!Kinds /\ s.st.exec \in BOOLEAN /\ s.st.size \in Nat
             /\ s.st.kind = "dir" => s.ino \in DOMAIN g_host.list
<1> DEFINE st == g_host.stat[e.ino]
           St == [kind : G!Kinds, size : Nat, exec : BOOLEAN, to : Nat]
           type == CASE e.dev \in {"c", "u"} -> "chr" [] e.dev = "b" -> "blk" [] e.dev = "p" -> "fifo"
                     [] OTHER -> "none"
           none == [name |-> "", len |-> 0, ino |-> 0, st |-> st]
           X == IF st.to = 0 THEN none
                ELSE [name |-> e.plain.name, len |-> e.plain.len, ino |-> st.to, st |-> g_host.stat[st.to]]
           Y == IF type = "none" THEN none
                ELSE [name |-> e.plain.name, len |-> e.plain.len, ino |-> e.ino,
                      st |-> [st EXCEPT !.kind = type]]
           Z == [name |-> e.name, len |-> e.len, ino |-> e.ino, st |-> st]
           sp == G!Special(e)
           T == /\ sp.name \in STRING /\ sp.len \in Nat /\ sp.ino \in Nat
                /\ sp.st.kind \in G!Kinds /\ sp.st.exec \in BOOLEAN /\ sp.st.size \in Nat
                /\ sp.st.kind = "dir" => sp.ino \in DOMAIN g_host.list
           P == e.at /\ st.kind = "lnk"
           Q == e.at /\ st.kind = "reg" /\ st.size = 0 /\ e.dev # ""
<1>1. sp = CASE P -> X [] Q -> Y [] OTHER -> Z
  BY Zenon DEF G!Special, G!Nil
<1>2. sp.name # ""
  BY Zenon
<1>3. ~(P /\ Q)
  OBVIOUS
<1> HIDE DEF P, Q, X, Y, Z, sp
<1>4. /\ P => sp = X
      /\ Q => sp = Y
      /\ ~P /\ ~Q => sp = Z
  BY <1>1, <1>3
<1>5. G!IsHost(g_host)
  BY HostAndOptions
<1>6. ASSUME NEW i \in DOMAIN g_host.stat
      PROVE  /\ i \in Nat /\ g_host.stat[i] \in St
             /\ g_host.stat[i].to \in DOMAIN g_host.stat \cup {0}
             /\ g_host.stat[i].kind = "dir" => i \in DOMAIN g_host.list
  BY <1>5 DEF G!IsHost, G!Nil
<1>7. /\ e.name \in STRING /\ e.len \in Nat /\ e.ino \in DOMAIN g_host.stat
      /\ e.at => e.plain.name \in STRING /\ e.plain.len \in Nat
  BY <1>5 DEF G!IsHost
<1>8. ASSUME NEW s \in St
      PROVE  s.kind \in G!Kinds /\ s.exec \in BOOLEAN /\ s.size \in Nat
  BY DEF St
<1> HIDE DEF St
<1>9. ASSUME P PROVE T
  <2>1. sp = X
    BY <1>9, <1>4
  <2>2. st.to # 0
    BY <1>2, <2>1 DEF X
  <2>3. st.to \in DOMAIN g_host.stat /\ e.at
    BY <1>6, <1>7, <1>9, <2>2 DEF P
  <2>4. sp = [name |-> e.plain.name, len |-> e.plain.len, ino |-> st.to, st |-> g_host.stat[st.to]]
    BY <2>1, <2>2 DEF X
  <2>5. /\ sp.name = e.plain.name /\ sp.len = e.plain.len
        /\ sp.ino = st.to /\ sp.st = g_host.stat[st.to]
    BY <2>4
  <2> QED BY <1>6, <1>7, <1>8, <2>3, <2>5
<1>10. ASSUME Q PROVE T
  <2>1. type \in {"chr", "blk", "fifo", "none"}
    OBVIOUS
  <2>2. sp = Y
    BY <1>10, <1>4
  <2> HIDE DEF type
  <2>3. type # "none"
    BY <1>2, <2>2 DEF Y
  <2>4. type \in G!Kinds /\ type # "dir"
    BY <2>1, <2>3 DEF G!Kinds
  <2>5. st \in St /\ e.at
    BY <1>6, <1>7, <1>10 DEF Q
  <2> DEFINE t == [st EXCEPT !.kind = type]
  <2>6. t \in St /\ t.kind = type
    BY <2>4, <2>5 DEF St
  <2>7. sp = [name |-> e.plain.name, len |-> e.plain.len, ino |-> e.ino, st |-> t]
    BY <2>2, <2>3 DEF Y
  <2> HIDE DEF t
  <2>8. /\ sp.name = e.plain.name /\ sp.len = e.plain.len
        /\ sp.ino = e.ino /\ sp.st = t
    BY <2>7
  <2> QED BY <1>6, <1>7, <1>8, <2>4, <2>5, <2>6, <2>8
<1>11. ASSUME ~P /\ ~Q PROVE T
  <2>1. sp = Z
    BY <1>11, <1>4
  <2>2. /\ sp.name = e.name /\ sp.len = e.len
        /\ sp.ino = e.ino /\ sp.st = st
    BY <2>1 DEF Z
  <2> QED BY <1>6, <1>7, <1>8, <2>2
<1>12. T
  BY <1>9, <1>10, <1>11
<1> QED BY <1>12 DEF sp

\* The stack once the entry at its head is read.
Popped(st) == <<[Head(st) EXCEPT !.list = Tail(@)]>> \o Tail(st)

\* The head of the stack, and the stack once its entry is read.
LEMMA StackFacts ==
  ASSUME NEW h, NEW ns, Tree(ns), NEW st, Stacked(h, ns, st), st # <<>>
  PROVE  /\ 1 \in DOMAIN st /\ Head(st) = st[1] /\ Head(st) \in Frame(h, ns)
         /\ Head(st).dir \in DOMAIN ns /\ Real(ns, Head(st).dir) /\ Open(ns, Head(st).dir)
         /\ \A i \in DOMAIN st : st[i].dir \in DOMAIN ns /\ st[i].dir <= Head(st).dir
         /\ Tail(st) \in Seq(Frame(h, ns)) /\ Len(Tail(st)) = Len(st) - 1
         /\ \A i \in 1..(Len(st) - 1) : Tail(st)[i] = st[i + 1]
         /\ Head(st).list # <<>> =>
              /\ Head(Head(st).list) \in G!EntriesOf(h)
              /\ Popped(st) \in Seq(Frame(h, ns)) /\ Len(Popped(st)) = Len(st)
              /\ \A i \in DOMAIN st : Popped(st)[i].dir = st[i].dir
<1>1. st \in Seq(Frame(h, ns)) /\ Len(st) \in Nat /\ Len(st) >= 1 /\ DOMAIN st = 1..Len(st)
  BY DEF Stacked
<1>2. /\ 1 \in DOMAIN st /\ Head(st) = st[1] /\ Head(st) \in Frame(h, ns)
      /\ Tail(st) \in Seq(Frame(h, ns)) /\ Len(Tail(st)) = Len(st) - 1
      /\ \A i \in 1..(Len(st) - 1) : Tail(st)[i] = st[i + 1]
  BY <1>1
<1>3. \A i \in DOMAIN st : st[i] \in Frame(h, ns)
  BY <1>1
<1>4. \A f \in Frame(h, ns) : f.dir \in DOMAIN ns /\ f.list \in Seq(G!EntriesOf(h))
  BY DEF Frame
<1>5. Real(ns, Head(st).dir) /\ Open(ns, Head(st).dir)
  BY <1>2 DEF Stacked
<1>6. ASSUME NEW i \in DOMAIN st
      PROVE  st[i].dir \in DOMAIN ns /\ st[i].dir <= Head(st).dir
  <2>1. st[i].dir \in DOMAIN ns /\ Head(st).dir \in DOMAIN ns
    BY <1>2, <1>3, <1>4
  <2>2. DOMAIN ns \subseteq Nat
    BY TreeFacts
  <2>3. CASE i = 1
    <3>1. st[i].dir = Head(st).dir
      BY <1>2, <2>3
    <3> QED BY <2>1, <3>1, <2>2
  <2>4. CASE i # 1
    <3>1. 1 < i
      BY <1>1, <2>4
    <3>2. st[i].dir < st[1].dir
      BY <1>2, <3>1 DEF Stacked
    <3> QED BY <1>2, <2>1, <2>2, <3>2
  <2> QED BY <2>3, <2>4
<1>7. ASSUME Head(st).list # <<>>
      PROVE  /\ Head(Head(st).list) \in G!EntriesOf(h)
             /\ Popped(st) \in Seq(Frame(h, ns)) /\ Len(Popped(st)) = Len(st)
             /\ \A i \in DOMAIN st : Popped(st)[i].dir = st[i].dir
  <2> DEFINE f == [Head(st) EXCEPT !.list = Tail(Head(st).list)]
             nx == <<f>> \o Tail(st)
  <2>1. Head(st).list \in Seq(G!EntriesOf(h))
    BY <1>2, <1>4
  <2>2. Head(Head(st).list) \in G!EntriesOf(h) /\ Tail(Head(st).list) \in Seq(G!EntriesOf(h))
    BY <1>7, <2>1
  <2>3. f \in Frame(h, ns) /\ f.dir = Head(st).dir
    BY <1>2, <2>2 DEF Frame
  <2> HIDE DEF f
  <2>4. nx \in Seq(Frame(h, ns)) /\ Len(nx) = Len(st) /\ nx[1] = f /\ \A i \in 2..Len(st) : nx[i] = Tail(st)[i - 1]
    BY <1>1, <1>2, <2>3
  <2> HIDE DEF nx
  <2>5. ASSUME NEW i \in DOMAIN st PROVE nx[i].dir = st[i].dir
    <3>1. CASE i = 1
      BY <1>2, <2>3, <2>4, <3>1
    <3>2. CASE i # 1
      <4>1. i \in 2..Len(st) /\ i - 1 \in 1..(Len(st) - 1) /\ (i - 1) + 1 = i
        BY <1>1, <3>2
      <4> QED BY <1>2, <2>4, <4>1
    <3> QED BY <3>1, <3>2
  <2>6. Popped(st) = nx
    BY Zenon DEF Popped, nx, f
  <2> QED BY <2>2, <2>4, <2>5, <2>6
<1> QED BY <1>2, <1>4, <1>5, <1>6, <1>7

\* A stack of the same directories, in a tree that keeps them, and one with a new directory on top.
LEMMA StackKept ==
  ASSUME NEW h, NEW ns, NEW ms, DOMAIN ns = 1..Len(ns), DOMAIN ms = 1..Len(ms),
         Len(ns) \in Nat, Len(ms) \in Nat, Len(ns) <= Len(ms), Len(ns) >= 3,
         NEW st, Stacked(h, ns, st),
         \A i \in DOMAIN st : Real(ms, st[i].dir) /\ Open(ms, st[i].dir),
         NEW nx \in Seq(Frame(h, ns)), Len(nx) = Len(st), \A i \in DOMAIN st : nx[i].dir = st[i].dir
  PROVE  /\ Stacked(h, ms, nx)
         /\ \A l \in Seq(G!EntriesOf(h)) :
              Len(ns) < Len(ms) /\ Real(ms, Len(ms)) /\ Open(ms, Len(ms))
                => Stacked(h, ms, <<[dir |-> Len(ms), list |-> l]>> \o nx)
<1>1. Frame(h, ns) \subseteq Frame(h, ms) /\ \A f \in Frame(h, ns) : f.dir \in 1..Len(ns)
  BY DEF Frame
<1>2. st \in Seq(Frame(h, ns))
  BY DEF Stacked
<1>3. DOMAIN nx = 1..Len(nx) /\ DOMAIN st = 1..Len(nx) /\ Len(nx) \in Nat
  BY <1>2
<1>4. \A i \in DOMAIN nx : nx[i] \in Frame(h, ns) /\ nx[i] \in Frame(h, ms)
  BY <1>1, <1>3
<1>5. nx \in Seq(Frame(h, ms))
  BY <1>3, <1>4
<1>6. \A i \in DOMAIN nx : Real(ms, nx[i].dir) /\ Open(ms, nx[i].dir)
  BY <1>3
<1>7. \A i, j \in DOMAIN nx : i < j => nx[j].dir < nx[i].dir
  BY <1>3 DEF Stacked
<1>8. Stacked(h, ms, nx)
  BY <1>5, <1>6, <1>7 DEF Stacked
<1>9. ASSUME NEW l \in Seq(G!EntriesOf(h)), Len(ns) < Len(ms), Real(ms, Len(ms)), Open(ms, Len(ms))
      PROVE  Stacked(h, ms, <<[dir |-> Len(ms), list |-> l]>> \o nx)
  <2> DEFINE f == [dir |-> Len(ms), list |-> l]
             s == <<f>> \o nx
  <2>1. f \in Frame(h, ms) /\ f.dir = Len(ms)
    BY DEF Frame
  <2> HIDE DEF f
  <2>2. s \in Seq(Frame(h, ms)) /\ Len(s) = Len(nx) + 1 /\ s[1] = f /\ \A i \in 2..(Len(nx) + 1) : s[i] = nx[i - 1]
    BY <1>5, <2>1
  <2>3. DOMAIN s = 1..(Len(nx) + 1)
    BY <2>2
  <2> HIDE DEF s
  <2>4. ASSUME NEW i \in DOMAIN s
        PROVE  Real(ms, s[i].dir) /\ Open(ms, s[i].dir)
    <3>1. CASE i = 1
      BY <1>9, <2>1, <2>2, <3>1
    <3>2. CASE i # 1
      <4>1. i \in 2..(Len(nx) + 1) /\ i - 1 \in DOMAIN nx
        BY <1>3, <2>3, <3>2
      <4> QED BY <1>6, <2>2, <4>1
    <3> QED BY <3>1, <3>2
  <2>5. ASSUME NEW i \in DOMAIN s, NEW j \in DOMAIN s, i < j
        PROVE  s[j].dir < s[i].dir
    <3>1. j \in 2..(Len(nx) + 1) /\ j - 1 \in DOMAIN nx
      BY <1>3, <2>3, <2>5
    <3>2. s[j] = nx[j - 1] /\ s[j].dir \in 1..Len(ns)
      BY <1>1, <1>4, <2>2, <3>1
    <3>3. CASE i = 1
      BY <1>9, <2>1, <2>2, <3>2, <3>3
    <3>4. CASE i # 1
      <4>1. i \in 2..(Len(nx) + 1) /\ i - 1 \in DOMAIN nx /\ i - 1 < j - 1
        BY <1>3, <2>3, <2>5, <3>1, <3>4
      <4> QED BY <1>7, <2>2, <3>1, <3>2, <4>1
    <3> QED BY <3>3, <3>4
  <2>6. Stacked(h, ms, s)
    BY <2>2, <2>4, <2>5 DEF Stacked
  <2> QED BY <2>6 DEF s, f
<1> QED BY <1>8, <1>9

\* The stack once an entry is read, in the same tree.
LEMMA NextStacked ==
  ASSUME NEW h, NEW ns, Tree(ns), NEW st, Stacked(h, ns, st), st # <<>>, Head(st).list # <<>>
  PROVE  Stacked(h, ns, Popped(st))
<1> DEFINE nx == Popped(st)
<1>1. nx \in Seq(Frame(h, ns)) /\ Len(nx) = Len(st) /\ \A i \in DOMAIN st : nx[i].dir = st[i].dir
  BY StackFacts
<1> HIDE DEF nx
<1>2. DOMAIN ns = 1..Len(ns) /\ Len(ns) \in Nat
  BY TreeFacts
<1>3. Len(ns) >= 3 /\ \A i \in DOMAIN st : Real(ns, st[i].dir) /\ Open(ns, st[i].dir)
  BY DEF Stacked
<1>4. Len(ns) <= Len(ns)
  BY <1>2
<1>5. Stacked(h, ns, nx)
  BY <1>1, <1>2, <1>3, <1>4, StackKept
<1> QED BY <1>5 DEF nx

\* The tree and the stack once node n is added to the directory that is being read.
Added(h, o, ns, st, n) ==
  LET ms == G!append(ns, Head(st).dir, n)
  IN  /\ Tree(ms) /\ DirsOnly(ms) /\ Chained(o, ms) /\ G!After(ms[Len(ms)]) = G!After(n)
      /\ Stacked(h, ms, Popped(st))
      /\ \A l \in Seq(G!EntriesOf(h)) :
           n.kind = "dir" /\ n.orig_link = 0 => Stacked(h, ms, <<[dir |-> Len(ms), list |-> l]>> \o Popped(st))

LEMMA EntryAdded ==
  ASSUME NEW h, NEW o, NEW ns, Tree(ns), DirsOnly(ns), Chained(o, ns),
         NEW st, Stacked(h, ns, st), st # <<>>, Head(st).list # <<>>,
         NEW n \in NodeRec, n.kids = <<>>, Fit(o, n, G!After(ns[Len(ns)]))
  PROVE  Added(h, o, ns, st, n)
<1> DEFINE d == Head(st).dir
           ms == G!append(ns, d, n)
           nx == Popped(st)
<1>1. d \in DOMAIN ns /\ Real(ns, d) /\ Open(ns, d) /\ \A i \in DOMAIN st : st[i].dir \in DOMAIN ns /\ st[i].dir <= d
  BY StackFacts, Zenon
<1>2. nx \in Seq(Frame(h, ns)) /\ Len(nx) = Len(st) /\ \A i \in DOMAIN st : nx[i].dir = st[i].dir
  BY StackFacts
<1>3. ns \in Seq(NodeRec)
  BY DEF Tree
<1>4. Grown(ns, ms, d, n)
  BY <1>1, <1>3, AppendGrows
<1> HIDE DEF d, ms, nx
<1>5. Tree(ms) /\ (\A e \in DOMAIN ns : Open(ns, e) /\ e <= d => Open(ms, e)) /\ Open(ms, Len(ns) + 1)
  BY <1>1, <1>4, GrownTree
<1>6. DirsOnly(ms) /\ \A e \in DOMAIN ns : Real(ns, e) => Real(ms, e)
  BY <1>1, <1>4, GrownDirs
<1>7. Chained(o, ms) /\ G!After(ms[Len(ms)]) = G!After(n)
  BY <1>1, <1>4, GrownChain
<1>8. /\ DOMAIN ns = 1..Len(ns) /\ DOMAIN ms = 1..Len(ms) /\ Len(ns) \in Nat /\ Len(ms) \in Nat
      /\ Len(ms) = Len(ns) + 1 /\ Len(ns) >= 3
  BY <1>4, <1>5, TreeFacts DEF Grown, Stacked
<1>9. Len(ns) <= Len(ms) /\ Len(ns) < Len(ms) /\ Len(ms) >= 3
  BY <1>8
<1>10. \A i \in DOMAIN st : Real(ms, st[i].dir) /\ Open(ms, st[i].dir)
  BY <1>1, <1>5, <1>6 DEF Stacked
<1>11. n.kind = "dir" /\ n.orig_link = 0 => Real(ms, Len(ms))
  BY <1>4, <1>8, <1>9 DEF Grown, Same, Real
<1>12. Stacked(h, ms, nx)
  BY <1>2, <1>8, <1>9, <1>10, StackKept
<1>13. Open(ms, Len(ms))
  BY <1>5, <1>8
<1>14. ASSUME NEW l \in Seq(G!EntriesOf(h)), n.kind = "dir", n.orig_link = 0
       PROVE  Stacked(h, ms, <<[dir |-> Len(ms), list |-> l]>> \o nx)
  BY <1>2, <1>8, <1>9, <1>10, <1>11, <1>13, <1>14, StackKept
<1> QED BY <1>5, <1>6, <1>7, <1>12, <1>14 DEF Added, ms, nx, d

\* The second pass is at the next node of the tree, or at its end.
LEMMA NextWritten ==
  ASSUME NEW ns, Tree(ns), NEW m \in DOMAIN ns, NEW todo, Written(ns, todo, m)
  PROVE  /\ todo = <<>> => m = Len(ns)
         /\ todo # <<>> => /\ Head(todo) = m + 1 /\ m + 1 \in DOMAIN ns
                           /\ Written(ns, ns[m + 1].kids \o Tail(todo), m + 1)
<1>1. Len(ns) \in Nat /\ DOMAIN ns = 1..Len(ns) /\ m \in Nat
  BY TreeFacts
<1>2. todo \in Seq(DOMAIN ns) /\ DOMAIN todo = 1..Len(todo) /\ Len(todo) \in Nat
  BY DEF Written
<1>3. \A i \in DOMAIN todo : todo[i] \in DOMAIN ns /\ m < todo[i] /\ \E d \in 1..m : KidOf(ns, d, todo[i])
  BY <1>2 DEF Written
<1>4. \A i, j \in DOMAIN todo : i < j => todo[i] < todo[j]
  BY DEF Written, Ascends
<1>5. \A d \in 1..m : \A k \in DOMAIN ns : KidOf(ns, d, k) /\ m < k => \E i \in DOMAIN todo : todo[i] = k
  BY DEF Written
<1>6. ASSUME m # Len(ns)
      PROVE  \E i \in DOMAIN todo : todo[i] = m + 1
  <2>1. m + 1 \in DOMAIN ns /\ m + 1 # 1
    BY <1>1, <1>6
  <2>2. PICK d \in DOMAIN ns : KidOf(ns, d, m + 1)
    BY <2>1 DEF Tree
  <2>3. d < m + 1
    BY <2>2, TreeFacts
  <2>4. d \in 1..m /\ m < m + 1
    BY <1>1, <2>3
  <2> QED BY <1>5, <2>1, <2>2, <2>4
<1>7. ASSUME todo = <<>>
      PROVE  m = Len(ns)
  BY <1>6, <1>7
<1>8. ASSUME todo # <<>>
      PROVE  /\ Head(todo) = m + 1 /\ m + 1 \in DOMAIN ns
             /\ Written(ns, ns[m + 1].kids \o Tail(todo), m + 1)
  <2>1. 1 \in DOMAIN todo /\ Head(todo) = todo[1]
    BY <1>2, <1>8
  <2>2. todo[1] \in DOMAIN ns /\ m < todo[1]
    BY <1>3, <2>1
  <2>3. m # Len(ns)
    BY <1>1, <2>2
  <2>4. PICK i \in DOMAIN todo : todo[i] = m + 1
    BY <1>6, <2>3
  <2>5. i = 1
    <3>1. i # 1 => 1 < i
      BY <1>2
    <3> QED BY <1>1, <1>4, <2>1, <2>2, <2>4, <3>1
  <2>6. todo[1] = m + 1 /\ m + 1 \in DOMAIN ns
    BY <2>2, <2>4, <2>5
  <2> DEFINE a == ns[m + 1].kids
             b == Tail(todo)
             t == a \o b
  <2>7. a \in Seq(Nat)
    BY <2>6, TreeFacts
  <2>8. /\ DOMAIN a = 1..Len(a) /\ Len(a) \in Nat
        /\ \A j \in DOMAIN a : a[j] \in DOMAIN ns /\ m + 1 < a[j] /\ KidOf(ns, m + 1, a[j])
        /\ Ascends(a)
    <3>1. DOMAIN a = 1..Len(a) /\ Len(a) \in Nat
      BY <2>7
    <3>2. Ascends(a) /\ \A j \in DOMAIN a : a[j] \in DOMAIN ns /\ m + 1 < a[j]
      BY <2>6 DEF Tree
    <3>3. \A j \in DOMAIN a : KidOf(ns, m + 1, a[j])
      BY DEF KidOf
    <3> QED BY <3>1, <3>2, <3>3
  <2>9. b \in Seq(DOMAIN ns) /\ Len(b) = Len(todo) - 1 /\ \A j \in 1..(Len(todo) - 1) : b[j] = todo[j + 1]
    BY <1>2, <1>8
  <2>10. DOMAIN b = 1..Len(b) /\ DOMAIN b = 1..(Len(todo) - 1) /\ Len(b) \in Nat
    BY <2>9
  <2>11. \A k : KidOf(ns, m + 1, k) => \E j \in DOMAIN a : a[j] = k
    BY DEF KidOf
  <2> HIDE DEF a, b
  <2>12. a \in Seq(DOMAIN ns)
    <3>1. a = [j \in 1..Len(a) |-> a[j]]
      BY <2>7
    <3>2. a \in [1..Len(a) -> DOMAIN ns]
      BY <2>8, <3>1
    <3> QED BY <2>8, <3>2
  <2>13. /\ t \in Seq(DOMAIN ns) /\ Len(t) = Len(a) + Len(b)
         /\ \A j \in DOMAIN a : t[j] = a[j]
         /\ \A j \in DOMAIN b : t[Len(a) + j] = b[j]
    <3>1. t \in Seq(DOMAIN ns) /\ Len(t) = Len(a) + Len(b)
      BY <2>9, <2>12, ConcatProperties, Zenon
    <3>2. ASSUME NEW j \in DOMAIN a PROVE t[j] = a[j]
      BY <2>8, <2>9, <2>10, <2>12
    <3>3. ASSUME NEW j \in DOMAIN b PROVE t[Len(a) + j] = b[j]
      BY <2>8, <2>9, <2>10, <2>12
    <3> QED BY <3>1, <3>2, <3>3
  <2>14. DOMAIN t = 1..(Len(a) + Len(b)) /\ Len(b) \in Nat
    BY <2>9, <2>13
  <2> HIDE DEF t
  <2>15. ASSUME NEW j \in DOMAIN b
         PROVE  /\ b[j] \in DOMAIN ns /\ m + 1 < b[j] /\ \E d \in 1..m : KidOf(ns, d, b[j])
                /\ b[j] = todo[j + 1] /\ j + 1 \in DOMAIN todo
    <3>1. j + 1 \in DOMAIN todo /\ 1 < j + 1 /\ b[j] = todo[j + 1]
      BY <1>2, <2>9, <2>10
    <3> QED BY <1>3, <1>4, <2>1, <2>6, <3>1
  <2>16. ASSUME NEW j \in DOMAIN a, NEW k \in DOMAIN b
         PROVE  a[j] < b[k]
    <3>1. PICK d \in 1..m : KidOf(ns, d, b[k])
      BY <2>15
    <3>2. d \in DOMAIN ns /\ d < m + 1
      BY <1>1
    <3>3. \A x, e, y, z \in DOMAIN ns : KidOf(ns, x, y) /\ KidOf(ns, e, z) /\ x < e /\ e < y => z < y
      BY DEF Tree
    <3> QED BY <2>6, <2>8, <2>15, <3>1, <3>2, <3>3
  <2>17. ASSUME NEW j \in DOMAIN t
         PROVE  \/ j \in DOMAIN a
                \/ j - Len(a) \in DOMAIN b /\ t[j] = b[j - Len(a)] /\ Len(a) < j
    <3>1. CASE j <= Len(a)
      BY <2>8, <2>14, <3>1
    <3>2. CASE ~(j <= Len(a))
      <4>1. j - Len(a) \in DOMAIN b /\ Len(a) + (j - Len(a)) = j /\ Len(a) < j
        <5>1. \A x, y \in Nat : \A z \in 1..(x + y) : ~(z <= x) => z - x \in 1..y /\ x + (z - x) = z /\ x < z
          OBVIOUS
        <5>2. j \in 1..(Len(a) + Len(b)) /\ Len(a) \in Nat /\ Len(b) \in Nat
          BY <2>8, <2>14
        <5> QED BY <2>10, <3>2, <5>1, <5>2
      <4> QED BY <2>13, <4>1
    <3> QED BY <3>1, <3>2
  <2>18. Ascends(t)
    <3>1. ASSUME NEW j \in DOMAIN t, NEW k \in DOMAIN t, j < k
          PROVE  t[j] < t[k]
      <4>1. CASE k \in DOMAIN a
        <5>1. j \in DOMAIN a
          BY <2>8, <2>14, <3>1, <4>1
        <5> QED BY <2>8, <2>13, <3>1, <4>1, <5>1 DEF Ascends
      <4>2. CASE k \notin DOMAIN a /\ j \in DOMAIN a
        BY <2>13, <2>16, <2>17, <4>2
      <4>3. CASE k \notin DOMAIN a /\ j \notin DOMAIN a
        <5> DEFINE p == j - Len(a)
                   q == k - Len(a)
        <5>1. p \in DOMAIN b /\ q \in DOMAIN b /\ t[j] = b[p] /\ t[k] = b[q]
          BY <2>17, <4>3
        <5>2. p + 1 < q + 1
          BY <2>8, <2>14, <3>1
        <5> HIDE DEF p, q
        <5> QED BY <1>4, <2>15, <5>1, <5>2
      <4> QED BY <4>1, <4>2, <4>3
    <3> QED BY <3>1 DEF Ascends
  <2>19. ASSUME NEW j \in DOMAIN t
         PROVE  m + 1 < t[j] /\ \E d \in 1..(m + 1) : KidOf(ns, d, t[j])
    <3>1. CASE j \in DOMAIN a
      <4>1. m + 1 \in 1..(m + 1)
        BY <1>1
      <4> QED BY <2>8, <2>13, <3>1, <4>1
    <3>2. CASE j \notin DOMAIN a
      <4>1. j - Len(a) \in DOMAIN b /\ t[j] = b[j - Len(a)]
        BY <2>17, <3>2
      <4>2. PICK d \in 1..m : KidOf(ns, d, t[j])
        BY <2>15, <4>1
      <4>3. d \in 1..(m + 1)
        BY <1>1
      <4> QED BY <2>15, <4>1, <4>2, <4>3
    <3> QED BY <3>1, <3>2
  <2>20. ASSUME NEW d \in 1..(m + 1), NEW k \in DOMAIN ns, KidOf(ns, d, k), m + 1 < k
         PROVE  \E j \in DOMAIN t : t[j] = k
    <3>1. CASE d = m + 1
      <4>1. PICK j \in DOMAIN a : a[j] = k
        BY <2>11, <2>20, <3>1
      <4>2. j \in DOMAIN t
        BY <2>8, <2>14
      <4> QED BY <2>13, <4>1, <4>2
    <3>2. CASE d # m + 1
      <4>1. d \in 1..m /\ m < k
        BY <1>1, <2>20, <3>2
      <4>2. PICK j \in DOMAIN todo : todo[j] = k
        BY <1>5, <2>20, <4>1
      <4>3. j # 1
        BY <1>1, <2>6, <2>20, <4>2
      <4>4. j - 1 \in DOMAIN b /\ (j - 1) + 1 = j /\ j - 1 \in 1..(Len(todo) - 1)
        BY <1>2, <2>10, <4>3
      <4>5. b[j - 1] = k
        BY <2>9, <4>2, <4>4
      <4>6. Len(a) + (j - 1) \in DOMAIN t
        BY <2>8, <2>9, <2>10, <2>14, <4>4
      <4> QED BY <2>13, <4>4, <4>5, <4>6
    <3> QED BY <3>1, <3>2
  <2>21. Written(ns, t, m + 1)
    BY <2>13, <2>18, <2>19, <2>20 DEF Written
  <2> QED BY <2>1, <2>6, <2>21 DEF t, a, b
<1> QED BY <1>7, <1>8

\* What is written of a node is what the first pass reserved for it.
LEMMA WrittenLength ==
  ASSUME NEW o, NEW off, NEW n \in NodeRec, Fit(o, n, off), NEW g \in {0, n.size}
  PROVE  G!dumpri(n) + G!Contents(n, g) = G!spaceneeded(n) /\ G!Contents(n, g) \in Nat
<1> DEFINE c == G!get_next_16_boundary(n.size)
           e == G!get_next_16_boundary(n.len + 1)
<1>1. n.size \in Nat /\ n.len + 1 \in Nat /\ n.orig_link \in Nat
  BY DEF NodeRec
<1>2. c \in Nat /\ e \in Nat /\ g \in Nat
  BY <1>1, RoundedUp
<1>3. n.orig_link # 0 \/ n.kind \notin {"reg", "lnk"} => c = 0
  BY RoundedUp DEF Fit
<1>4. G!dumpri(n) = 16 + e /\ G!spaceneeded(n) = 16 + e + c
  BY DEF G!dumpri, G!spaceneeded
<1>5. G!Contents(n, g) = CASE n.orig_link # 0 -> 0 [] n.kind = "lnk" -> c [] n.kind = "reg" -> g + (c - g)
                             [] OTHER -> 0
  BY Zenon DEF G!Contents, G!Nil
<1> HIDE DEF c, e
<1>6. g + (c - g) = c
  BY <1>2
<1>7. G!Contents(n, g) = c
  <2>1. CASE n.orig_link # 0 /\ n.kind \notin {"reg", "lnk"}
    BY <1>3, <1>5, <2>1
  <2>2. CASE n.orig_link # 0 /\ n.kind \in {"reg", "lnk"}
    BY <1>3, <1>5, <1>6, <2>2
  <2>3. CASE n.orig_link = 0
    BY <1>3, <1>5, <1>6, <2>3
  <2> QED BY <2>1, <2>2, <2>3
<1> QED BY <1>2, <1>4, <1>7

\* The end of the image is rounded up to 1024 bytes.
LEMMA ImagePadded ==
  ASSUME NEW x \in Nat, x >= 16
  PROVE  LET y == x + ((1024 - (x % 1024)) % 1024)
         IN  y \in Nat /\ y >= 512 /\ y \in x..(x + 1023) /\ y % 1024 = 0
<1> DEFINE q == x \div 1024
           r == x % 1024
<1>1. q \in Nat /\ r \in 0..1023 /\ x = 1024 * q + r
  OBVIOUS
<1> HIDE DEF q, r
<1>2. CASE r = 0
  BY <1>1, <1>2 DEF r
<1>3. CASE r # 0
  <2>1. (1024 - r) % 1024 = 1024 - r
    BY <1>1, <1>3
  <2> QED BY <1>1, <1>3, <2>1 DEF r
<1> QED BY <1>2, <1>3

\* The offset after a node.
LEMMA AfterIsNat ==
  ASSUME NEW n \in NodeRec
  PROVE  G!After(n) \in Nat /\ G!spaceneeded(n) \in Nat /\ G!dumpri(n) \in Nat /\ G!After(n) >= 16
<1>1. n.offset \in Nat /\ n.size \in Nat /\ n.len + 1 \in Nat
  BY DEF NodeRec
<1>2. G!get_next_16_boundary(n.size) \in Nat /\ G!get_next_16_boundary(n.len + 1) \in Nat
  BY <1>1, RoundedUp
<1> QED BY <1>1, <1>2 DEF G!After, G!spaceneeded, G!dumpri

\* The tree with nothing but the volume.
LEMMA RootAlone ==
  LET ns == <<[G!newnode("rom", 12, 0) EXCEPT !.parent = 1, !.owner = 1]>>
  IN  /\ Tree(ns) /\ DirsOnly(ns) /\ Len(ns) = 1 /\ ns[1].kids = <<>>
      /\ \A o : Chained(o, ns)
      /\ G!spaceneeded(ns[1]) = G!After(ns[1])
<1> DEFINE m == G!newnode("rom", 12, 0)
           r == [m EXCEPT !.parent = 1, !.owner = 1]
           ns == <<r>>
<1>1. m \in NodeRec /\ m.kids = <<>> /\ m.offset = 0 /\ m.size = 0
  <2>1. "rom" \in Names
    BY DEF Names
  <2> QED BY <2>1, NewRecord
<1> HIDE DEF m
<1>2. r \in NodeRec /\ r.kids = <<>> /\ r.owner = 1 /\ r.parent = 1 /\ r.offset = 0 /\ r.size = 0
  BY <1>1 DEF NodeRec
<1> HIDE DEF r
<1>3. ns \in Seq(NodeRec) /\ Len(ns) = 1 /\ DOMAIN ns = {1} /\ ns[1] = r
  BY <1>2
<1> HIDE DEF ns
<1>4. \A d, k \in DOMAIN ns : ~KidOf(ns, d, k)
  BY <1>2, <1>3 DEF KidOf
<1>5. Tree(ns)
  BY <1>2, <1>3, <1>4 DEF Tree, Ascends
<1>6. DirsOnly(ns)
  BY <1>4 DEF DirsOnly
<1>7. \A o : Chained(o, ns)
  BY <1>2, <1>3 DEF Chained
<1>8. G!spaceneeded(r) = G!After(r)
  <2>1. G!spaceneeded(r) \in Nat
    BY <1>2, AfterIsNat
  <2> QED BY <1>2, <2>1 DEF G!After
<1> QED BY <1>2, <1>3, <1>5, <1>6, <1>7, <1>8 DEF ns, r, m

\* A node that owns another list is the same node.
LEMMA OwnerChanged ==
  ASSUME NEW o, NEW ns, Tree(ns), DirsOnly(ns), Chained(o, ns), NEW w \in DOMAIN ns
  PROVE  LET ms == [ns EXCEPT ![1].owner = w]
         IN  Tree(ms) /\ DirsOnly(ms) /\ Chained(o, ms) /\ Len(ms) = Len(ns) /\ G!After(ms[Len(ms)]) = G!After(ns[Len(ns)])
<1> DEFINE ms == [ns EXCEPT ![1].owner = w]
           r == [ns[1] EXCEPT !.owner = w]
<1>1. Len(ns) \in Nat /\ DOMAIN ns = 1..Len(ns) /\ 1 \in DOMAIN ns /\ \A k \in DOMAIN ns : ns[k] \in NodeRec
  BY TreeFacts
<1>2. w \in Nat
  BY <1>1
<1>3. r \in NodeRec /\ Same(ns[1], r) /\ r.kids = ns[1].kids /\ r.owner = w /\ r.parent = ns[1].parent
  <2>1. ASSUME NEW x \in NodeRec
        PROVE  LET y == [x EXCEPT !.owner = w]
               IN  y \in NodeRec /\ Same(x, y) /\ y.kids = x.kids /\ y.owner = w /\ y.parent = x.parent
    BY <1>2 DEF NodeRec, Same
  <2> QED BY <1>1, <2>1
<1>4. ms = [k \in 1..Len(ns) |-> IF k = 1 THEN r ELSE ns[k]]
  BY <1>1
<1> HIDE DEF r
<1>5. \A k \in DOMAIN ns : ms[k] = IF k = 1 THEN r ELSE ns[k]
  BY <1>1, <1>4
<1>6. ms \in Seq(NodeRec) /\ Len(ms) = Len(ns) /\ DOMAIN ms = DOMAIN ns
  <2>1. \A k \in 1..Len(ns) : ms[k] \in NodeRec
    BY <1>1, <1>3, <1>5
  <2>2. DOMAIN ms = 1..Len(ns) /\ ms = [k \in 1..Len(ns) |-> ms[k]]
    BY <1>4
  <2> HIDE DEF ms
  <2>3. ms \in [1..Len(ns) -> NodeRec]
    BY <2>1, <2>2
  <2>4. ms \in Seq(NodeRec)
    BY <1>1, <2>3
  <2> QED BY <1>1, <2>2, <2>4
<1> HIDE DEF ms
<1>7. \A k \in DOMAIN ns : Same(ns[k], ms[k]) /\ ms[k].kids = ns[k].kids
                           /\ ms[k].owner \in DOMAIN ns /\ ms[k].parent \in DOMAIN ns
  BY <1>3, <1>5 DEF Same, Tree
<1>8. \A d, k \in DOMAIN ns : KidOf(ms, d, k) <=> KidOf(ns, d, k)
  BY <1>7 DEF KidOf
<1>9. Tree(ms)
  <2>1. \A d \in DOMAIN ns : /\ Ascends(ns[d].kids)
                             /\ \A i \in DOMAIN ns[d].kids : ns[d].kids[i] \in DOMAIN ns /\ d < ns[d].kids[i]
    BY DEF Tree
  <2>2. \A k \in DOMAIN ns : k # 1 => \E d \in DOMAIN ns : KidOf(ms, d, k)
    BY <1>8 DEF Tree
  <2>3. \A d, e, j, k \in DOMAIN ns : KidOf(ms, d, j) /\ KidOf(ms, e, k) /\ d < e /\ e < j => k < j
    BY <1>8 DEF Tree
  <2>4. Len(ns) >= 1
    BY <1>1
  <2> QED BY <1>6, <1>7, <2>1, <2>2, <2>3, <2>4 DEF Tree
<1>10. DirsOnly(ms)
  BY <1>6, <1>7, <1>8 DEF DirsOnly, Real, Same
<1>11. ASSUME NEW x, NEW y, Same(x, y)
       PROVE  G!After(y) = G!After(x) /\ G!dumpri(y) = G!dumpri(x) /\ AlignOf(o, y) = AlignOf(o, x)
  BY <1>11 DEF Same, G!After, G!spaceneeded, G!dumpri, AlignOf
<1>12. ASSUME NEW k \in 2..Len(ns)
       PROVE  Fit(o, ms[k], G!After(ms[k - 1]))
  <2>1. k \in DOMAIN ns /\ k - 1 \in DOMAIN ns
    BY <1>1
  <2>2. G!After(ms[k - 1]) = G!After(ns[k - 1])
    BY <1>7, <1>11, <2>1
  <2>3. Fit(o, ns[k], G!After(ns[k - 1]))
    BY DEF Chained
  <2>4. ms[k] = ns[k]
    BY <1>5, <2>1
  <2> QED BY <2>2, <2>3, <2>4
<1>13. Chained(o, ms)
  BY <1>1, <1>6, <1>7, <1>12 DEF Chained, Same
<1>14. G!After(ms[Len(ms)]) = G!After(ns[Len(ns)])
  BY <1>1, <1>6, <1>7, <1>11
<1> QED BY <1>6, <1>9, <1>10, <1>13, <1>14 DEF ms

LEMMA OpenRoot ==
  ASSUME NEW ns, Tree(ns)
  PROVE  Open(ns, 1)
BY TreeFacts DEF Open

LEMMA FirstNode ==
  ASSUME GenromfsInv, G!main
  PROVE  GenromfsInv'
<1> USE DEF GenromfsInv, G!main, G!dump
<1>1. CASE g_options.align \in G!Alignments
  <2>1. g_nodes' = <<[G!newnode("rom", 12, 0) EXCEPT !.parent = 1, !.owner = 1]>> /\ g_pc' = "dots"
        /\ g_curroffset' = G!spaceneeded(g_nodes'[1])
    BY <1>1
  <2>2. /\ Tree(g_nodes') /\ DirsOnly(g_nodes') /\ Len(g_nodes') = 1 /\ g_nodes'[1].kids = <<>>
        /\ Chained(g_options, g_nodes') /\ G!spaceneeded(g_nodes'[1]) = G!After(g_nodes'[1])
    BY <2>1, RootAlone
  <2> QED BY <1>1, <2>1, <2>2
<1>2. CASE g_options.align \notin G!Alignments
  BY <1>2
<1> QED BY <1>1, <1>2

\* "." and ".." of the root.
LEMMA DotsAdded ==
  ASSUME GenromfsInv, G!AddDots
  PROVE  GenromfsInv'
<1> DEFINE st == g_host.stat[g_host.root]
           n1 == G!setnode(G!newnode(".", 1, g_curroffset), g_host.root, st)
           dot == G!alignnode(n1, g_curroffset, 0)
           off == G!After(dot)
           n2 == G!setnode(G!newnode("..", 2, off), 0, st)
           dot2 == G!alignnode(n2, off, 0)
           lnk == [dot2 EXCEPT !.orig_link = 2]
           ns == G!append(g_nodes, 1, dot)
           ms == [ns EXCEPT ![1].owner = 2]
           ks == G!append(ms, 1, lnk)
<1>1. /\ g_pc = "dots" /\ g_pc' = "scan" /\ g_host' = g_host /\ g_options' = g_options
      /\ g_image' = g_image /\ g_atoffs' = g_atoffs
      /\ g_nodes' = ks /\ g_curroffset' = G!After(dot2)
      /\ g_stack' = <<[dir |-> 1, list |-> g_host.list[g_host.root]]>>
  BY DEF G!AddDots, G!Nil, G!dump
<1>2. /\ g_host \in Host /\ g_options \in Options /\ g_options.align \in G!Alignments
      /\ Tree(g_nodes) /\ DirsOnly(g_nodes) /\ Chained(g_options, g_nodes)
      /\ g_curroffset = G!After(g_nodes[Len(g_nodes)])
      /\ Len(g_nodes) = 1 /\ g_image = {} /\ g_atoffs = 0
  BY <1>1 DEF GenromfsInv
<1>3. G!IsOptions(g_options) /\ G!IsHost(g_host)
  BY <1>2, HostAndOptions
<1>4. /\ st.kind \in G!Kinds /\ st.exec \in BOOLEAN /\ st.kind = "dir" /\ g_host.root \in Nat
      /\ g_host.list[g_host.root] \in Seq(G!EntriesOf(g_host))
  <2>1. g_host.root \in DOMAIN g_host.stat /\ st.kind = "dir"
    BY <1>3 DEF G!IsHost
  <2>2. /\ g_host.root \in Nat /\ st \in [kind : G!Kinds, size : Nat, exec : BOOLEAN, to : Nat]
        /\ g_host.root \in DOMAIN g_host.list
    BY <1>3, <2>1 DEF G!IsHost
  <2> QED BY <1>3, <2>1, <2>2 DEF G!IsHost
<1>5. \A k \in DOMAIN g_nodes : g_nodes[k] \in NodeRec
  BY <1>2, TreeFacts
<1>6. 1 \in DOMAIN g_nodes /\ Len(g_nodes) \in DOMAIN g_nodes
  BY <1>2, TreeFacts
<1>7. g_curroffset \in Nat
  BY <1>2, <1>5, <1>6, AfterIsNat
<1>8. n1 \in NodeRec /\ n1.kids = <<>> /\ n1.size = 0 /\ n1.orig_link = 0 /\ n1.offset = g_curroffset /\ n1.kind = "dir"
  <2>1. "." \in Names
    BY DEF Names
  <2> HIDE DEF st
  <2>2. ASSUME NEW z \in Nat, NEW y \in Nat, NEW t, t.kind \in G!Kinds, t.exec \in BOOLEAN, t.kind = "dir"
        PROVE  LET n == G!setnode(G!newnode(".", 1, y), z, t)
               IN  /\ n \in NodeRec /\ n.kids = <<>> /\ n.size = 0 /\ n.orig_link = 0 /\ n.offset = y
                   /\ n.kind = "dir"
    BY <2>1, <2>2, NewNode
  <2> QED BY <1>4, <1>7, <2>2
<1> HIDE DEF n1
<1>9. /\ dot \in NodeRec /\ dot.kids = <<>> /\ dot.kind = "dir" /\ dot.size = 0 /\ dot.orig_link = 0
      /\ dot.name = n1.name /\ dot.kind = n1.kind
      /\ dot.pad = G!Padding(n1, n1.offset, 0) /\ dot.pad \in Nat /\ dot.offset = n1.offset + dot.pad
  <2>1. dot = G!alignnode(n1, n1.offset, 0)
    BY <1>8
  <2> HIDE DEF dot
  <2>2. 0 \in Nat
    OBVIOUS
  <2> QED BY <1>2, <1>3, <1>8, <2>1, <2>2, AlignedNode
<1> HIDE DEF dot
<1>10. Fit(g_options, dot, g_curroffset)
  BY <1>2, <1>3, <1>8, <1>9, AlignedFits
<1>11. g_nodes \in Seq(NodeRec)
  BY <1>2 DEF Tree
<1>12. Grown(g_nodes, ns, 1, dot)
  BY <1>6, <1>9, <1>11, AppendGrows
<1> HIDE DEF ns
<1>13. Open(g_nodes, 1) /\ Real(g_nodes, 1)
  BY <1>2, OpenRoot DEF Real
<1>14. Tree(ns) /\ DirsOnly(ns)
  BY <1>2, <1>6, <1>12, <1>13, GrownTree, GrownDirs
<1>15. Chained(g_options, ns) /\ G!After(ns[Len(ns)]) = G!After(dot)
  BY <1>2, <1>6, <1>10, <1>12, GrownChain
<1>16. Len(ns) = 2 /\ DOMAIN ns = 1..2
  BY <1>2, <1>12, <1>14, TreeFacts DEF Grown
<1>17. /\ Tree(ms) /\ DirsOnly(ms) /\ Chained(g_options, ms) /\ Len(ms) = 2
       /\ G!After(ms[Len(ms)]) = off
  <2>1. 2 \in DOMAIN ns
    BY <1>16
  <2> QED BY <1>14, <1>15, <1>16, <2>1, OwnerChanged
<1> HIDE DEF ms
<1>18. off \in Nat
  BY <1>9, AfterIsNat
<1> HIDE DEF off
<1>19. n2 \in NodeRec /\ n2.kids = <<>> /\ n2.size = 0 /\ n2.orig_link = 0 /\ n2.offset = off /\ n2.kind = "dir"
  <2>1. ".." \in Names
    BY DEF Names
  <2> HIDE DEF st
  <2>2. ASSUME NEW z \in Nat
        PROVE  LET n == G!setnode(G!newnode("..", 2, off), z, st)
               IN  /\ n \in NodeRec /\ n.kids = <<>> /\ n.size = 0 /\ n.orig_link = 0 /\ n.offset = off
                   /\ n.kind = "dir"
    <3>1. ASSUME NEW y \in Nat, NEW t, t.kind \in G!Kinds, t.exec \in BOOLEAN, t.kind = "dir"
          PROVE  LET n == G!setnode(G!newnode("..", 2, y), z, t)
                 IN  /\ n \in NodeRec /\ n.kids = <<>> /\ n.size = 0 /\ n.orig_link = 0 /\ n.offset = y
                     /\ n.kind = "dir"
      BY <2>1, <3>1, NewNode
    <3>2. st.kind \in G!Kinds /\ st.exec \in BOOLEAN /\ st.kind = "dir"
      BY <1>4
    <3> QED BY <1>18, <3>1, <3>2
  <2> QED BY <2>2
<1> HIDE DEF n2
<1>20. /\ dot2 \in NodeRec /\ dot2.kids = <<>> /\ dot2.kind = "dir" /\ dot2.size = 0
       /\ dot2.name = n2.name /\ dot2.kind = n2.kind
       /\ dot2.pad = G!Padding(n2, n2.offset, 0) /\ dot2.pad \in Nat /\ dot2.offset = n2.offset + dot2.pad
  <2>1. dot2 = G!alignnode(n2, n2.offset, 0)
    BY <1>19
  <2> HIDE DEF dot2
  <2>2. 0 \in Nat
    OBVIOUS
  <2> QED BY <1>2, <1>3, <1>19, <2>1, <2>2, AlignedNode
<1> HIDE DEF dot2
<1>21. /\ lnk \in NodeRec /\ lnk.kids = <<>> /\ lnk.kind = "dir" /\ lnk.size = 0 /\ lnk.orig_link = 2
       /\ lnk.name = n2.name /\ lnk.kind = n2.kind
       /\ lnk.pad = G!Padding(n2, n2.offset, 0) /\ lnk.pad \in Nat /\ lnk.offset = n2.offset + lnk.pad
       /\ dot2.offset = lnk.offset /\ dot2.len = lnk.len /\ dot2.size = lnk.size
  <2>1. 2 \in Nat
    OBVIOUS
  <2> QED BY <1>20, <2>1, LinkedNode, SMTT(30)
<1> HIDE DEF lnk
<1>22. Fit(g_options, lnk, off)
  BY <1>2, <1>3, <1>19, <1>21, AlignedFits
<1>23. G!After(dot2) = G!After(lnk)
  BY <1>21 DEF G!After, G!spaceneeded
<1>24. ms \in Seq(NodeRec) /\ 1 \in DOMAIN ms
  BY <1>17, TreeFacts DEF Tree
<1>25. Grown(ms, ks, 1, lnk)
  BY <1>21, <1>24, AppendGrows
<1> HIDE DEF ks
<1>26. Open(ms, 1) /\ Real(ms, 1)
  BY <1>17, OpenRoot DEF Real
<1>27. Tree(ks) /\ DirsOnly(ks)
  BY <1>17, <1>24, <1>25, <1>26, GrownTree, GrownDirs
<1>28. Chained(g_options, ks) /\ G!After(ks[Len(ks)]) = G!After(lnk)
  <2>1. Fit(g_options, lnk, G!After(ms[Len(ms)]))
    BY <1>17, <1>22
  <2>2. Tree(ms) /\ Chained(g_options, ms)
    BY <1>17
  <2> QED BY <1>24, <1>25, <2>1, <2>2, GrownChain
<1>29. Len(ks) = 3 /\ 1 \in DOMAIN ks
  BY <1>17, <1>25, <1>27, TreeFacts DEF Grown
<1>30. Stacked(g_host, ks, <<[dir |-> 1, list |-> g_host.list[g_host.root]]>>)
  <2> DEFINE f == [dir |-> 1, list |-> g_host.list[g_host.root]]
             s == <<f>>
  <2>1. f \in Frame(g_host, ks) /\ f.dir = 1
    BY <1>4, <1>29 DEF Frame
  <2> HIDE DEF f
  <2>2. s \in Seq(Frame(g_host, ks)) /\ DOMAIN s = {1} /\ s[1] = f
    BY <2>1
  <2> HIDE DEF s
  <2>3. Open(ks, 1) /\ Real(ks, 1)
    BY <1>27, OpenRoot DEF Real
  <2>4. Stacked(g_host, ks, s)
    BY <1>29, <2>1, <2>2, <2>3 DEF Stacked
  <2> QED BY <2>4 DEF s, f
<1> QED BY <1>1, <1>2, <1>23, <1>27, <1>28, <1>30 DEF GenromfsInv

\* What is not added leaves the tree alone.
LEMMA EntrySkipped ==
  ASSUME GenromfsInv, G!NoSource \/ G!SkipDots \/ G!Ignore \/ G!EndDir
  PROVE  GenromfsInv'
<1>1. CASE G!NoSource
  BY <1>1 DEF GenromfsInv, G!NoSource, G!scan, G!dump
<1>2. CASE G!SkipDots \/ G!Ignore
  <2>1. /\ g_pc = "scan" /\ g_stack # <<>> /\ Head(g_stack).list # <<>> /\ g_stack' = Popped(g_stack)
        /\ UNCHANGED <<g_host, g_options, g_pc, g_nodes, g_curroffset, g_todo, g_atoffs, g_file, g_image>>
    BY <1>2 DEF G!SkipDots, G!Ignore, G!HasEntry, G!NextEntry, Popped, G!dump
  <2>2. Tree(g_nodes) /\ Stacked(g_host, g_nodes, g_stack)
    BY <2>1 DEF GenromfsInv
  <2>3. Stacked(g_host, g_nodes, g_stack')
    BY <2>1, <2>2, NextStacked
  <2> QED BY <2>1, <2>3 DEF GenromfsInv
<1>3. CASE G!EndDir
  <2>1. /\ g_pc = "scan" /\ g_stack # <<>> /\ g_stack' = Tail(g_stack) /\ g_pc' \in {"scan", "dumpall"}
        /\ UNCHANGED <<g_host, g_options, g_nodes, g_curroffset, g_todo, g_atoffs, g_file, g_image>>
    BY <1>3 DEF G!EndDir, G!dump
  <2>2. Tree(g_nodes) /\ Stacked(g_host, g_nodes, g_stack)
    BY <2>1 DEF GenromfsInv
  <2> DEFINE s == Tail(g_stack)
             F == Frame(g_host, g_nodes)
  <2>3. /\ s \in Seq(F) /\ Len(s) = Len(g_stack) - 1 /\ \A i \in 1..(Len(g_stack) - 1) : s[i] = g_stack[i + 1]
    BY <2>1, <2>2, StackFacts
  <2>4. g_stack \in Seq(F) /\ Len(g_stack) \in Nat /\ DOMAIN g_stack = 1..Len(g_stack)
    BY <2>2 DEF Stacked
  <2>5. DOMAIN s = 1..(Len(g_stack) - 1)
    BY <2>3
  <2> HIDE DEF s
  <2>6. \A i \in DOMAIN s : i + 1 \in DOMAIN g_stack /\ s[i] = g_stack[i + 1]
    BY <2>3, <2>4, <2>5
  <2>7. \A i \in DOMAIN s : Real(g_nodes, s[i].dir) /\ Open(g_nodes, s[i].dir)
    BY <2>2, <2>6 DEF Stacked
  <2>8. ASSUME NEW i \in DOMAIN s, NEW j \in DOMAIN s, i < j
        PROVE  s[j].dir < s[i].dir
    <3>1. i + 1 < j + 1
      BY <2>4, <2>5, <2>8
    <3> QED BY <2>2, <2>6, <3>1 DEF Stacked
  <2>9. Stacked(g_host, g_nodes, s)
    BY <2>2, <2>3, <2>7, <2>8 DEF Stacked
  <2>10. Stacked(g_host, g_nodes, g_stack')
    BY <2>1, <2>9 DEF s
  <2> QED BY <2>1, <2>10 DEF GenromfsInv
<1> QED BY <1>1, <1>2, <1>3

\* What an entry is a link to is a node, or nothing.
LEMMA LinkIsNode ==
  ASSUME Tree(g_nodes), G!Dir \in DOMAIN g_nodes, NEW e
  PROVE  G!LinkOf(e) \in Nat
<1>1. \A d \in DOMAIN g_nodes : g_nodes[d].owner \in DOMAIN g_nodes /\ g_nodes[d].parent \in DOMAIN g_nodes
  BY DEF Tree
<1>2. DOMAIN g_nodes \subseteq Nat
  BY TreeFacts
<1>3. G!findnode(e.ino) \in Nat
  <2> DEFINE f == {k \in DOMAIN g_nodes : g_nodes[k].ino = e.ino}
             P(x) == \A y \in f : x =< y
  <2>1. G!findnode(e.ino) = IF f = {} THEN 0 ELSE G!Min(f)
    BY Zenon DEF G!findnode, G!Nil
  <2>2. f \in SUBSET Nat
    BY <1>2
  <2> HIDE DEF f
  <2>3. ASSUME f # {}
        PROVE  G!Min(f) \in f
    <3>1. \E x \in f : P(x)
      BY <2>2, <2>3, LeastExists
    <3> HIDE DEF P
    <3>2. (CHOOSE x \in f : P(x)) \in f
      BY <3>1, Zenon
    <3> QED BY <3>2, Zenon DEF G!Min, P
  <2>4. CASE f = {}
    BY <2>1, <2>4
  <2>5. CASE f # {}
    BY <2>1, <2>2, <2>3, <2>5
  <2> QED BY <2>4, <2>5
<1>4. g_nodes[G!Dir].owner \in Nat /\ g_nodes[g_nodes[G!Dir].owner].parent \in Nat
  BY <1>1, <1>2
<1>5. \/ G!LinkOf(e) = g_nodes[G!Dir].owner
      \/ G!LinkOf(e) = g_nodes[g_nodes[G!Dir].owner].parent
      \/ G!LinkOf(e) = G!findnode(e.ino)
  BY DEF G!LinkOf
<1> QED BY <1>3, <1>4, <1>5

\* The node of an entry that is kept, and where it goes.
LEMMA EntryNode ==
  ASSUME GenromfsInv, G!Kept
  PROVE  /\ g_pc = "scan" /\ g_stack # <<>> /\ Head(g_stack).list # <<>>
         /\ g_host \in Host /\ G!IsHost(g_host)
         /\ G!IsOptions(g_options) /\ g_options.align \in G!Alignments
         /\ Tree(g_nodes) /\ DirsOnly(g_nodes) /\ Chained(g_options, g_nodes)
         /\ Stacked(g_host, g_nodes, g_stack)
         /\ g_curroffset = G!After(g_nodes[Len(g_nodes)]) /\ g_curroffset \in Nat
         /\ G!Dir = Head(g_stack).dir /\ G!Dir \in DOMAIN g_nodes
         /\ G!NextEntry = Popped(g_stack)
         /\ LET n == G!ThisNode
                s == G!Special(G!Entry)
            IN  /\ n \in NodeRec /\ n.kids = <<>> /\ n.size = 0 /\ n.orig_link = 0 /\ n.offset = g_curroffset
                /\ n.kind = s.st.kind /\ n.ino = s.ino /\ s.st.size \in Nat /\ s.st.kind \in G!Kinds
                /\ s.st.kind = "dir" => s.ino \in DOMAIN g_host.list
<1>1. g_pc = "scan" /\ g_stack # <<>> /\ Head(g_stack).list # <<>> /\ G!Special(G!Entry).name # ""
  BY DEF G!Kept, G!HasEntry
<1>2. /\ g_host \in Host /\ g_options \in Options /\ g_options.align \in G!Alignments
      /\ Tree(g_nodes) /\ DirsOnly(g_nodes) /\ Chained(g_options, g_nodes)
      /\ Stacked(g_host, g_nodes, g_stack) /\ g_curroffset = G!After(g_nodes[Len(g_nodes)])
  BY <1>1, ZenonT(30) DEF GenromfsInv
<1>3. G!IsHost(g_host) /\ G!IsOptions(g_options)
  BY <1>2, HostAndOptions
<1>4. g_curroffset \in Nat
  <2>1. Len(g_nodes) \in DOMAIN g_nodes
    BY <1>2, TreeFacts
  <2>2. g_nodes[Len(g_nodes)] \in NodeRec
    BY <1>2, <2>1, TreeFacts
  <2> QED BY <1>2, <2>2, AfterIsNat
<1>5. G!Dir = Head(g_stack).dir /\ G!NextEntry = Popped(g_stack)
  BY Zenon DEF G!Dir, G!NextEntry, Popped
<1>6. Head(g_stack).dir \in DOMAIN g_nodes /\ Head(Head(g_stack).list) \in G!EntriesOf(g_host)
  BY <1>1, <1>2, StackFacts
<1>7. G!Entry \in G!EntriesOf(g_host)
  BY <1>6 DEF G!Entry
<1> DEFINE s == G!Special(G!Entry)
<1>8. /\ s.name \in STRING /\ s.len \in Nat /\ s.ino \in Nat
      /\ s.st.kind \in G!Kinds /\ s.st.exec \in BOOLEAN /\ s.st.size \in Nat
      /\ s.st.kind = "dir" => s.ino \in DOMAIN g_host.list
  BY <1>1, <1>2, <1>7, SpecialTypes, Zenon
<1>9. G!ThisNode = G!setnode(G!newnode(s.name, s.len, g_curroffset), s.ino, s.st)
  BY Zenon DEF G!ThisNode
<1> HIDE DEF s
<1>10. s.name \in Names
  BY <1>8 DEF Names
<1>11. LET n == G!ThisNode
       IN  /\ n \in NodeRec /\ n.kids = <<>> /\ n.size = 0 /\ n.orig_link = 0 /\ n.offset = g_curroffset
           /\ n.kind = s.st.kind /\ n.ino = s.ino
  <2>1. ASSUME NEW name \in Names, NEW len \in Nat, NEW ino \in Nat, NEW st, st.kind \in G!Kinds, st.exec \in BOOLEAN
        PROVE  LET n == G!setnode(G!newnode(name, len, g_curroffset), ino, st)
               IN  /\ n \in NodeRec /\ n.kids = <<>> /\ n.size = 0 /\ n.orig_link = 0 /\ n.offset = g_curroffset
                   /\ n.kind = st.kind /\ n.ino = ino
    BY <1>4, <2>1, NewNode
  <2> QED BY <1>8, <1>9, <1>10, <2>1
<1> QED BY <1>1, <1>2, <1>3, <1>4, <1>5, <1>6, <1>8, <1>11 DEF s

LEMMA LinkAdded ==
  ASSUME GenromfsInv, G!AddLink
  PROVE  GenromfsInv'
<1> DEFINE t == G!ThisNode
           l == G!LinkOf(G!Special(G!Entry))
           a == G!alignnode(t, g_curroffset, 0)
           n == [a EXCEPT !.orig_link = l]
<1>1. /\ G!Kept /\ l # 0
      /\ g_nodes' = G!append(g_nodes, G!Dir, n) /\ g_curroffset' = G!After(n) /\ g_stack' = G!NextEntry
      /\ UNCHANGED <<g_host, g_options, g_pc, g_todo, g_atoffs, g_file, g_image>>
  BY DEF G!AddLink, G!Nil, G!dump
<1>2. /\ g_pc = "scan" /\ g_stack # <<>> /\ Head(g_stack).list # <<>>
      /\ G!IsOptions(g_options) /\ g_options.align \in G!Alignments
      /\ Tree(g_nodes) /\ DirsOnly(g_nodes) /\ Chained(g_options, g_nodes)
      /\ Stacked(g_host, g_nodes, g_stack)
      /\ g_curroffset = G!After(g_nodes[Len(g_nodes)])
      /\ G!Dir = Head(g_stack).dir /\ G!Dir \in DOMAIN g_nodes
      /\ G!NextEntry = Popped(g_stack)
  BY <1>1, EntryNode, Zenon
<1>3. t \in NodeRec /\ t.kids = <<>> /\ t.size = 0 /\ t.offset = g_curroffset
  BY <1>1, EntryNode, Zenon
<1>4. l \in Nat
  BY <1>2, LinkIsNode
<1> HIDE DEF t, l
<1>5. /\ a \in NodeRec /\ a.kids = <<>> /\ a.size = 0 /\ a.name = t.name /\ a.kind = t.kind
      /\ a.pad = G!Padding(t, t.offset, 0) /\ a.offset = t.offset + a.pad
  <2>1. a = G!alignnode(t, t.offset, 0)
    BY <1>3
  <2> HIDE DEF a
  <2>2. 0 \in Nat
    OBVIOUS
  <2> QED BY <1>2, <1>3, <2>1, <2>2, AlignedNode
<1> HIDE DEF a
<1>6. /\ n \in NodeRec /\ n.kids = <<>> /\ n.size = 0 /\ n.name = t.name /\ n.kind = t.kind
      /\ n.pad = G!Padding(t, t.offset, 0) /\ n.offset = t.offset + n.pad /\ n.orig_link = l
  BY <1>4, <1>5, LinkedNode
<1> HIDE DEF n
<1>7. Fit(g_options, n, t.offset)
  BY <1>1, <1>2, <1>3, <1>6, AlignedFits
<1>8. Fit(g_options, n, G!After(g_nodes[Len(g_nodes)]))
  BY <1>2, <1>3, <1>7
<1>9. Added(g_host, g_options, g_nodes, g_stack, n)
  BY <1>2, <1>6, <1>8, EntryAdded
<1>10. /\ Tree(g_nodes') /\ DirsOnly(g_nodes') /\ Chained(g_options, g_nodes')
       /\ G!After(g_nodes'[Len(g_nodes')]) = g_curroffset' /\ Stacked(g_host, g_nodes', g_stack')
  BY <1>1, <1>2, <1>9 DEF Added
<1> QED BY <1>1, <1>2, <1>10 DEF GenromfsInv

LEMMA NodeAdded ==
  ASSUME GenromfsInv, G!AddNode
  PROVE  GenromfsInv'
<1> DEFINE t == G!ThisNode
           s == G!Special(G!Entry)
           x == IF s.st.kind = "reg" THEN G!spaceneeded(t) ELSE 0
           z == IF s.st.kind \in {"reg", "lnk"} THEN s.st.size ELSE 0
           a == G!alignnode(t, g_curroffset, x)
           n == [a EXCEPT !.size = z]
<1>1. G!Placed(s.st) = n
  BY Zenon DEF G!Placed
<1>2. /\ G!Kept
      /\ g_nodes' = G!append(g_nodes, G!Dir, G!Placed(s.st)) /\ g_curroffset' = G!After(G!Placed(s.st))
      /\ \/ g_stack' = G!NextEntry
         \/ /\ G!Placed(s.st).kind = "dir"
            /\ \E list \in {g_host.list[G!Placed(s.st).ino], <<>>} :
                 g_stack' = <<[dir |-> Len(g_nodes'), list |-> list]>> \o G!NextEntry
      /\ UNCHANGED <<g_host, g_options, g_pc, g_todo, g_atoffs, g_file, g_image>>
  BY DEF G!AddNode, G!dump
<1>3. /\ g_pc = "scan" /\ g_stack # <<>> /\ Head(g_stack).list # <<>> /\ G!IsHost(g_host)
      /\ G!IsOptions(g_options) /\ g_options.align \in G!Alignments
      /\ Tree(g_nodes) /\ DirsOnly(g_nodes) /\ Chained(g_options, g_nodes)
      /\ Stacked(g_host, g_nodes, g_stack)
      /\ g_curroffset = G!After(g_nodes[Len(g_nodes)])
      /\ G!Dir = Head(g_stack).dir /\ G!Dir \in DOMAIN g_nodes
      /\ G!NextEntry = Popped(g_stack)
  BY <1>2, EntryNode, Zenon
<1>4. /\ t \in NodeRec /\ t.kids = <<>> /\ t.size = 0 /\ t.orig_link = 0 /\ t.offset = g_curroffset
      /\ t.kind = s.st.kind /\ t.ino = s.ino /\ s.st.size \in Nat
      /\ s.st.kind = "dir" => s.ino \in DOMAIN g_host.list
  BY <1>2, EntryNode, Zenon
<1> HIDE DEF t, s
<1>5. x \in Nat /\ z \in Nat
  BY <1>4, AfterIsNat
<1> HIDE DEF x, z
<1>6. /\ a \in NodeRec /\ a.kids = <<>> /\ a.orig_link = 0 /\ a.name = t.name /\ a.kind = t.kind /\ a.ino = t.ino
      /\ a.len = t.len
      /\ a.pad = G!Padding(t, t.offset, x) /\ a.offset = t.offset + a.pad
  <2>1. a = G!alignnode(t, t.offset, x)
    BY <1>4
  <2> HIDE DEF a
  <2> QED BY <1>3, <1>4, <1>5, <2>1, AlignedNode
<1> HIDE DEF a
<1>7. /\ n \in NodeRec /\ n.kids = <<>> /\ n.size = z /\ n.name = t.name /\ n.kind = t.kind /\ n.ino = t.ino
      /\ n.len = t.len
      /\ n.pad = G!Padding(t, t.offset, x) /\ n.offset = t.offset + n.pad /\ n.orig_link = 0
  BY <1>5, <1>6, SizedNode
<1> HIDE DEF n
<1>8. x = IF n.kind = "reg" /\ n.orig_link = 0 THEN G!dumpri(n) ELSE 0
  <2>1. G!spaceneeded(t) = G!dumpri(n)
    <3>1. t.len + 1 \in Nat
      BY <1>4 DEF NodeRec
    <3>2. G!get_next_16_boundary(t.len + 1) \in Nat /\ G!get_next_16_boundary(0) = 0
      BY <3>1, RoundedUp
    <3> QED BY <1>4, <1>7, <3>2 DEF G!spaceneeded, G!dumpri
  <2> QED BY <1>4, <1>7, <2>1 DEF x
<1>9. n.orig_link # 0 \/ n.kind \notin {"reg", "lnk"} => n.size = 0
  BY <1>4, <1>7 DEF z
<1>10. Fit(g_options, n, t.offset)
  BY <1>3, <1>4, <1>5, <1>7, <1>8, <1>9, AlignedFits
<1>11. Fit(g_options, n, G!After(g_nodes[Len(g_nodes)]))
  BY <1>3, <1>4, <1>10
<1>12. Added(g_host, g_options, g_nodes, g_stack, n)
  BY <1>3, <1>7, <1>11, EntryAdded
<1>13. g_nodes' = G!append(g_nodes, Head(g_stack).dir, n) /\ g_curroffset' = G!After(n)
  BY <1>1, <1>2, <1>3
<1>14. /\ Tree(g_nodes') /\ DirsOnly(g_nodes') /\ Chained(g_options, g_nodes')
       /\ G!After(g_nodes'[Len(g_nodes')]) = g_curroffset'
  BY <1>12, <1>13 DEF Added
<1>15. Stacked(g_host, g_nodes', g_stack')
  <2>1. CASE g_stack' = G!NextEntry
    BY <1>3, <1>12, <1>13, <2>1 DEF Added
  <2>2. CASE n.kind = "dir" /\ \E list \in {g_host.list[n.ino], <<>>} :
               g_stack' = <<[dir |-> Len(g_nodes'), list |-> list]>> \o G!NextEntry
    <3>1. PICK list \in {g_host.list[n.ino], <<>>} :
                 g_stack' = <<[dir |-> Len(g_nodes'), list |-> list]>> \o G!NextEntry
      BY <2>2
    <3>2. g_host.list[n.ino] \in Seq(G!EntriesOf(g_host))
      BY <1>3, <1>4, <1>7, <2>2 DEF G!IsHost
    <3>3. list \in Seq(G!EntriesOf(g_host))
      <4>1. <<>> \in Seq(G!EntriesOf(g_host))
        OBVIOUS
      <4> QED BY <3>1, <3>2, <4>1
    <3> QED BY <1>3, <1>7, <1>12, <1>13, <2>2, <3>1, <3>3 DEF Added
  <2> QED BY <1>1, <1>2, <2>1, <2>2
<1> QED BY <1>2, <1>3, <1>14, <1>15 DEF GenromfsInv

LEMMA DumpBegins ==
  ASSUME GenromfsInv, G!dumpall
  PROVE  GenromfsInv'
<1>1. /\ g_pc = "dumpall" /\ g_pc' = "dumpnode" /\ g_todo' = g_nodes[1].kids
      /\ g_atoffs' = g_atoffs + G!dumpri(g_nodes[1])
      /\ \A h \in g_image' : h.at = 0 /\ h.node = 1
      /\ UNCHANGED <<g_host, g_options, g_nodes, g_stack, g_curroffset>>
  BY DEF G!dumpall, G!dumpdata, G!scan
<1>2. /\ g_atoffs = 0 /\ Tree(g_nodes) /\ Chained(g_options, g_nodes)
  BY <1>1 DEF GenromfsInv
<1>3. 1 \in DOMAIN g_nodes /\ g_nodes[1] \in NodeRec /\ g_nodes[1].kids \in Seq(Nat)
  BY <1>2, TreeFacts
<1>4. g_nodes[1].offset = 0 /\ g_nodes[1].size = 0
  BY <1>2 DEF Chained
<1>5. g_atoffs' = G!After(g_nodes[1])
  <2>1. G!dumpri(g_nodes[1]) \in Nat
    BY <1>3, AfterIsNat
  <2>2. G!spaceneeded(g_nodes[1]) = G!dumpri(g_nodes[1])
    BY <1>4, <2>1, RoundedUp DEF G!spaceneeded, G!dumpri
  <2> QED BY <1>1, <1>2, <1>4, <2>1, <2>2 DEF G!After
<1>6. Written(g_nodes, g_nodes[1].kids, 1)
  <2> DEFINE s == g_nodes[1].kids
  <2>1. Ascends(s) /\ \A i \in DOMAIN s : s[i] \in DOMAIN g_nodes /\ 1 < s[i]
    BY <1>2, <1>3 DEF Tree
  <2>2. \A i \in DOMAIN s : KidOf(g_nodes, 1, s[i])
    BY DEF KidOf
  <2>3. \A k : KidOf(g_nodes, 1, k) => \E i \in DOMAIN s : s[i] = k
    BY DEF KidOf
  <2>4. DOMAIN s = 1..Len(s) /\ Len(s) \in Nat /\ s = [i \in 1..Len(s) |-> s[i]]
    BY <1>3
  <2> HIDE DEF s
  <2>5. s \in [1..Len(s) -> DOMAIN g_nodes]
    BY <2>1, <2>4
  <2>6. s \in Seq(DOMAIN g_nodes)
    BY <2>4, <2>5
  <2>7. 1..1 = {1}
    OBVIOUS
  <2>8. Written(g_nodes, s, 1)
    BY <2>1, <2>2, <2>3, <2>6, <2>7 DEF Written
  <2> QED BY <2>8 DEF s
<1>7. \E m \in DOMAIN g_nodes' : g_atoffs' = G!After(g_nodes'[m]) /\ Written(g_nodes', g_todo', m)
  BY <1>1, <1>3, <1>5, <1>6
<1>8. \A h \in g_image' : h.at = g_nodes'[h.node].offset
  BY <1>1, <1>4
<1> QED BY <1>1, <1>7, <1>8 DEF GenromfsInv

LEMMA NodeDumped ==
  ASSUME GenromfsInv, G!dumpnode
  PROVE  GenromfsInv'
<1> DEFINE n == g_nodes[Head(g_todo)]
<1>1. /\ g_pc = "dumpnode" /\ g_pc' = "dumpnode" /\ g_todo # <<>> /\ g_todo' = n.kids \o Tail(g_todo)
      /\ \E g \in {0, n.size} : g_atoffs' = g_atoffs + (n.pad + G!dumpri(n) + G!Contents(n, g))
      /\ g_image' = g_image \cup {G!Header(Head(g_todo), g_atoffs + n.pad)}
      /\ UNCHANGED <<g_host, g_options, g_nodes, g_stack, g_curroffset>>
  BY DEF G!dumpnode, G!dumpdata, G!scan
<1>2. Tree(g_nodes) /\ Chained(g_options, g_nodes)
  BY <1>1 DEF GenromfsInv
<1>3. PICK m \in DOMAIN g_nodes : g_atoffs = G!After(g_nodes[m]) /\ Written(g_nodes, g_todo, m)
  BY <1>1 DEF GenromfsInv
<1>4. /\ Head(g_todo) = m + 1 /\ m + 1 \in DOMAIN g_nodes
      /\ Written(g_nodes, g_nodes[m + 1].kids \o Tail(g_todo), m + 1)
  BY <1>1, <1>2, <1>3, NextWritten
<1>5. g_nodes[m] \in NodeRec /\ n \in NodeRec /\ n.pad \in Nat /\ m \in Nat /\ m + 1 \in 2..Len(g_nodes)
  BY <1>2, <1>4, TreeFacts
<1>6. Fit(g_options, n, g_atoffs)
  <2>1. Fit(g_options, g_nodes[m + 1], G!After(g_nodes[(m + 1) - 1]))
    BY <1>2, <1>5 DEF Chained
  <2>2. (m + 1) - 1 = m
    BY <1>5
  <2> QED BY <1>3, <1>4, <2>1, <2>2
<1>7. n.offset = g_atoffs + n.pad
  BY <1>6 DEF Fit
<1>8. g_atoffs \in Nat /\ G!spaceneeded(n) \in Nat /\ G!dumpri(n) \in Nat
  BY <1>3, <1>5, AfterIsNat
<1> HIDE DEF n
<1>9. g_atoffs' = G!After(n)
  <2>1. PICK g \in {0, n.size} : g_atoffs' = g_atoffs + (n.pad + G!dumpri(n) + G!Contents(n, g))
    BY <1>1
  <2>2. G!dumpri(n) + G!Contents(n, g) = G!spaceneeded(n) /\ G!Contents(n, g) \in Nat
    BY <1>5, <1>6, WrittenLength
  <2>3. n.pad + G!dumpri(n) + G!Contents(n, g) = n.pad + G!spaceneeded(n)
    BY <1>5, <1>8, <2>2
  <2> QED BY <1>5, <1>7, <1>8, <2>1, <2>3 DEF G!After
<1>10. \A h \in g_image' : h.at = g_nodes'[h.node].offset
  <2> DEFINE hd == G!Header(Head(g_todo), g_atoffs + n.pad)
  <2>1. hd.at = g_atoffs + n.pad /\ hd.node = Head(g_todo)
    BY DEF G!Header
  <2> HIDE DEF hd
  <2>2. hd.at = g_nodes[hd.node].offset
    BY <1>7, <2>1 DEF n
  <2>3. \A h \in g_image : h.at = g_nodes[h.node].offset
    BY DEF GenromfsInv
  <2>4. g_image' = g_image \cup {hd} /\ g_nodes' = g_nodes
    BY <1>1 DEF hd
  <2> QED BY <2>2, <2>3, <2>4
<1>11. \E k \in DOMAIN g_nodes' : g_atoffs' = G!After(g_nodes'[k]) /\ Written(g_nodes', g_todo', k)
  BY <1>1, <1>4, <1>9 DEF n
<1> QED BY <1>1, <1>10, <1>11 DEF GenromfsInv

LEMMA DumpEnds ==
  ASSUME GenromfsInv, G!PadImage
  PROVE  GenromfsInv'
<1> DEFINE x == g_curroffset
           y == x + ((1024 - (x % 1024)) % 1024)
<1>1. /\ g_pc = "dumpnode" /\ g_pc' = "done" /\ g_todo = <<>>
      /\ g_atoffs' = g_atoffs + ((1024 - (x % 1024)) % 1024)
      /\ g_file' = IF g_atoffs + ((1024 - (x % 1024)) % 1024) >= 512
                   THEN g_atoffs + ((1024 - (x % 1024)) % 1024) ELSE 0
      /\ UNCHANGED <<g_host, g_options, g_nodes, g_stack, g_curroffset, g_image>>
  BY DEF G!PadImage, G!dumpdata, G!scan
<1>2. Tree(g_nodes) /\ x = G!After(g_nodes[Len(g_nodes)])
  BY <1>1 DEF GenromfsInv
<1>3. PICK m \in DOMAIN g_nodes : g_atoffs = G!After(g_nodes[m]) /\ Written(g_nodes, g_todo, m)
  BY <1>1 DEF GenromfsInv
<1>4. m = Len(g_nodes)
  BY <1>1, <1>2, <1>3, NextWritten
<1>5. g_atoffs = x
  BY <1>2, <1>3, <1>4
<1>6. x \in Nat /\ x >= 16
  <2>1. g_nodes[m] \in NodeRec
    BY <1>2, TreeFacts
  <2> QED BY <1>3, <1>5, <2>1, AfterIsNat
<1>7. y \in Nat /\ y >= 512 /\ y \in x..(x + 1023) /\ y % 1024 = 0
  BY <1>6, ImagePadded
<1> HIDE DEF y
<1>8. g_atoffs' = y /\ g_file' = y
  <2>1. g_atoffs' = y /\ g_file' = IF y >= 512 THEN y ELSE 0
    BY <1>1, <1>5 DEF y
  <2> QED BY <1>7, <2>1
<1>9. g_file' = g_atoffs' /\ g_file' \in g_curroffset'..(g_curroffset' + 1023) /\ g_file' % 1024 = 0
  BY <1>1, <1>7, <1>8
<1> QED BY <1>1, <1>9 DEF GenromfsInv

(***************************************************************************)
(* The invariant of genromfs is inductive: the nodes are numbered in the   *)
(* order in which the second pass meets them, each begins where the one    *)
(* before it ends, and what is still to be written is what hangs below the *)
(* nodes written so far.                                                   *)
(***************************************************************************)
THEOREM GenromfsInvHolds == SequentialSpec => []GenromfsInv
<1>1. SequentialInit => GenromfsInv
  <2> SUFFICES ASSUME SequentialInit PROVE GenromfsInv
    OBVIOUS
  <2>1. G!Init
    BY InitOfParts
  <2> QED BY <2>1 DEF G!Init, GenromfsInv
<1>2. GenromfsInv /\ [SequentialNext]_allvars => GenromfsInv'
  <2> SUFFICES ASSUME GenromfsInv, [SequentialNext]_allvars PROVE GenromfsInv'
    OBVIOUS
  <2>1. G!Next \/ UNCHANGED gvars
    BY StepOfParts
  <2>2. CASE UNCHANGED gvars
    BY <2>2 DEF gvars, GenromfsInv
  <2>3. CASE G!Next
    <3>1. CASE G!main
      BY <3>1, FirstNode
    <3>2. CASE G!AddDots
      BY <3>2, DotsAdded
    <3>3. CASE G!NoSource \/ G!SkipDots \/ G!Ignore \/ G!EndDir
      BY <3>3, EntrySkipped
    <3>4. CASE G!AddLink
      BY <3>4, LinkAdded
    <3>5. CASE G!AddNode
      BY <3>5, NodeAdded
    <3>6. CASE G!dumpall
      BY <3>6, DumpBegins
    <3>7. CASE G!dumpnode
      BY <3>7, NodeDumped
    <3>8. CASE G!PadImage
      BY <3>8, DumpEnds
    <3> QED BY <2>3, <3>1, <3>2, <3>3, <3>4, <3>5, <3>6, <3>7, <3>8 DEF G!Next
  <2> QED BY <2>1, <2>2, <2>3
<1> QED BY <1>1, <1>2, PTL DEF SequentialSpec

(***************************************************************************)
(* Both passes of genromfs put each node at the same offset, for every     *)
(* tree of directories, links, devices and files and all alignments, and   *)
(* whatever is left of the files when the second pass reads them.          *)
(***************************************************************************)
THEOREM PassesDoAgree == SequentialSpec => []PassesAgree
<1>1. GenromfsInv => PassesAgree
  <2> SUFFICES ASSUME GenromfsInv PROVE G!PassesAgree
    BY DEF PassesAgree
  <2>1. \A h \in g_image : h.at = g_nodes[h.node].offset
    BY DEF GenromfsInv
  <2>2. ASSUME g_pc = "dumpnode"
        PROVE  /\ g_todo # <<>> => g_atoffs + g_nodes[Head(g_todo)].pad = g_nodes[Head(g_todo)].offset
               /\ g_todo = <<>> => g_atoffs = g_curroffset
    <3>1. /\ Tree(g_nodes) /\ Chained(g_options, g_nodes) /\ g_curroffset = G!After(g_nodes[Len(g_nodes)])
      BY <2>2 DEF GenromfsInv
    <3>2. PICK m \in DOMAIN g_nodes : g_atoffs = G!After(g_nodes[m]) /\ Written(g_nodes, g_todo, m)
      BY <2>2 DEF GenromfsInv
    <3>3. ASSUME g_todo # <<>>
          PROVE  g_atoffs + g_nodes[Head(g_todo)].pad = g_nodes[Head(g_todo)].offset
      <4>1. Head(g_todo) = m + 1 /\ m + 1 \in DOMAIN g_nodes
        BY <3>1, <3>2, <3>3, NextWritten
      <4>2. m \in Nat /\ m + 1 \in 2..Len(g_nodes) /\ (m + 1) - 1 = m
        BY <3>1, <4>1, TreeFacts
      <4>3. Fit(g_options, g_nodes[m + 1], G!After(g_nodes[(m + 1) - 1]))
        BY <3>1, <4>2 DEF Chained
      <4> QED BY <3>2, <4>1, <4>2, <4>3 DEF Fit
    <3>4. ASSUME g_todo = <<>>
          PROVE  g_atoffs = g_curroffset
      BY <3>1, <3>2, <3>4, NextWritten
    <3> QED BY <3>3, <3>4
  <2>3. g_pc = "done" =>
          g_file = g_atoffs /\ g_file \in g_curroffset..(g_curroffset + 1023) /\ g_file % 1024 = 0
    BY DEF GenromfsInv
  <2> QED BY <2>1, <2>2, <2>3 DEF G!PassesAgree
<1> QED BY <1>1, GenromfsInvHolds, PTL

\* Without subdirectories the root has all other nodes, in their order.
LEMMA FlatKids ==
  ASSUME NEW ns, Tree(ns), DirsOnly(ns),
         \A k \in 3..Len(ns) : ns[k].kind # "dir" \/ ns[k].orig_link # 0
  PROVE  LET s == ns[1].kids
         IN  Len(s) = Len(ns) - 1 /\ DOMAIN s = 1..(Len(ns) - 1) /\ \A p \in DOMAIN s : s[p] = p + 1
<1> DEFINE s == ns[1].kids
           N == Len(ns)
<1>1. N \in Nat /\ DOMAIN ns = 1..N /\ 1 \in DOMAIN ns /\ N >= 1
  BY TreeFacts DEF Tree
<1>2. s \in Seq(Nat)
  BY <1>1, TreeFacts
<1>3. DOMAIN s = 1..Len(s) /\ Len(s) \in Nat
  BY <1>2
<1>4. /\ \A i, j \in DOMAIN s : i < j => s[i] < s[j]
      /\ \A i \in DOMAIN s : s[i] \in DOMAIN ns /\ 1 < s[i]
  BY <1>1 DEF Tree, Ascends
<1>5. ASSUME NEW k \in DOMAIN ns, k # 1
      PROVE  \E i \in DOMAIN s : s[i] = k
  <2>1. PICK d \in DOMAIN ns : KidOf(ns, d, k)
    BY <1>5 DEF Tree
  <2>2. Real(ns, d)
    BY <2>1 DEF DirsOnly
  <2>3. d = 1
    <3>1. d >= 3 => d \in 3..Len(ns)
      BY <1>1
    <3> QED BY <2>2, <3>1 DEF Real
  <2> QED BY <2>1, <2>3 DEF KidOf
<1> HIDE DEF s, N
<1> DEFINE bad == {p \in DOMAIN s : s[p] # p + 1}
<1>6. ASSUME bad # {} PROVE FALSE
  <2>1. bad \in SUBSET Nat
    BY <1>3
  <2>2. PICK p \in bad : \A q \in bad : p =< q
    BY <1>6, <2>1, LeastExists
  <2>3. p \in DOMAIN s /\ s[p] # p + 1 /\ p \in Nat /\ p >= 1 /\ s[p] \in Nat
    BY <1>1, <1>3, <1>4, <2>2
  <2>4. \A q \in DOMAIN s : q < p => s[q] = q + 1
    BY <1>3, <2>2, <2>3
  <2>5. s[p] > p + 1
    <3>1. CASE p = 1
      BY <1>4, <2>3, <3>1
    <3>2. CASE p # 1
      <4>1. p - 1 \in DOMAIN s /\ p - 1 < p /\ (p - 1) + 1 = p
        BY <1>3, <2>3, <3>2
      <4>2. s[p - 1] = p
        BY <2>4, <4>1
      <4>3. s[p - 1] < s[p]
        BY <1>4, <2>3, <4>1
      <4> QED BY <2>3, <4>2, <4>3
    <3> QED BY <3>1, <3>2
  <2>6. p + 1 \in DOMAIN ns /\ p + 1 # 1
    <3>1. s[p] \in 1..N
      BY <1>1, <1>4, <2>3
    <3> QED BY <1>1, <2>3, <2>5, <3>1
  <2>7. PICK q \in DOMAIN s : s[q] = p + 1
    BY <1>5, <2>6
  <2>8. q \in Nat
    BY <1>3
  <2>9. ~(q < p)
    BY <2>3, <2>4, <2>7, <2>8
  <2>10. q # p /\ ~(p < q)
    <3>1. p < q => s[p] < s[q]
      BY <1>4, <2>3
    <3> QED BY <2>3, <2>5, <2>7, <3>1
  <2> QED BY <2>3, <2>8, <2>9, <2>10
<1>7. \A p \in DOMAIN s : s[p] = p + 1
  BY <1>6
<1>8. Len(s) = N - 1
  <2>1. CASE N = 1
    <3>1. Len(s) # 0 => 1 \in DOMAIN s
      BY <1>3
    <3>2. 1 \notin DOMAIN s
      BY <1>1, <1>4, <2>1
    <3> QED BY <1>3, <2>1, <3>1, <3>2
  <2>2. CASE N # 1
    <3>1. N \in DOMAIN ns
      BY <1>1
    <3>2. PICK p \in DOMAIN s : s[p] = N
      BY <1>5, <2>2, <3>1
    <3>3. N = p + 1 /\ p \in 1..Len(s)
      BY <1>3, <1>7, <3>2
    <3>4. Len(s) \in DOMAIN s
      BY <1>3, <3>3
    <3>5. Len(s) + 1 \in 1..N
      BY <1>1, <1>4, <1>7, <3>4
    <3> QED BY <1>1, <1>3, <3>3, <3>5
  <2> QED BY <2>1, <2>2
<1> QED BY <1>3, <1>7, <1>8 DEF s, N

\* With no option there is no padding, and every node begins at a multiple of 16.
LEMMA NoPadding ==
  ASSUME NEW o, G!IsOptions(o), o.align = 16, o.alignlist = {}, NEW ns, Tree(ns), Chained(o, ns)
  PROVE  \A k \in 2..Len(ns) : ns[k].offset = G!After(ns[k - 1])
<1>1. Len(ns) \in Nat /\ DOMAIN ns = 1..Len(ns) /\ 1 \in DOMAIN ns
  BY TreeFacts
<1>2. ASSUME NEW k \in DOMAIN ns
      PROVE  /\ ns[k] \in NodeRec /\ ns[k].offset \in Nat /\ ns[k].pad \in Nat
             /\ G!dumpri(ns[k]) \in Nat /\ G!dumpri(ns[k]) % 16 = 0
             /\ G!spaceneeded(ns[k]) \in Nat /\ G!spaceneeded(ns[k]) % 16 = 0
             /\ G!After(ns[k]) = ns[k].offset + G!spaceneeded(ns[k])
  <2>1. ns[k] \in NodeRec /\ ns[k].offset \in Nat /\ ns[k].pad \in Nat /\ ns[k].size \in Nat /\ ns[k].len + 1 \in Nat
    BY TreeFacts
  <2> DEFINE c == G!get_next_16_boundary(ns[k].size)
             e == G!get_next_16_boundary(ns[k].len + 1)
  <2>2. c \in Nat /\ c % 16 = 0 /\ e \in Nat /\ e % 16 = 0
    BY <2>1, RoundedUp
  <2>3. G!dumpri(ns[k]) = 16 + e /\ G!spaceneeded(ns[k]) = 16 + e + c
    BY DEF G!dumpri, G!spaceneeded
  <2> HIDE DEF c, e
  <2>4. (16 + e) % 16 = 0 /\ (16 + e + c) % 16 = 0 /\ 16 + e \in Nat /\ 16 + e + c \in Nat
    BY <2>2
  <2> QED BY <2>1, <2>3, <2>4 DEF G!After
<1>3. \A n : AlignOf(o, n) = 16
  <2>1. o.align \in G!Alignments
    BY DEF G!Alignments
  <2> QED BY <2>1, AlignOfIsAlignment
<1>4. ASSUME NEW k \in 2..Len(ns)
      PROVE  /\ ns[k].offset = G!After(ns[k - 1]) + ns[k].pad /\ ns[k].pad < 16
             /\ k \in DOMAIN ns /\ ns[k].offset % 16 = 0
  <2>1. k \in DOMAIN ns
    BY <1>1
  <2>2. Fit(o, ns[k], G!After(ns[k - 1]))
    BY DEF Chained
  <2>3. /\ ns[k].offset = G!After(ns[k - 1]) + ns[k].pad /\ ns[k].pad < 16
        /\ (ns[k].offset + IF ns[k].kind = "reg" /\ ns[k].orig_link = 0 THEN G!dumpri(ns[k]) ELSE 0) % 16 = 0
    BY <1>3, <2>2 DEF Fit
  <2>4. ns[k].offset \in Nat /\ G!dumpri(ns[k]) \in Nat /\ G!dumpri(ns[k]) % 16 = 0
    BY <1>2, <2>1
  <2>5. \A x, y \in Nat : y % 16 = 0 /\ ((x + y) % 16 = 0 \/ (x + 0) % 16 = 0) => x % 16 = 0
    OBVIOUS
  <2>6. ns[k].offset % 16 = 0
    BY <2>3, <2>4, <2>5
  <2> QED BY <2>1, <2>3, <2>6
<1>5. \A k \in DOMAIN ns : ns[k].offset % 16 = 0
  <2>1. ns[1].offset % 16 = 0
    BY DEF Chained
  <2>2. \A k \in DOMAIN ns : k = 1 \/ k \in 2..Len(ns)
    BY <1>1
  <2> QED BY <1>4, <2>1, <2>2
<1>6. ASSUME NEW k \in 2..Len(ns)
      PROVE  ns[k].offset = G!After(ns[k - 1])
  <2>1. k \in DOMAIN ns /\ k - 1 \in DOMAIN ns
    BY <1>1
  <2> DEFINE x == ns[k - 1].offset
             w == G!spaceneeded(ns[k - 1])
             p == ns[k].pad
             y == ns[k].offset
  <2>2. x \in Nat /\ w \in Nat /\ p \in Nat /\ y \in Nat /\ x % 16 = 0 /\ w % 16 = 0 /\ y % 16 = 0 /\ p < 16
        /\ y = (x + w) + p /\ G!After(ns[k - 1]) = x + w
    BY <1>2, <1>4, <1>5, <2>1
  <2> HIDE DEF x, w, p, y
  <2>3. p = 0
    BY <2>2
  <2>4. y = G!After(ns[k - 1])
    BY <2>2, <2>3
  <2> QED BY <2>4 DEF y
<1> QED BY <1>6

(***************************************************************************)
(* Whatever the options, the contents of files and the headers of the rest *)
(* are aligned as they say; and without options an image without           *)
(* subdirectories is laid out as the kernel's romfs takes it to be.        *)
(***************************************************************************)
THEOREM LayoutForKernel == SequentialSpec => []LaidOutForKernel
<1>1. GenromfsInv => LaidOutForKernel
  <2> SUFFICES ASSUME GenromfsInv PROVE G!LaidOutForKernel
    BY DEF LaidOutForKernel
  <2>1. G!Aligned
    <3> SUFFICES ASSUME NEW k \in 2..Len(g_nodes)
                 PROVE  LET n == g_nodes[k]
                        IN  (n.offset + IF n.kind = "reg" /\ n.orig_link = 0 THEN G!dumpri(n) ELSE 0)
                              % G!findalign(n) = 0
      BY DEF G!Aligned, G!Nil
    <3>1. g_pc \notin {"main", "exit"}
      BY DEF GenromfsInv
    <3>2. Chained(g_options, g_nodes)
      BY <3>1 DEF GenromfsInv
    <3>3. Fit(g_options, g_nodes[k], G!After(g_nodes[k - 1]))
      BY <3>2 DEF Chained
    <3>4. G!findalign(g_nodes[k]) = AlignOf(g_options, g_nodes[k])
      BY DEF G!findalign, AlignOf
    <3> QED BY <3>3, <3>4 DEF Fit
  <2> DEFINE s == g_nodes[1].kids
             r == [len   |-> g_nodes[1].len,
                   files |-> [k \in DOMAIN s |-> g_nodes[s[k]]],
                   at    |-> [k \in DOMAIN s |-> g_nodes[s[k]].offset] \o <<g_curroffset>>]
  <2>2. ASSUME g_pc = "done", Len(s) > 0, g_options.align = 16, g_options.alignlist = {},
               \A k \in 3..Len(g_nodes) : g_nodes[k].kind # "dir" \/ g_nodes[k].orig_link # 0
        PROVE  G!PlacedBy(r)
    <3> DEFINE N == Len(g_nodes)
               fs == [k \in DOMAIN s |-> g_nodes[s[k]]]
               os == [k \in DOMAIN s |-> g_nodes[s[k]].offset]
               at == os \o <<g_curroffset>>
    <3>1. /\ g_options \in Options /\ Tree(g_nodes) /\ DirsOnly(g_nodes) /\ Chained(g_options, g_nodes)
          /\ g_curroffset = G!After(g_nodes[N])
      BY <2>2 DEF GenromfsInv
    <3>2. G!IsOptions(g_options)
      BY <3>1, HostAndOptions
    <3>3. N \in Nat /\ DOMAIN g_nodes = 1..N /\ \A k \in 1..N : g_nodes[k] \in NodeRec /\ g_nodes[k].offset \in Nat
      BY <3>1, TreeFacts
    <3>4. Len(s) = N - 1 /\ DOMAIN s = 1..(N - 1) /\ \A p \in DOMAIN s : s[p] = p + 1
      BY <2>2, <3>1, FlatKids
    <3>5. \A k \in 2..N : g_nodes[k].offset = G!After(g_nodes[k - 1])
      BY <2>2, <3>1, <3>2, NoPadding
    <3>6. N >= 2
      <4>1. N \in Nat /\ Len(s) = N - 1 /\ Len(s) > 0
        BY <2>2, <3>3, <3>4
      <4> HIDE DEF N, s
      <4> QED BY <4>1
    <3>7. \A n : G!After(n) = n.offset + (16 + G!get_next_16_boundary(n.len + 1) + G!get_next_16_boundary(n.size))
      BY DEF G!After, G!spaceneeded
    <3> HIDE DEF s, N
    <3>8. fs = [k \in 1..(N - 1) |-> g_nodes[k + 1]] /\ os = [k \in 1..(N - 1) |-> g_nodes[k + 1].offset]
      BY <3>4
    <3> HIDE DEF fs, os
    <3>9. fs \in Seq(NodeRec) /\ Len(fs) = N - 1 /\ \A k \in 1..(N - 1) : fs[k] = g_nodes[k + 1]
      BY <3>3, <3>6, <3>8
    <3>10. os \in Seq(Nat) /\ Len(os) = N - 1 /\ \A k \in 1..(N - 1) : os[k] = g_nodes[k + 1].offset
      BY <3>3, <3>6, <3>8
    <3>11. g_curroffset \in Nat
      BY <3>1, <3>3, <3>6, AfterIsNat
    <3>12. at \in Seq(Nat) /\ Len(at) = N /\ at[N] = g_curroffset /\ \A k \in 1..(N - 1) : at[k] = g_nodes[k + 1].offset
      BY <3>3, <3>6, <3>10, <3>11
    <3> HIDE DEF at
    <3>13. at[1] = 16 + G!get_next_16_boundary(g_nodes[1].len + 1)
      <4>1. at[1] = g_nodes[2].offset /\ g_nodes[2].offset = G!After(g_nodes[1])
        <5>1. 1 \in 1..(N - 1) /\ 2 \in 2..N /\ 1 + 1 = 2 /\ 2 - 1 = 1
          BY <3>3, <3>6
        <5> QED BY <3>5, <3>12, <5>1
      <4>2. g_nodes[1].offset = 0 /\ g_nodes[1].size = 0
        BY <3>1 DEF Chained
      <4>3. g_nodes[1].len + 1 \in Nat
        BY <3>1, TreeFacts
      <4>4. G!get_next_16_boundary(g_nodes[1].len + 1) \in Nat /\ G!get_next_16_boundary(0) = 0
        BY <4>3, RoundedUp
      <4> QED BY <3>7, <4>1, <4>2, <4>4
    <3>14. ASSUME NEW k \in 1..(N - 1)
           PROVE  at[k + 1] = at[k] + 16 + G!get_next_16_boundary(fs[k].len + 1)
                                         + G!get_next_16_boundary(fs[k].size)
      <4> DEFINE n == g_nodes[k + 1]
      <4>1. at[k] = n.offset /\ fs[k] = n
        BY <3>9, <3>12
      <4>2. at[k + 1] = G!After(n)
        <5>1. CASE k = N - 1
          <6>1. k + 1 = N
            BY <3>3, <5>1
          <6> QED BY <3>1, <3>12, <6>1 DEF N
        <5>2. CASE k # N - 1
          <6>1. k + 1 \in 1..(N - 1) /\ (k + 1) + 1 \in 2..N /\ ((k + 1) + 1) - 1 = k + 1
            BY <3>3, <5>2
          <6>2. at[k + 1] = g_nodes[(k + 1) + 1].offset
            BY <3>12, <6>1
          <6> QED BY <3>5, <6>1, <6>2
        <5> QED BY <5>1, <5>2
      <4>3. n \in NodeRec /\ n.offset \in Nat /\ n.len + 1 \in Nat /\ n.size \in Nat
        <5>1. k + 1 \in DOMAIN g_nodes
          BY <3>3
        <5> QED BY <3>1, <5>1, TreeFacts
      <4> HIDE DEF n
      <4>4. G!get_next_16_boundary(n.len + 1) \in Nat /\ G!get_next_16_boundary(n.size) \in Nat
        BY <4>3, RoundedUp
      <4> QED BY <3>7, <4>1, <4>2, <4>3, <4>4
    <3>15. r.len = g_nodes[1].len /\ r.files = fs /\ r.at = at
      BY DEF fs, at, os
    <3> HIDE DEF r
    <3>16. Len(at) = Len(fs) + 1
      BY <3>3, <3>9, <3>12
    <3> QED BY <3>9, <3>13, <3>14, <3>15, <3>16 DEF G!PlacedBy
  <2> QED BY <2>1, <2>2 DEF G!LaidOutForKernel, G!Nil
<1> QED BY <1>1, GenromfsInvHolds, PTL
=============================================================================
