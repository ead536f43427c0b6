---------------------------- MODULE KernelProofs ----------------------------
(***************************************************************************)
(* Proofs about the parts of Sequential that run in the kernel.  The       *)
(* start-up, for every number of tasks and processes and every place the   *)
(* linker may give the tables: the screen of exception_handler shows the   *)
(* exception that happened, an open interrupt line is served, and what     *)
(* restart loads for a process is valid.  Formatted output, for every      *)
(* format and buffer: numbers read back from what is printed of them, and  *)
(* what is printed is what the format says.  Delays, for every word length *)
(* and clock rate: none ends early.                                        *)
(***************************************************************************)
EXTENDS Sequential, SequenceTheorems, WellFoundedInduction, TLAPS

\* Every set of naturals that is not empty has a least element.
LEMMA LeastExists ==
  ASSUME NEW S0 \in SUBSET Nat, S0 # {}
  PROVE  \E n \in S0 : \A m \in S0 : n =< m
<1> DEFINE R == {ss \in Nat \X Nat : ss[1] < ss[2]}
<1>1. IsWellFoundedOn(R, Nat)
  BY NatLessThanWellFounded, Zenon DEF OpToRel
<1>2. PICK n \in S0 : \A m \in S0 : ~ (<<m, n>> \in R)
  BY <1>1, WFMin, Zenon
<1>3. ASSUME NEW m \in S0 PROVE n =< m
  <2>1. <<m, n>> \in R <=> m < n
    OBVIOUS
  <2>2. ~ (m < n)
    BY <1>2, <2>1
  <2> QED BY <2>2
<1> QED BY <1>3, Zenon

\* A behaviour of the start-up begins in one of its initial states ...
LEMMA StartupInit ==
  ASSUME SequentialInit, part = "start-up" PROVE S!Init
BY DEF SequentialInit

\* ... and a step of the system is one of its steps or leaves it alone.
LEMMA StartupStep ==
  ASSUME [SequentialNext]_allvars PROVE part' = part /\ [S!Next]_svars
BY DEF SequentialNext, Still, allvars

----------------------------------------------------------------------------
(* The interrupt lines.                                                    *)

Chip ==
  [vector : Nat, cascade : Nat, expects : {"icw2", "icw3", "icw4", "ocw1"}, mask : SUBSET Int]

\* The 8259As after init_8259a: the vectors moved, every line masked or handled.
ChipsInv ==
  /\ s_m8259 \in Chip /\ s_s8259 \in Chip /\ DOMAIN s_irq_table = 0..15
  /\ s_pc = "idt" \/ s_idt_ptr = "kernel" =>
       /\ s_m8259.vector = 32 /\ s_s8259.vector = 40
       /\ \A n \in S!Unmasked : s_irq_table[n] # "spurious_irq"

\* The gates of the lines, and that the controllers are set up before there is an IDT.
HwintInv ==
  /\ s_pc \in {"protected_mode", "8259a"} => s_idt_ptr # "kernel"
  /\ s_idt_ptr = "kernel" => \A n \in 0..15 : s_idt[32 + n].handler = <<"hwint", n>>

LinesInv == ChipsInv /\ HwintInv

\* The lines of a chip.
AllLines == 0..7

\* 0xFF masks all eight lines of a chip.
LEMMA AllMasked ==
  {n \in 0..7 : (255 \div (2^n)) % 2 = 1} = AllLines
<1>1. /\ 2^0 = 1 /\ 2^1 = 2 /\ 2^2 = 4 /\ 2^3 = 8
      /\ 2^4 = 16 /\ 2^5 = 32 /\ 2^6 = 64 /\ 2^7 = 128
  BY SMT
<1>2. ASSUME NEW n \in 0..7
      PROVE  (255 \div (2^n)) % 2 = 1
  <2>1. n = 0 \/ n = 1 \/ n = 2 \/ n = 3 \/ n = 4 \/ n = 5 \/ n = 6 \/ n = 7
    BY SMT
  <2>2. /\ n = 0 => 2^n = 1
        /\ n = 1 => 2^n = 2
        /\ n = 2 => 2^n = 4
        /\ n = 3 => 2^n = 8
        /\ n = 4 => 2^n = 16
        /\ n = 5 => 2^n = 32
        /\ n = 6 => 2^n = 64
        /\ n = 7 => 2^n = 128
    BY <1>1, ZenonT(30)
  <2> DEFINE m == 2^n
  <2> HIDE DEF m
  <2>3. m = 1 \/ m = 2 \/ m = 4 \/ m = 8 \/ m = 16 \/ m = 32 \/ m = 64 \/ m = 128
    BY <2>1, <2>2, SMT DEF m
  <2>4. (255 \div m) % 2 = 1
    BY <2>3, SMT
  <2> QED
    BY <2>4, Zenon DEF m
<1> QED
  BY <1>2, Zenon DEF AllLines

\* The four bytes after ICW1 set the vectors and mask every line.
LEMMA ChipProgrammed ==
  ASSUME NEW chip \in Chip, NEW b \in Nat, NEW c \in Nat
  PROVE  /\ S!Programmed(chip, b, c) \in Chip
         /\ S!Programmed(chip, b, c).vector = b
         /\ S!Programmed(chip, b, c).mask = AllLines
<1> DEFINE c0 == S!Restarted(chip)
           c1 == S!Written(c0, b)
           c2 == S!Written(c1, c)
           c3 == S!Written(c2, 1)
           c4 == S!Written(c3, 255)
<1>1. c0 \in Chip /\ c0.expects = "icw2"
  BY DEF S!Restarted, Chip
<1> HIDE DEF c0
<1>2. c1 \in Chip /\ c1.expects = "icw3" /\ c1.vector = b
  <2>1. c1 = [c0 EXCEPT !.vector = b, !.expects = "icw3"]
    BY <1>1, Zenon DEF S!Written
  <2> HIDE DEF c1
  <2> QED
    BY <1>1, <2>1 DEF Chip
<1> HIDE DEF c1
<1>3. c2 \in Chip /\ c2.expects = "icw4" /\ c2.vector = b
  <2>1. c2 = [c1 EXCEPT !.cascade = c, !.expects = "icw4"]
    BY <1>2, Zenon DEF S!Written
  <2> HIDE DEF c2
  <2> QED
    BY <1>2, <2>1 DEF Chip
<1> HIDE DEF c2
<1>4. c3 \in Chip /\ c3.expects = "ocw1" /\ c3.vector = b
  <2>1. c3 = [c2 EXCEPT !.expects = "ocw1"]
    BY <1>3, Zenon DEF S!Written
  <2> HIDE DEF c3
  <2> QED
    BY <1>3, <2>1 DEF Chip
<1> HIDE DEF c3
<1>5. c4 \in Chip /\ c4.vector = b /\ c4.mask = AllLines
  <2>1. c4 = [c3 EXCEPT !.mask = {n \in 0..7 : (255 \div (2^n)) % 2 = 1}]
    BY <1>4, Zenon DEF S!Written
  <2>2. c4 = [c3 EXCEPT !.mask = AllLines]
    BY <2>1, AllMasked, Zenon
  <2> HIDE DEF c4
  <2> QED
    BY <1>4, <2>2 DEF Chip, AllLines
<1> QED
  BY <1>5, Zenon DEF S!Programmed, c0, c1, c2, c3

\* put_irq_handler and enable_irq open a line only with its handler.
LEMMA LineOpened ==
  ASSUME LinesInv, NEW irq \in 0..7, NEW handler, handler # "spurious_irq",
         S!put_irq_handler_then_enable(irq, handler),
         UNCHANGED <<s_idt, s_idt_ptr>>, s_pc' \notin {"idt", "protected_mode", "8259a"}
  PROVE  LinesInv'
<1>1. /\ s_irq_table' = [s_irq_table EXCEPT ![irq] = handler]
      /\ s_m8259' = [s_m8259 EXCEPT !.mask = @ \ {irq}] /\ s_s8259' = s_s8259
  BY DEF S!put_irq_handler_then_enable
<1>2. /\ s_m8259' \in Chip /\ s_s8259' \in Chip /\ DOMAIN s_irq_table' = 0..15
      /\ s_m8259'.vector = s_m8259.vector /\ s_m8259'.mask = s_m8259.mask \ {irq}
  BY <1>1 DEF LinesInv, ChipsInv, Chip
<1>3. ASSUME s_idt_ptr = "kernel", NEW n \in S!Unmasked'
      PROVE  s_irq_table'[n] # "spurious_irq"
  <2>1. CASE n = irq
    BY <1>1, <2>1 DEF LinesInv, ChipsInv
  <2>2. CASE n # irq
    <3>1. n \in 0..15 /\ n \in S!Unmasked
      BY <1>1, <1>2, <1>3, <2>2 DEF S!Unmasked
    <3> QED
      BY <1>1, <1>3, <2>2, <3>1 DEF LinesInv, ChipsInv
  <2> QED
    BY <2>1, <2>2
<1>4. ChipsInv'
  BY <1>1, <1>2, <1>3 DEF LinesInv, ChipsInv
<1> QED
  BY <1>4 DEF LinesInv, HwintInv

\* Steps that leave the controllers and the IDT alone keep the invariant.
LEMMA LinesUnchanged ==
  ASSUME LinesInv, UNCHANGED <<s_idt, s_idt_ptr, s_m8259, s_s8259, s_irq_table>>,
         s_pc' = s_pc \/ s_pc' \notin {"idt", "protected_mode", "8259a"}
  PROVE  LinesInv'
<1>1. S!Unmasked' = S!Unmasked
  BY DEF S!Unmasked
<1> QED
  BY <1>1 DEF LinesInv, ChipsInv, HwintInv

\* Every step keeps the invariant of the lines.
LEMMA LinesInvNext ==
  ASSUME LinesInv, [S!Next]_svars
  PROVE  LinesInv'
<1>1. CASE S!init_protected_mode_by_c
  <2>1. S!Unmasked' = S!Unmasked
    BY <1>1 DEF S!init_protected_mode_by_c, S!devices, S!Unmasked
  <2> QED
    BY <1>1, <2>1 DEF S!init_protected_mode_by_c, S!devices, LinesInv, ChipsInv, HwintInv
<1>2. CASE S!init_8259a
  <2>1. s_m8259' \in Chip /\ s_m8259'.vector = 32 /\ s_m8259'.mask = AllLines
    <3> DEFINE icw2 == 32
               icw3 == 4
               done == S!Programmed(s_m8259, icw2, icw3)
    <3>1. s_m8259 \in Chip /\ icw2 \in Nat /\ icw3 \in Nat
      BY DEF LinesInv, ChipsInv
    <3> HIDE DEF icw2, icw3
    <3>2. done \in Chip /\ done.vector = icw2 /\ done.mask = AllLines
      BY <3>1, ChipProgrammed
    <3>3. s_m8259' = done
      BY <1>2, Zenon DEF S!init_8259a, icw2, icw3
    <3> QED
      BY <3>2, <3>3, Zenon DEF icw2
  <2>2. s_s8259' \in Chip /\ s_s8259'.vector = 40 /\ s_s8259'.mask = AllLines
    <3> DEFINE icw2 == 40
               icw3 == 2
               done == S!Programmed(s_s8259, icw2, icw3)
    <3>1. s_s8259 \in Chip /\ icw2 \in Nat /\ icw3 \in Nat
      BY DEF LinesInv, ChipsInv
    <3> HIDE DEF icw2, icw3
    <3>2. done \in Chip /\ done.vector = icw2 /\ done.mask = AllLines
      BY <3>1, ChipProgrammed
    <3>3. s_s8259' = done
      BY <1>2, Zenon DEF S!init_8259a, icw2, icw3, S!Icw2Slave
    <3> QED
      BY <3>2, <3>3, Zenon DEF icw2
  <2>3. /\ s_pc = "8259a" /\ s_pc' = "idt" /\ DOMAIN s_irq_table' = 0..15
        /\ s_idt' = s_idt /\ s_idt_ptr' = s_idt_ptr
    BY <1>2, Zenon DEF S!init_8259a, S!tables
  <2>4. S!Unmasked' = {}
    BY <2>1, <2>2 DEF S!Unmasked, AllLines
  <2> QED
    BY <2>1, <2>2, <2>3, <2>4 DEF LinesInv, ChipsInv, HwintInv
<1>3. CASE S!init_idt_by_c
  <2>1. ASSUME NEW n \in 0..15
        PROVE  s_idt'[32 + n].handler = <<"hwint", n>>
    <3>1. 32 + n \in 32..47 /\ 32 + n \notin S!Exceptions /\ 32 + n # 144 /\ (32 + n) - 32 = n
      BY DEF S!Exceptions
    <3> QED
      BY <1>3, <3>1 DEF S!init_idt_by_c, S!init_idt_desc_by_c
  <2>2. UNCHANGED <<s_m8259, s_s8259, s_irq_table>> /\ s_pc = "idt" /\ s_pc' = "tss"
    BY <1>3 DEF S!init_idt_by_c, S!devices
  <2>3. S!Unmasked' = S!Unmasked
    BY <2>2 DEF S!Unmasked
  <2> QED
    BY <2>1, <2>2, <2>3 DEF LinesInv, ChipsInv, HwintInv
<1>4. CASE S!init_tss
  BY <1>4, LinesUnchanged DEF S!init_tss, S!devices
<1>5. CASE S!init_timer
  BY <1>5, LinesUnchanged DEF S!init_timer, S!tables
<1>6. CASE S!init_keyboard
  BY <1>6, LineOpened DEF S!init_keyboard, S!tables
<1>7. CASE S!ltr
  BY <1>7, LinesUnchanged DEF S!ltr, S!devices
<1>8. CASE S!EnableClock
  BY <1>8, LineOpened DEF S!EnableClock, S!tables
<1>9. CASE S!init_proc
  BY <1>9, LinesUnchanged DEF S!init_proc, S!tables, S!devices
<1>10. ASSUME NEW pid \in S!Pid, S!Fork(pid)
       PROVE  LinesInv'
  BY <1>10, LinesUnchanged DEF S!Fork, S!tables, S!devices
<1>11. CASE UNCHANGED svars
  BY <1>11, LinesUnchanged DEF svars, S!tables, S!devices
<1>12. ASSUME NEW v, NEW soft, NEW err, NEW eip, NEW i, S!Exception(v, soft, err, eip, i)
       PROVE  LinesInv'
  BY <1>12, LinesUnchanged DEF S!Exception, S!tables, S!devices
<1> QED
  BY <1>1, <1>2, <1>3, <1>4, <1>5, <1>6, <1>7, <1>8, <1>9, <1>10, <1>11, <1>12 DEF S!Next

(***************************************************************************)
(* Once the kernel has an IDT, the sixteen lines of the 8259As have sixteen *)
(* vectors with gates of their own, and a line that is not masked has a    *)
(* handler that was put there for it: init_8259a, init_idt_by_c and the    *)
(* put_irq_handler/enable_irq pairs agree.                                 *)
(***************************************************************************)
THEOREM OpenLinesServed == SequentialSpec => []LinesServed
<1> DEFINE Inv == part = "start-up" => LinesInv
<1>1. SequentialInit => Inv
  BY StartupInit DEF S!Init, LinesInv, ChipsInv, HwintInv, Chip, S!BiosMaster, S!BiosSlave
<1>2. Inv /\ [SequentialNext]_allvars => Inv'
  BY StartupStep, LinesInvNext
<1>3. Inv => LinesServed
  <2> SUFFICES ASSUME LinesInv, s_idt_ptr = "kernel"
               PROVE  S!LinesServed
    BY DEF LinesServed, S!LinesServed
  <2>1. \A n \in 0..15 : S!VectorOf(n) = 32 + n
    BY DEF LinesInv, ChipsInv, S!VectorOf
  <2> QED
    BY <2>1 DEF LinesInv, ChipsInv, HwintInv, S!LinesServed
<1> QED
  BY <1>1, <1>2, <1>3, PTL DEF SequentialSpec

----------------------------------------------------------------------------
(* The segments of the processes.                                          *)

Below4G == {b \in Nat : b < 4294967296}
Word == {w \in Nat : w < 65536}

\* The GDT has room for the loader's descriptors and an LDT for every process, and
\* the linker puts the tables below 4 GB.
TablesFit ==
  /\ S!StartupAssumption
  /\ GDT_SIZE \in Nat /\ 8 <= GDT_SIZE
  /\ S!INDEX_LDT_FIRST + NR_TASKS + NR_PROCS <= GDT_SIZE
  /\ tss_addr \in Below4G /\ \A i \in S!Pid : S!ldt_addr(i) \in Below4G

\* A number of 32 bits is put together again from its pieces.
LEMMA BasePieces ==
  ASSUME NEW b \in Nat, b < 4294967296
  PROVE  ((b \div 16777216) % 256) * 16777216 + ((b \div 65536) % 256) * 65536 + (b % 65536) = b
<1> DEFINE q == b \div 65536
           r == b % 65536
           h == b \div 16777216
<1>1. q \in Nat /\ r \in Nat /\ r < 65536 /\ b = 65536 * q + r
  BY SMT
<1>2. h \in Nat /\ h < 256 /\ h * 16777216 <= b /\ b < (h + 1) * 16777216
  BY SMT
<1> HIDE DEF q, r, h
<1>3. q % 256 = q - 256 * h
  BY <1>1, <1>2, SMT
<1>4. h % 256 = h
  BY <1>2, SMT
<1>5. (h % 256) * 16777216 + (q % 256) * 65536 + r = b
  BY <1>1, <1>2, <1>3, <1>4, SMT
<1> QED
  BY <1>5, SMT DEF q, r, h

\* The base of a descriptor is the one that was put in.
LEMMA BaseKept ==
  ASSUME NEW base \in Below4G, NEW limit, NEW attr
  PROVE  S!BaseOf(S!init_descriptor(base, limit, attr)) = base
<1> DEFINE d == S!init_descriptor(base, limit, attr)
<1>1. base \in Nat /\ base < 4294967296
  BY SMT DEF Below4G
<1>2. ((base \div 16777216) % 256) * 16777216 + ((base \div 65536) % 256) * 65536
        + (base % 65536) = base
  BY <1>1, BasePieces, SMT
<1>3. d.base_high = (base \div 16777216) % 256
  BY SMT DEF S!init_descriptor
<1>4. d.base_mid = (base \div 65536) % 256
  BY SMT DEF S!init_descriptor
<1>5. d.base_low = base % 65536
  BY SMT DEF S!init_descriptor
<1> QED
  BY <1>2, <1>3, <1>4, <1>5, SMT DEF S!BaseOf

\* A limit of 16 bits is put together again: the four bits above it are never set.
LEMMA LimitPieces ==
  ASSUME NEW limit \in Nat, limit < 65536, NEW attr \in Int
  PROVE  ((((attr \div 256) \div 16) * 16) % 16) * 65536 + (limit % 65536) = limit
<1> DEFINE n == (attr \div 256) \div 16
<1>1. n \in Int
  BY SMT
<1> HIDE DEF n
<1>2. (n * 16) % 16 = 0
  BY <1>1, SMT
<1>3. limit % 65536 = limit
  BY SMT
<1> QED
  BY <1>2, <1>3, SMT DEF n

\* A limit of 16 bits is the one that was put in, and attr1 the low byte of the attributes.
LEMMA LimitKept ==
  ASSUME NEW base, NEW limit \in Word, NEW attr \in Int
  PROVE  /\ S!LimitOf(S!init_descriptor(base, limit, attr)) = limit
         /\ S!init_descriptor(base, limit, attr).attr1 = attr % 256
<1> DEFINE d == S!init_descriptor(base, limit, attr)
<1>1. limit \in Nat /\ limit < 65536
  BY SMT DEF Word
<1>2. /\ d.limit_low = limit % 65536 /\ d.attr1 = attr % 256
      /\ d.limit_high_attr2 = ((attr \div 256) \div 16) * 16
  BY SMT DEF S!init_descriptor
<1>3. ((((attr \div 256) \div 16) * 16) % 16) * 65536 + (limit % 65536) = limit
  BY <1>1, LimitPieces, SMT
<1> HIDE DEF d
<1>4. S!LimitOf(d) = limit
  BY <1>2, <1>3, SMT DEF S!LimitOf
<1> QED
  BY <1>2, <1>4, SMT DEF d

\* The attributes of a 32-bit segment of a privilege, and their low byte.
LEMMA AttributeByte ==
  ASSUME NEW cpl \in {1, 3}
  PROVE  /\ S!DA_LIMIT_4K + S!DA_32 + S!DA_C + cpl * 32 \in Int
         /\ (S!DA_LIMIT_4K + S!DA_32 + S!DA_C + cpl * 32) % 256 = S!DA_C + cpl * 32
         /\ S!DA_LIMIT_4K + S!DA_32 + S!DA_DRW + cpl * 32 \in Int
         /\ (S!DA_LIMIT_4K + S!DA_32 + S!DA_DRW + cpl * 32) % 256 = S!DA_DRW + cpl * 32
<1>1. CASE cpl = 1
  BY <1>1, SMT DEF S!DA_LIMIT_4K, S!DA_32, S!DA_C, S!DA_DRW
<1>2. CASE cpl = 3
  BY <1>2, SMT DEF S!DA_LIMIT_4K, S!DA_32, S!DA_C, S!DA_DRW
<1> QED
  BY <1>1, <1>2, SMT

\* Code segments of a privilege, by their attribute byte.
LEMMA CodeOfPrivilege ==
  ASSUME NEW cpl \in {1, 3}, NEW d, d.attr1 = S!DA_C + cpl * 32
  PROVE  S!Present(d) /\ S!IsCode(d) /\ S!Dpl(d) = cpl
<1>1. d.attr1 = IF cpl = 1 THEN 184 ELSE 248
  BY DEF S!DA_C
<1> QED
  BY <1>1 DEF S!Present, S!IsCode, S!Dpl

\* Data segments of a privilege, by their attribute byte.
LEMMA DataOfPrivilege ==
  ASSUME NEW cpl \in {1, 3}, NEW d, d.attr1 = S!DA_DRW + cpl * 32
  PROVE  S!Present(d) /\ S!IsWritable(d) /\ S!Dpl(d) = cpl
<1>1. d.attr1 = IF cpl = 1 THEN 178 ELSE 242
  BY DEF S!DA_DRW
<1> QED
  BY <1>1 DEF S!Present, S!IsWritable, S!Dpl

\* A pair of a code and a data segment for the same memory.
SegmentPair(ldt, cpl) ==
  /\ S!Present(ldt[1]) /\ S!IsCode(ldt[1]) /\ S!Dpl(ldt[1]) = cpl
  /\ S!Present(ldt[2]) /\ S!IsWritable(ldt[2]) /\ S!Dpl(ldt[2]) = cpl
  /\ S!BaseOf(ldt[1]) = S!BaseOf(ldt[2]) /\ S!LimitOf(ldt[1]) = S!LimitOf(ldt[2])

\* The two descriptors that init_proc gives INIT and do_fork gives a child.
LEMMA PairMade ==
  ASSUME NEW cpl \in {1, 3}, NEW base \in Below4G, NEW limit \in Word,
         NEW c, c = S!DA_LIMIT_4K + S!DA_32 + S!DA_C + cpl * 32,
         NEW d, d = S!DA_LIMIT_4K + S!DA_32 + S!DA_DRW + cpl * 32,
         NEW code, code = S!init_descriptor(base, limit, c),
         NEW data, data = S!init_descriptor(base, limit, d)
  PROVE  SegmentPair(<<code, data>>, cpl) /\ S!BaseOf(<<code, data>>[2]) = base
<1>1. c \in Int /\ c % 256 = S!DA_C + cpl * 32 /\ d \in Int /\ d % 256 = S!DA_DRW + cpl * 32
  BY AttributeByte
<1>2. /\ code.attr1 = S!DA_C + cpl * 32 /\ data.attr1 = S!DA_DRW + cpl * 32
      /\ S!LimitOf(code) = limit /\ S!LimitOf(data) = limit
  BY <1>1, LimitKept
<1>3. S!BaseOf(code) = base /\ S!BaseOf(data) = base
  BY BaseKept
<1>4. S!Present(code) /\ S!IsCode(code) /\ S!Dpl(code) = cpl
  BY <1>2, CodeOfPrivilege
<1>5. S!Present(data) /\ S!IsWritable(data) /\ S!Dpl(data) = cpl
  BY <1>2, DataOfPrivilege
<1>6. <<code, data>>[1] = code /\ <<code, data>>[2] = data
  OBVIOUS
<1> QED
  BY <1>2, <1>3, <1>4, <1>5, <1>6, Zenon DEF SegmentPair

\* A segment of all 4 GB with attribute byte a.
Flat(a) ==
  [limit_low |-> 65535, base_low |-> 0, base_mid |-> 0, attr1 |-> a,
   limit_high_attr2 |-> 207, base_high |-> 0]

\* The parts of the loader's GDT that the kernel keeps using.
LEMMA LoaderEntries ==
  /\ Len(S!LoaderGdt) = 8
  /\ S!LoaderGdt[2] = Flat(154) /\ S!LoaderGdt[3] = Flat(146) /\ S!LoaderGdt[4].attr1 = 242
<1> DEFINE c == S!DA_CR + S!DA_32 + S!DA_LIMIT_4K
           d == S!DA_DRW + S!DA_32 + S!DA_LIMIT_4K
           v == S!DA_DRW + 96
<1>1. S!LoaderDescriptor(0, 1048575, c) = Flat(154)
  BY SMT DEF S!LoaderDescriptor, S!init_descriptor, Flat, S!DA_CR, S!DA_32, S!DA_LIMIT_4K
<1>2. S!LoaderDescriptor(0, 1048575, d) = Flat(146)
  BY SMT DEF S!LoaderDescriptor, S!init_descriptor, Flat, S!DA_DRW, S!DA_32, S!DA_LIMIT_4K
<1>3. S!LoaderDescriptor(753664, 65535, v).attr1 = 242
  BY SMT DEF S!LoaderDescriptor, S!init_descriptor, S!DA_DRW
<1> HIDE DEF c, d, v
<1> QED
  BY <1>1, <1>2, <1>3, SMT DEF S!LoaderGdt, c, d, v

\* The kernel's own segments with another privilege.
LEMMA KernelPair ==
  ASSUME NEW cpl \in {1, 3}, NEW code, code = [Flat(154) EXCEPT !.attr1 = S!DA_C + cpl * 32],
         NEW data, data = [Flat(146) EXCEPT !.attr1 = S!DA_DRW + cpl * 32]
  PROVE  SegmentPair(<<code, data>>, cpl) /\ S!BaseOf(<<code, data>>[2]) = 0
<1>1. code = Flat(S!DA_C + cpl * 32) /\ data = Flat(S!DA_DRW + cpl * 32)
  BY SMT DEF Flat
<1>2. /\ code.attr1 = S!DA_C + cpl * 32 /\ data.attr1 = S!DA_DRW + cpl * 32
      /\ S!BaseOf(code) = 0 /\ S!BaseOf(data) = 0 /\ S!LimitOf(code) = S!LimitOf(data)
  BY <1>1, SMT DEF Flat, S!BaseOf, S!LimitOf
<1>3. S!Present(code) /\ S!IsCode(code) /\ S!Dpl(code) = cpl
  BY <1>2, CodeOfPrivilege, ZenonT(30)
<1>4. S!Present(data) /\ S!IsWritable(data) /\ S!Dpl(data) = cpl
  BY <1>2, DataOfPrivilege, ZenonT(30)
<1>5. <<code, data>>[1] = code /\ <<code, data>>[2] = data
  OBVIOUS
<1> QED
  BY <1>2, <1>3, <1>4, <1>5, Zenon DEF SegmentPair

(***************************************************************************)
(* The inductive invariant.  What a function of the start-up has set holds *)
(* at every later step and for as long as there is a process; an exception *)
(* may stop the start-up anywhere.                                         *)
(***************************************************************************)
AfterTss == {"timer", "keyboard", "ltr", "clock", "proc", "run"}
AfterGdt == {"8259a", "idt", "tss"} \cup AfterTss
AfterLtr == {"clock", "proc", "run"}

GdtInv ==
  /\ DOMAIN s_gdt = 0..(GDT_SIZE - 1)
  /\ s_pc \in AfterGdt \/ S!Live # {} =>
       s_gdt[1] = Flat(154) /\ s_gdt[2] = Flat(146) /\ s_gdt[3].attr1 = 242

SystemInv ==
  /\ s_pc \in AfterTss \/ S!Live # {} =>
       /\ s_tss.ss0 = S!SELECTOR_KERNEL_DS
       /\ s_gdt[S!INDEX_TSS] = S!init_descriptor(tss_addr, 103, S!DA_386TSS)
       /\ \A i \in S!Pid : s_gdt[S!INDEX_LDT_FIRST + i] = S!init_descriptor(S!ldt_addr(i), 15, S!DA_LDT)
  /\ s_pc \in AfterLtr \/ S!Live # {} => s_tr = S!INDEX_TSS * 8

GoodProcess(p, i) ==
  /\ p.free \in BOOLEAN /\ p.ldt_sel = (S!INDEX_LDT_FIRST + i) * 8
  /\ i < NR_TASKS + NR_NATIVE_PROCS => ~ p.free
  /\ ~ p.free =>
       /\ {"free", "ldt_sel", "ldt", "cs", "ds", "gs", "p_parent"} \subseteq DOMAIN p
       /\ p.cs = 4 + S!Rpl(i) /\ p.ds = 12 + S!Rpl(i) /\ p.gs = 24 + S!Rpl(i)
       /\ SegmentPair(p.ldt, S!Rpl(i))
       /\ S!BaseOf(p.ldt[2]) = IF i < NR_TASKS + NR_NATIVE_PROCS THEN 0 ELSE S!child_base

ProcInv ==
  /\ DOMAIN s_proc = S!Pid
  /\ s_pc \notin {"run", "halted", "reset"} => S!Live = {}
  /\ s_pc = "run" \/ S!Live # {} => \A i \in S!Pid : GoodProcess(s_proc[i], i)

SegmentsInv == GdtInv /\ SystemInv /\ ProcInv

\* The invariant gives the property.
LEMMA SegmentsInvLoad ==
  ASSUME TablesFit, SegmentsInv
  PROVE  S!SegmentsLoad
<1> SUFFICES ASSUME NEW i \in S!Live
             PROVE  LET p == s_proc[i]
                        cpl == p.cs % 4
                        code == S!Selected(p, p.cs)
                        data == S!Selected(p, p.ds)
                        video == S!Selected(p, p.gs)
                    IN  /\ S!IsLdtOf(p.ldt_sel, i)
                        /\ S!Present(code) /\ S!IsCode(code) /\ S!Dpl(code) = cpl
                        /\ S!Present(data) /\ S!IsWritable(data) /\ S!Dpl(data) = cpl /\ p.ds % 4 = cpl
                        /\ S!Present(video) /\ S!IsWritable(video) /\ S!Dpl(video) >= cpl
                        /\ S!BaseOf(code) = S!BaseOf(data) /\ S!LimitOf(code) = S!LimitOf(data)
                        /\ i < NR_TASKS + NR_NATIVE_PROCS => S!BaseOf(data) = 0
                        /\ LET t == s_gdt[s_tr \div 8]
                           IN  s_tr # 0 /\ S!Present(t) /\ S!BaseOf(t) = tss_addr /\ s_tss.ss0 = S!SELECTOR_KERNEL_DS
                        /\ S!IsWritable(s_gdt[s_tss.ss0 \div 8]) /\ S!Dpl(s_gdt[s_tss.ss0 \div 8]) = 0
  BY Zenon DEF S!SegmentsLoad
<1> DEFINE p == s_proc[i]
           cpl == S!Rpl(i)
<1>1. i \in S!Pid /\ i \in Nat /\ i < NR_TASKS + NR_PROCS /\ ~ p.free /\ S!Live # {}
  BY DEF S!Live, S!Pid, TablesFit, S!StartupAssumption
<1>2. /\ s_gdt[1] = Flat(154) /\ s_gdt[2] = Flat(146) /\ s_gdt[3].attr1 = 242
      /\ s_tss.ss0 = 16 /\ s_tr = 32
      /\ s_gdt[4] = S!init_descriptor(tss_addr, 103, S!DA_386TSS)
      /\ s_gdt[5 + i] = S!init_descriptor(S!ldt_addr(i), 15, S!DA_LDT)
  BY <1>1 DEF SegmentsInv, GdtInv, SystemInv, S!SELECTOR_KERNEL_DS, S!INDEX_TSS, S!INDEX_LDT_FIRST
<1>3. GoodProcess(p, i)
  BY <1>1, Zenon DEF SegmentsInv, ProcInv
<1>4. /\ p.ldt_sel = (5 + i) * 8 /\ p.cs = 4 + cpl /\ p.ds = 12 + cpl /\ p.gs = 24 + cpl
      /\ SegmentPair(p.ldt, cpl)
      /\ i < NR_TASKS + NR_NATIVE_PROCS => S!BaseOf(p.ldt[2]) = 0
  BY <1>1, <1>3 DEF GoodProcess, S!INDEX_LDT_FIRST
<1>5. cpl \in {1, 3}
  BY DEF S!Rpl
<1> HIDE DEF p, cpl
<1>6. /\ p.cs % 4 = cpl /\ p.ds % 4 = cpl
      /\ (p.cs \div 4) % 2 = 1 /\ (p.cs \div 8) + 1 = 1
      /\ (p.ds \div 4) % 2 = 1 /\ (p.ds \div 8) + 1 = 2
      /\ (p.gs \div 4) % 2 # 1 /\ p.gs \div 8 = 3
  BY <1>4, <1>5
<1>7. S!Selected(p, p.cs) = p.ldt[1] /\ S!Selected(p, p.ds) = p.ldt[2] /\ S!Selected(p, p.gs) = s_gdt[3]
  BY <1>6, Zenon DEF S!Selected
<1>8. S!Present(s_gdt[3]) /\ S!IsWritable(s_gdt[3]) /\ S!Dpl(s_gdt[3]) = 3
  BY <1>2 DEF S!Present, S!IsWritable, S!Dpl
<1>9. S!IsLdtOf(p.ldt_sel, i)
  <2>1. p.ldt_sel \div 8 = 5 + i /\ 5 + i < GDT_SIZE
    BY <1>1, <1>4 DEF TablesFit, S!StartupAssumption, S!INDEX_LDT_FIRST
  <2> DEFINE d == S!init_descriptor(S!ldt_addr(i), 15, S!DA_LDT)
  <2>2. S!BaseOf(d) = S!ldt_addr(i)
    BY <1>1, BaseKept DEF TablesFit
  <2>3. 15 \in Word /\ S!DA_LDT \in Int /\ S!DA_LDT % 256 = 130
    BY SMT DEF Word, S!DA_LDT
  <2>4. S!LimitOf(d) = 15 /\ d.attr1 = 130
    BY <2>3, LimitKept, SMT
  <2> HIDE DEF d
  <2>5. S!Present(d) /\ d.attr1 % 32 = 2
    BY <2>4 DEF S!Present
  <2>6. s_gdt[p.ldt_sel \div 8] = d
    BY <1>2, <2>1, Zenon DEF d
  <2> QED
    BY <2>1, <2>2, <2>4, <2>5, <2>6, Zenon DEF S!IsLdtOf
<1>10. s_tr \div 8 = 4 /\ s_tr # 0 /\ s_tss.ss0 \div 8 = 2
  BY <1>2
<1>11. S!Present(s_gdt[4]) /\ S!BaseOf(s_gdt[4]) = tss_addr
  <2>1. S!BaseOf(s_gdt[4]) = tss_addr
    BY <1>2, BaseKept DEF TablesFit
  <2>2. 103 \in Word /\ S!DA_386TSS \in Int /\ S!DA_386TSS % 256 = 137
    BY SMT DEF Word, S!DA_386TSS
  <2>3. s_gdt[4].attr1 = 137
    BY <1>2, <2>2, LimitKept, SMT
  <2> QED
    BY <2>1, <2>3 DEF S!Present
<1>12. S!IsWritable(s_gdt[2]) /\ S!Dpl(s_gdt[2]) = 0
  <2>1. s_gdt[2].attr1 = 146
    BY <1>2, SMT DEF Flat
  <2> QED
    BY <2>1 DEF S!IsWritable, S!Dpl
<1>13. 3 >= cpl
  BY <1>5
<1>14. /\ S!Present(p.ldt[1]) /\ S!IsCode(p.ldt[1]) /\ S!Dpl(p.ldt[1]) = cpl
       /\ S!Present(p.ldt[2]) /\ S!IsWritable(p.ldt[2]) /\ S!Dpl(p.ldt[2]) = cpl
       /\ S!BaseOf(p.ldt[1]) = S!BaseOf(p.ldt[2]) /\ S!LimitOf(p.ldt[1]) = S!LimitOf(p.ldt[2])
  BY <1>4, Zenon DEF SegmentPair
<1>15. s_tss.ss0 = S!SELECTOR_KERNEL_DS
  BY <1>2 DEF S!SELECTOR_KERNEL_DS
<1>16. s_proc[i] = p
  BY DEF p
<1> QED
  BY <1>4, <1>6, <1>7, <1>8, <1>9, <1>10, <1>11, <1>12, <1>13, <1>14, <1>15, <1>16, Zenon

\* Steps that change neither the tables nor the processes keep the invariant.
LEMMA SegmentsUnchanged ==
  ASSUME SegmentsInv, UNCHANGED <<s_gdt, s_tss, s_tr, s_proc>>,
         \/ s_pc' = s_pc
         \/ s_pc' \in {"halted", "reset"}
         \/ s_pc = "8259a" /\ s_pc' = "idt"
         \/ s_pc = "idt" /\ s_pc' = "tss"
         \/ s_pc = "timer" /\ s_pc' = "keyboard"
         \/ s_pc = "keyboard" /\ s_pc' = "ltr"
         \/ s_pc = "clock" /\ s_pc' = "proc"
  PROVE  SegmentsInv'
<1>1. S!Live' = S!Live
  BY DEF S!Live
<1>2. GdtInv'
  BY <1>1 DEF SegmentsInv, GdtInv, AfterGdt, AfterTss
<1>3. SystemInv'
  BY <1>1 DEF SegmentsInv, SystemInv, AfterTss, AfterLtr
<1>4. ProcInv'
  BY <1>1 DEF SegmentsInv, ProcInv
<1> QED
  BY <1>2, <1>3, <1>4 DEF SegmentsInv

\* init_protected_mode_by_c takes the loader's descriptors over.
LEMMA GdtCopied ==
  ASSUME TablesFit, SegmentsInv, S!init_protected_mode_by_c
  PROVE  SegmentsInv'
<1>1. /\ s_pc = "protected_mode" /\ s_pc' = "8259a" /\ s_proc' = s_proc
      /\ s_gdt' = [i \in 0..(GDT_SIZE - 1) |->
                   IF i < Len(S!LoaderGdt) THEN S!LoaderGdt[i + 1] ELSE s_gdt[i]]
  BY Zenon DEF S!init_protected_mode_by_c
<1>2. S!Live = {} /\ S!Live' = {}
  BY <1>1 DEF SegmentsInv, ProcInv, S!Live
<1>3. GDT_SIZE \in Nat /\ 8 <= GDT_SIZE
  BY DEF TablesFit
<1>4. s_gdt'[1] = S!LoaderGdt[2] /\ s_gdt'[2] = S!LoaderGdt[3] /\ s_gdt'[3] = S!LoaderGdt[4]
  BY <1>1, <1>3, LoaderEntries
<1>5. DOMAIN s_gdt' = 0..(GDT_SIZE - 1)
  BY <1>1, Zenon
<1>6. GdtInv'
  BY <1>4, <1>5, LoaderEntries, Zenon DEF GdtInv
<1>7. SystemInv'
  BY <1>1, <1>2 DEF SystemInv, AfterTss, AfterLtr
<1>8. ProcInv'
  BY <1>1, <1>2 DEF SegmentsInv, ProcInv
<1> QED
  BY <1>6, <1>7, <1>8 DEF SegmentsInv

\* init_tss adds the TSS and the LDTs and leaves the kernel's segments.
LEMMA TssMade ==
  ASSUME TablesFit, SegmentsInv, S!init_tss
  PROVE  SegmentsInv'
<1> DEFINE base == S!BaseOf(s_gdt[2])
           entry(i) == IF i = S!INDEX_TSS THEN S!init_descriptor(base + tss_addr, 103, S!DA_386TSS)
                       ELSE IF i - S!INDEX_LDT_FIRST \in S!Pid
                         THEN S!init_descriptor(base + S!ldt_addr(i - S!INDEX_LDT_FIRST), 15, S!DA_LDT)
                         ELSE s_gdt[i]
<1>1. S!SELECTOR_KERNEL_DS \div 8 = 2
  BY DEF S!SELECTOR_KERNEL_DS
<1>2. /\ s_pc = "tss" /\ s_pc' = "timer" /\ s_proc' = s_proc
      /\ s_tss' = [ss0 |-> S!SELECTOR_KERNEL_DS, iobase |-> 104]
      /\ s_gdt' = [i \in DOMAIN s_gdt |-> entry(i)]
  BY <1>1, Zenon DEF S!init_tss
<1>3. S!Live = {} /\ S!Live' = {}
  BY <1>2 DEF SegmentsInv, ProcInv, S!Live
<1>4. /\ GDT_SIZE \in Nat /\ 8 <= GDT_SIZE /\ DOMAIN s_gdt = 0..(GDT_SIZE - 1)
      /\ {NR_TASKS, NR_PROCS} \subseteq Nat /\ 5 + NR_TASKS + NR_PROCS <= GDT_SIZE
      /\ tss_addr \in Nat /\ \A i \in S!Pid : S!ldt_addr(i) \in Nat
  BY DEF TablesFit, S!StartupAssumption, SegmentsInv, GdtInv, S!INDEX_LDT_FIRST, Below4G
<1>5. s_gdt[1] = Flat(154) /\ s_gdt[2] = Flat(146) /\ s_gdt[3].attr1 = 242
  BY <1>2 DEF SegmentsInv, GdtInv, AfterGdt
<1>6. base = 0
  BY <1>5, SMT DEF Flat, S!BaseOf
<1> HIDE DEF base
<1>7. DOMAIN s_gdt' = DOMAIN s_gdt /\ \A i \in DOMAIN s_gdt : s_gdt'[i] = entry(i)
  BY <1>2, Zenon
<1>8. ASSUME NEW n \in 1..3
      PROVE  s_gdt'[n] = s_gdt[n]
  <2>1. n \in DOMAIN s_gdt /\ n # S!INDEX_TSS /\ n - S!INDEX_LDT_FIRST \notin S!Pid
    BY <1>4 DEF S!INDEX_TSS, S!INDEX_LDT_FIRST, S!Pid
  <2> QED
    BY <1>7, <2>1, Zenon
<1>9. s_gdt'[S!INDEX_TSS] = S!init_descriptor(tss_addr, 103, S!DA_386TSS)
  <2>1. S!INDEX_TSS \in DOMAIN s_gdt
    BY <1>4 DEF S!INDEX_TSS
  <2>2. base + tss_addr = tss_addr
    BY <1>4, <1>6
  <2> QED
    BY <1>7, <2>1, <2>2, Zenon
<1>10. ASSUME NEW i \in S!Pid
       PROVE  s_gdt'[S!INDEX_LDT_FIRST + i] = S!init_descriptor(S!ldt_addr(i), 15, S!DA_LDT)
  <2>1. /\ S!INDEX_LDT_FIRST + i \in DOMAIN s_gdt /\ S!INDEX_LDT_FIRST + i # S!INDEX_TSS
        /\ (S!INDEX_LDT_FIRST + i) - S!INDEX_LDT_FIRST = i
    BY <1>4 DEF S!INDEX_TSS, S!INDEX_LDT_FIRST, S!Pid
  <2>2. base + S!ldt_addr(i) = S!ldt_addr(i)
    BY <1>4, <1>6
  <2> QED
    BY <1>7, <2>1, <2>2, Zenon
<1>11. GdtInv'
  BY <1>4, <1>5, <1>7, <1>8 DEF GdtInv
<1>12. SystemInv'
  <2>1. s_tss'.ss0 = S!SELECTOR_KERNEL_DS
    BY <1>2
  <2> QED
    BY <1>2, <1>3, <1>9, <1>10, <2>1 DEF SystemInv, AfterLtr
<1>13. ProcInv'
  BY <1>2, <1>3 DEF SegmentsInv, ProcInv
<1> QED
  BY <1>11, <1>12, <1>13 DEF SegmentsInv

\* ltr loads the selector of the TSS.
LEMMA TrLoaded ==
  ASSUME SegmentsInv, S!ltr
  PROVE  SegmentsInv'
<1>1. /\ s_pc = "ltr" /\ s_pc' = "clock" /\ s_tr' = S!INDEX_TSS * 8
      /\ UNCHANGED <<s_gdt, s_tss, s_proc>>
  BY DEF S!ltr
<1>2. S!Live' = S!Live
  BY <1>1 DEF S!Live
<1>3. GdtInv'
  BY <1>1, <1>2 DEF SegmentsInv, GdtInv, AfterGdt, AfterTss
<1>4. SystemInv'
  BY <1>1, <1>2 DEF SegmentsInv, SystemInv, AfterTss, AfterLtr
<1>5. ProcInv'
  BY <1>1, <1>2 DEF SegmentsInv, ProcInv
<1> QED
  BY <1>3, <1>4, <1>5 DEF SegmentsInv

\* A process that init_proc sets up has its own LDT and the segments of its privilege.
LEMMA NewProcessGood ==
  ASSUME TablesFit, s_gdt[1] = Flat(154), s_gdt[2] = Flat(146), NEW i \in S!Pid
  PROVE  GoodProcess(S!NewProcess(i), i)
<1> DEFINE p == S!NewProcess(i)
           cpl == S!Rpl(i)
<1>1. {NR_TASKS, NR_PROCS, NR_NATIVE_PROCS} \subseteq Nat /\ i \in Int
  BY DEF TablesFit, S!StartupAssumption, S!Pid
<1>2. CASE i >= NR_TASKS + NR_NATIVE_PROCS
  <2>1. p = [free |-> TRUE, ldt_sel |-> (S!INDEX_LDT_FIRST + i) * 8]
    BY <1>2, Zenon DEF S!NewProcess
  <2>2. ~ (i < NR_TASKS + NR_NATIVE_PROCS)
    BY <1>1, <1>2
  <2> HIDE DEF p
  <2>3. p.free = TRUE /\ p.ldt_sel = (S!INDEX_LDT_FIRST + i) * 8
    BY <2>1
  <2>4. GoodProcess(p, i)
    BY <2>2, <2>3, Zenon DEF GoodProcess
  <2> QED
    BY <2>4 DEF p
<1>3. CASE ~ (i >= NR_TASKS + NR_NATIVE_PROCS)
  <2>1. p = [free |-> FALSE, ldt_sel |-> (S!INDEX_LDT_FIRST + i) * 8, ldt |-> S!Segments(i, cpl),
             cs |-> 0 + 4 + S!Rpl(i), ds |-> 8 + 4 + S!Rpl(i),
             gs |-> (S!SELECTOR_KERNEL_GS \div 8) * 8 + S!Rpl(i),
             esp |-> task_stack + S!TASK_STACK + (i + 1) * S!TASK_STACK,
             eflags |-> IF i < NR_TASKS THEN 4610 ELSE 514, p_parent |-> S!NO_TASK]
    BY <1>3, SMT DEF S!NewProcess, S!Rpl
  <2>2. cpl \in {1, 3}
    BY DEF S!Rpl
  <2>3. SegmentPair(S!Segments(i, cpl), cpl) /\ S!BaseOf(S!Segments(i, cpl)[2]) = 0
    <3>1. CASE i = S!INIT
      <4> DEFINE c == S!DA_32 + S!DA_LIMIT_4K + S!DA_C + cpl * 32
                 d == S!DA_32 + S!DA_LIMIT_4K + S!DA_DRW + cpl * 32
                 code == S!init_descriptor(0, 1536, c)
                 data == S!init_descriptor(0, 1536, d)
      <4>1. /\ c = S!DA_LIMIT_4K + S!DA_32 + S!DA_C + cpl * 32
            /\ d = S!DA_LIMIT_4K + S!DA_32 + S!DA_DRW + cpl * 32
        BY <2>2, SMT DEF S!DA_LIMIT_4K, S!DA_32, S!DA_C, S!DA_DRW
      <4>2. 0 \in Below4G /\ 1536 \in Word
        BY SMT DEF Below4G, Word
      <4>3. S!Segments(i, cpl) = <<code, data>>
        BY <3>1, SMT DEF S!Segments
      <4> HIDE DEF c, d, cpl
      <4>4. SegmentPair(<<code, data>>, cpl) /\ S!BaseOf(<<code, data>>[2]) = 0
        BY <2>2, <4>1, <4>2, PairMade, SMT
      <4> QED
        BY <4>3, <4>4, SMT
    <3>2. CASE i # S!INIT
      <4> DEFINE code == [Flat(154) EXCEPT !.attr1 = S!DA_C + cpl * 32]
                 data == [Flat(146) EXCEPT !.attr1 = S!DA_DRW + cpl * 32]
      <4>1. s_gdt[S!SELECTOR_KERNEL_CS \div 8] = Flat(154) /\ s_gdt[S!SELECTOR_KERNEL_DS \div 8] = Flat(146)
        <5>1. S!SELECTOR_KERNEL_CS \div 8 = 1 /\ S!SELECTOR_KERNEL_DS \div 8 = 2
          BY DEF S!SELECTOR_KERNEL_CS, S!SELECTOR_KERNEL_DS
        <5> QED
          BY <5>1
      <4> HIDE DEF cpl
      <4>2. S!Segments(i, cpl) = <<code, data>>
        BY <3>2, <4>1, SMT DEF S!Segments
      <4>3. SegmentPair(<<code, data>>, cpl) /\ S!BaseOf(<<code, data>>[2]) = 0
        BY <2>2, KernelPair
      <4> QED
        BY <4>2, <4>3, Zenon
    <3> QED
      BY <3>1, <3>2
  <2> HIDE DEF p
  <2>4. /\ p.free = FALSE /\ p.ldt_sel = (S!INDEX_LDT_FIRST + i) * 8 /\ p.ldt = S!Segments(i, cpl)
        /\ p.cs = 0 + 4 + S!Rpl(i) /\ p.ds = 8 + 4 + S!Rpl(i)
        /\ p.gs = (S!SELECTOR_KERNEL_GS \div 8) * 8 + S!Rpl(i)
        /\ {"free", "ldt_sel", "ldt", "cs", "ds", "gs", "p_parent"} \subseteq DOMAIN p
    BY <2>1, SMT
  <2>5. p.cs = 4 + S!Rpl(i) /\ p.ds = 12 + S!Rpl(i) /\ p.gs = 24 + S!Rpl(i)
    BY <2>2, <2>4, SMT DEF S!SELECTOR_KERNEL_GS
  <2>6. i < NR_TASKS + NR_NATIVE_PROCS
    BY <1>1, <1>3
  <2>7. GoodProcess(p, i)
    BY <2>3, <2>4, <2>5, <2>6, Zenon DEF GoodProcess
  <2> QED
    BY <2>7 DEF p
<1> QED
  BY <1>2, <1>3

\* init_proc fills the table.
LEMMA ProcessesMade ==
  ASSUME TablesFit, SegmentsInv, S!init_proc
  PROVE  SegmentsInv'
<1>1. /\ s_pc = "proc" /\ s_pc' = "run" /\ UNCHANGED <<s_gdt, s_tss, s_tr>>
      /\ s_proc' = [i \in S!Pid |-> S!NewProcess(i)]
  BY DEF S!init_proc, S!tables
<1>2. s_gdt[1] = Flat(154) /\ s_gdt[2] = Flat(146)
  BY <1>1 DEF SegmentsInv, GdtInv, AfterGdt, AfterTss
<1>3. \A i \in S!Pid : GoodProcess(s_proc'[i], i)
  BY <1>1, <1>2, NewProcessGood
<1>4. GdtInv'
  BY <1>1 DEF SegmentsInv, GdtInv, AfterGdt, AfterTss
<1>5. SystemInv'
  BY <1>1 DEF SegmentsInv, SystemInv, AfterTss, AfterLtr
<1>6. ProcInv'
  <2>1. DOMAIN s_proc' = S!Pid
    BY <1>1
  <2> QED
    BY <1>1, <1>3, <2>1, Zenon DEF ProcInv
<1> QED
  BY <1>4, <1>5, <1>6 DEF SegmentsInv

\* do_fork takes a free entry, which no native process has; the child is a user process.
LEMMA ForkSegments ==
  ASSUME TablesFit, SegmentsInv, NEW pid \in S!Pid, S!Fork(pid)
  PROVE  SegmentsInv'
<1> DEFINE lowest(i) == s_proc[i].free /\ \A k \in S!Pid : s_proc[k].free => i <= k
           child == CHOOSE i \in S!Pid : lowest(i)
           attr == S!DA_LIMIT_4K + S!DA_32 + 96
           code == S!init_descriptor(S!child_base, 1023, attr + S!DA_C)
           data == S!init_descriptor(S!child_base, 1023, attr + S!DA_DRW)
           made == [s_proc[pid] EXCEPT !.ldt_sel = s_proc[child].ldt_sel, !.p_parent = pid,
                                     !.ldt = <<code, data>>]
<1>1. /\ s_pc = "run" /\ s_pc' = s_pc /\ s_proc[pid].free = FALSE /\ pid >= NR_TASKS
      /\ \E i \in S!Pid : s_proc[i].free
      /\ UNCHANGED <<s_gdt, s_tss, s_tr>>
      /\ s_proc' = [s_proc EXCEPT ![child] = made]
  BY Zenon DEF S!Fork, S!ForkSelector, S!tables
<1>2. {NR_TASKS, NR_PROCS, NR_NATIVE_PROCS} \subseteq Nat /\ S!Pid \subseteq Nat
  BY DEF TablesFit, S!StartupAssumption, S!Pid
<1>3. \A i \in S!Pid : GoodProcess(s_proc[i], i)
  BY <1>1, Zenon DEF SegmentsInv, ProcInv
<1>4. child \in S!Pid /\ s_proc[child].free
  <2>1. \E i \in S!Pid : lowest(i)
    <3> DEFINE F == {i \in S!Pid : s_proc[i].free}
    <3>1. F \subseteq Nat /\ F # {}
      BY <1>1, <1>2
    <3>2. \E i \in F : \A k \in F : i <= k
      BY <3>1, LeastExists
    <3> QED
      BY <3>2
  <2>2. child \in S!Pid /\ lowest(child)
    BY <2>1, Zenon
  <2> QED
    BY <2>2
<1> HIDE DEF child
<1>5. /\ child >= NR_TASKS + NR_NATIVE_PROCS /\ child \in Nat
      /\ s_proc[child].ldt_sel = (S!INDEX_LDT_FIRST + child) * 8
  BY <1>2, <1>3, <1>4 DEF GoodProcess
<1>6. S!Rpl(pid) = 3 /\ S!Rpl(child) = 3
  BY <1>1, <1>2, <1>5 DEF S!Rpl
<1>7. SegmentPair(<<code, data>>, 3) /\ S!BaseOf(<<code, data>>[2]) = S!child_base
  <2> DEFINE c == attr + S!DA_C
             d == attr + S!DA_DRW
             cpl == 3
  <2>1. /\ c = S!DA_LIMIT_4K + S!DA_32 + S!DA_C + cpl * 32
        /\ d = S!DA_LIMIT_4K + S!DA_32 + S!DA_DRW + cpl * 32
    BY SMT DEF S!DA_LIMIT_4K, S!DA_32, S!DA_C, S!DA_DRW
  <2>2. S!child_base \in Below4G /\ 1023 \in Word /\ cpl \in {1, 3}
    BY SMT DEF Below4G, Word, S!child_base
  <2> HIDE DEF c, d, cpl
  <2>3. /\ SegmentPair(<<S!init_descriptor(S!child_base, 1023, c), S!init_descriptor(S!child_base, 1023, d)>>, cpl)
        /\ S!BaseOf(<<S!init_descriptor(S!child_base, 1023, c), S!init_descriptor(S!child_base, 1023, d)>>[2])
             = S!child_base
    BY <2>1, <2>2, PairMade, SMT
  <2> QED
    BY <2>3, SMT DEF c, d, cpl
<1> HIDE DEF code, data
<1>8. GoodProcess(s_proc[pid], pid)
  BY <1>3
<1>9. /\ {"free", "ldt_sel", "ldt", "cs", "ds", "gs", "p_parent"} \subseteq DOMAIN s_proc[pid]
      /\ s_proc[pid].cs = 7 /\ s_proc[pid].ds = 15 /\ s_proc[pid].gs = 27
  BY <1>1, <1>6, <1>8 DEF GoodProcess
<1>10. /\ made.free = FALSE /\ made.ldt_sel = (S!INDEX_LDT_FIRST + child) * 8
       /\ made.cs = 7 /\ made.ds = 15 /\ made.gs = 27 /\ made.ldt = <<code, data>>
       /\ DOMAIN made = DOMAIN s_proc[pid]
  BY <1>1, <1>5, <1>9
<1> HIDE DEF made
<1>11. GoodProcess(made, child)
  <2>1. ~ (child < NR_TASKS + NR_NATIVE_PROCS)
    BY <1>2, <1>5
  <2>2. 4 + S!Rpl(child) = 7 /\ 12 + S!Rpl(child) = 15 /\ 24 + S!Rpl(child) = 27
    BY <1>6
  <2>3. SegmentPair(made.ldt, S!Rpl(child)) /\ S!BaseOf(made.ldt[2]) = S!child_base
    BY <1>6, <1>7, <1>10, Zenon
  <2> QED
    BY <1>9, <1>10, <2>1, <2>2, <2>3, Zenon DEF GoodProcess
<1>12. /\ DOMAIN s_proc' = S!Pid
       /\ \A i \in S!Pid : s_proc'[i] = IF i = child THEN made ELSE s_proc[i]
  BY <1>1, <1>4, Zenon DEF SegmentsInv, ProcInv
<1>13. \A i \in S!Pid : GoodProcess(s_proc'[i], i)
  BY <1>3, <1>11, <1>12, Zenon
<1>14. GdtInv'
  BY <1>1 DEF SegmentsInv, GdtInv, AfterGdt, AfterTss
<1>15. SystemInv'
  BY <1>1 DEF SegmentsInv, SystemInv, AfterTss, AfterLtr
<1>16. ProcInv'
  BY <1>1, <1>12, <1>13, Zenon DEF ProcInv
<1> QED
  BY <1>14, <1>15, <1>16 DEF SegmentsInv

\* Every step keeps the invariant of the segments.
LEMMA SegmentsInvNext ==
  ASSUME TablesFit, SegmentsInv, [S!Next]_svars
  PROVE  SegmentsInv'
<1>1. CASE S!init_protected_mode_by_c
  BY <1>1, GdtCopied
<1>2. CASE S!init_8259a
  BY <1>2, SegmentsUnchanged DEF S!init_8259a, S!tables
<1>3. CASE S!init_idt_by_c
  BY <1>3, SegmentsUnchanged DEF S!init_idt_by_c
<1>4. CASE S!init_tss
  BY <1>4, TssMade
<1>5. CASE S!init_timer
  BY <1>5, SegmentsUnchanged DEF S!init_timer, S!tables
<1>6. CASE S!init_keyboard
  BY <1>6, SegmentsUnchanged DEF S!init_keyboard, S!tables
<1>7. CASE S!ltr
  BY <1>7, TrLoaded
<1>8. CASE S!EnableClock
  BY <1>8, SegmentsUnchanged DEF S!EnableClock, S!tables
<1>9. CASE S!init_proc
  BY <1>9, ProcessesMade
<1>10. ASSUME NEW pid \in S!Pid, S!Fork(pid)
       PROVE  SegmentsInv'
  BY <1>10, ForkSegments
<1>11. CASE UNCHANGED svars
  BY <1>11, SegmentsUnchanged DEF svars, S!tables
<1>12. ASSUME NEW v, NEW soft, NEW err, NEW eip, NEW i, S!Exception(v, soft, err, eip, i)
       PROVE  SegmentsInv'
  BY <1>12, SegmentsUnchanged DEF S!Exception, S!tables
<1> QED
  BY <1>1, <1>2, <1>3, <1>4, <1>5, <1>6, <1>7, <1>8, <1>9, <1>10, <1>11, <1>12 DEF S!Next

\* The constants of the system fit.
LEMMA TablesDoFit == TablesFit
BY InstancesAssumption DEF TablesFit, S!StartupAssumption, Below4G, S!ldt_addr, S!Pid

\* The invariant of the segments holds throughout.
LEMMA SegmentsHold == SequentialSpec => [](part = "start-up" => SegmentsInv)
<1> DEFINE Inv == part = "start-up" => SegmentsInv
<1>1. SequentialInit => Inv
  BY StartupInit
  DEF S!Init, SegmentsInv, GdtInv, SystemInv, ProcInv, S!Live, AfterGdt, AfterTss, AfterLtr
<1>2. Inv /\ [SequentialNext]_allvars => Inv'
  BY TablesDoFit, StartupStep, SegmentsInvNext
<1> QED
  BY <1>1, <1>2, PTL DEF SequentialSpec

(***************************************************************************)
(* What restart loads for a process is valid, for every process that       *)
(* init_proc sets up or do_fork adds: its LDT is its own, cs, ds and gs    *)
(* name segments of its privilege, code and data are the same memory, and  *)
(* the TSS gives interrupts the kernel's stack segment.  The constants     *)
(* only have to fit: the GDT in its size, the tables below 4 GB.           *)
(***************************************************************************)
THEOREM SegmentsAreValid == SequentialSpec => []SegmentsLoad
<1> DEFINE Inv == part = "start-up" => SegmentsInv
<1>1. SequentialSpec => []Inv
  BY SegmentsHold
<1>2. Inv => SegmentsLoad
  BY TablesDoFit, SegmentsInvLoad DEF SegmentsLoad
<1> QED
  BY <1>1, <1>2, PTL

----------------------------------------------------------------------------
(* The screen of an exception.                                             *)

\* The kernel's IDT has gates for these vectors and no others.
GatesInv ==
  s_idt_ptr = "kernel" => DOMAIN s_idt = S!Exceptions \cup 32..47 \cup {144}

\* Nothing writes the screen before the exception that ends the run.
PanicInv ==
  /\ GatesInv /\ S!PanicShowsFault
  /\ s_pc # "halted" => s_screen = << >>

\* A word pushed on a frame of three.
LEMMA PushedOnThree ==
  ASSUME NEW a, NEW b, NEW c, NEW d
  PROVE  <<a>> \o <<b, c, d>> = <<a, b, c, d>>
<1> DEFINE s == <<a>>
           t == <<b, c, d>>
           Words == {a, b, c, d}
           u == s \o t
<1>1. s \in Seq(Words) /\ t \in Seq(Words) /\ Len(s) = 1 /\ Len(t) = 3
  OBVIOUS
<1>2. s[1] = a /\ t[1] = b /\ t[2] = c /\ t[3] = d
  OBVIOUS
<1> HIDE DEF s, t, Words
<1>3. /\ u \in Seq(Words) /\ Len(u) = Len(s) + Len(t)
      /\ \A i \in 1..Len(s) + Len(t) : u[i] = IF i <= Len(s) THEN s[i] ELSE t[i - Len(s)]
  BY <1>1, ConcatProperties
<1> HIDE DEF u
<1>4. /\ u \in Seq(Words) /\ Len(u) = 4
      /\ u[1] = a /\ u[2] = b /\ u[3] = c /\ u[4] = d
  BY <1>1, <1>2, <1>3
<1>5. u = <<a, b, c, d>>
  BY <1>4
<1> QED
  BY <1>5 DEF s, t, u

\* A word pushed on a frame of four.
LEMMA PushedOnFour ==
  ASSUME NEW a, NEW b, NEW c, NEW d, NEW e
  PROVE  <<a>> \o <<b, c, d, e>> = <<a, b, c, d, e>>
<1> DEFINE s == <<a>>
           t == <<b, c, d, e>>
           Words == {a, b, c, d, e}
           u == s \o t
<1>1. s \in Seq(Words) /\ t \in Seq(Words) /\ Len(s) = 1 /\ Len(t) = 4
  OBVIOUS
<1>2. s[1] = a /\ t[1] = b /\ t[2] = c /\ t[3] = d /\ t[4] = e
  OBVIOUS
<1> HIDE DEF s, t, Words
<1>3. /\ u \in Seq(Words) /\ Len(u) = Len(s) + Len(t)
      /\ \A i \in 1..Len(s) + Len(t) : u[i] = IF i <= Len(s) THEN s[i] ELSE t[i - Len(s)]
  BY <1>1, ConcatProperties
<1> HIDE DEF u
<1>4. /\ u \in Seq(Words) /\ Len(u) = 5
      /\ u[1] = a /\ u[2] = b /\ u[3] = c /\ u[4] = d /\ u[5] = e
  BY <1>1, <1>2, <1>3
<1>5. u = <<a, b, c, d, e>>
  BY <1>4
<1> QED
  BY <1>5 DEF s, t, u

\* The stub of a vector finds or supplies the error code, so that the handler's
\* arguments are in their places.
LEMMA StubArguments ==
  ASSUME NEW v, v # 17, NEW err, NEW eip, NEW cs, NEW eflags
  PROVE  S!Stub(v, S!Frame(v, err, eip, cs, eflags)) =
           <<v, IF v \in S!PushesError THEN err ELSE S!NoErrCode, eip, cs, eflags>>
<1>1. /\ <<err>> \o <<eip, cs, eflags>> = <<err, eip, cs, eflags>>
      /\ << >> \o <<eip, cs, eflags>> = <<eip, cs, eflags>>
      /\ <<v>> \o << >> = <<v>>
      /\ <<v>> \o <<err, eip, cs, eflags>> = <<v, err, eip, cs, eflags>>
  <2>1. << >> \o <<eip, cs, eflags>> = <<eip, cs, eflags>> /\ <<v>> \o << >> = <<v>>
    OBVIOUS
  <2>2. <<err>> \o <<eip, cs, eflags>> = <<err, eip, cs, eflags>>
    BY PushedOnThree
  <2>3. <<v>> \o <<err, eip, cs, eflags>> = <<v, err, eip, cs, eflags>>
    BY PushedOnFour
  <2> QED
    BY <2>1, <2>2, <2>3, Zenon
<1>2. (<<v>> \o <<S!NoErrCode>>) \o <<eip, cs, eflags>> = <<v, S!NoErrCode, eip, cs, eflags>>
  <2> DEFINE Words == {v, S!NoErrCode, eip, cs, eflags}
             top == <<v>>
             word == <<S!NoErrCode>>
             frame == <<eip, cs, eflags>>
  <2>1. top \in Seq(Words) /\ word \in Seq(Words) /\ frame \in Seq(Words)
    OBVIOUS
  <2>2. word \o frame = <<S!NoErrCode, eip, cs, eflags>>
    BY PushedOnThree
  <2>3. top \o <<S!NoErrCode, eip, cs, eflags>> = <<v, S!NoErrCode, eip, cs, eflags>>
    BY PushedOnFour
  <2> HIDE DEF Words, top, word, frame
  <2>4. (top \o word) \o frame = top \o (word \o frame)
    BY <2>1, ConcatAssociative, SMTT(30)
  <2>5. (top \o word) \o frame = <<v, S!NoErrCode, eip, cs, eflags>>
    BY <2>2, <2>3, <2>4, Zenon
  <2> QED
    BY <2>5, Zenon DEF top, word, frame
<1>3. CASE v \in S!PushesError
  <2>1. v \in {8, 10, 11, 12, 13, 14}
    BY <1>3 DEF S!PushesError
  <2> QED
    BY <1>1, <1>3, <2>1, Zenon DEF S!Stub, S!Frame
<1>4. CASE v \notin S!PushesError
  <2>1. v \notin {8, 10, 11, 12, 13, 14}
    BY <1>4 DEF S!PushesError
  <2> QED
    BY <1>1, <1>2, <1>4, <2>1, Zenon DEF S!Stub, S!Frame
<1> QED
  BY <1>3, <1>4

\* What is delivered has a gate or is a protection fault, and its error code is a number.
LEMMA DeliveredVector ==
  ASSUME GatesInv, s_idt_ptr = "kernel", NEW v \in S!CpuException \cup S!SoftVector,
         NEW soft \in BOOLEAN, NEW cpl, NEW err \in Nat
  PROVE  LET d == S!Delivered(v, soft, cpl, err)
         IN  d.vec # 17 /\ d.err \in Nat
<1>1. v \in Nat
  BY DEF S!CpuException, S!SoftVector
<1>2. 17 \notin DOMAIN s_idt
  BY DEF GatesInv, S!Exceptions
<1> QED
  BY <1>1, <1>2 DEF S!Delivered

\* The base of ds is 0 in a process of init_proc and another in a forked one.
LEMMA BaseOfDs ==
  ASSUME TablesFit, SegmentsInv, s_pc = "run", NEW i \in S!Live
  PROVE  S!DsBase(i) = IF i < NR_TASKS + NR_NATIVE_PROCS THEN 0 ELSE S!child_base
<1> DEFINE p == s_proc[i]
<1>1. i \in S!Pid /\ ~ p.free /\ GoodProcess(p, i)
  BY Zenon DEF SegmentsInv, ProcInv, S!Live
<1>2. p.ds = 12 + S!Rpl(i) /\ S!Rpl(i) \in {1, 3}
  BY <1>1 DEF GoodProcess, S!Rpl
<1>3. (p.ds \div 4) % 2 = 1 /\ (p.ds \div 8) + 1 = 2
  BY <1>2
<1>4. S!Selected(p, p.ds) = p.ldt[2]
  BY <1>3, Zenon DEF S!Selected
<1> QED
  BY <1>1, <1>4, Zenon DEF S!DsBase, GoodProcess

\* An exception leaves a screen that shows it, or the screen as it was.
LEMMA ExceptionShown ==
  ASSUME S!StartupAssumption, TablesFit, SegmentsInv, PanicInv,
         NEW v \in S!CpuException \cup S!SoftVector, NEW soft \in BOOLEAN,
         NEW err \in ErrCode, NEW eip \in Eip, NEW i \in S!Pid,
         S!Exception(v, soft, err, eip, i)
  PROVE  PanicInv'
<1>1. CASE s_idt_ptr # "kernel"
  BY <1>1 DEF S!Exception, PanicInv, GatesInv, S!PanicShowsFault, S!tables
<1>2. CASE s_idt_ptr = "kernel"
  <2> DEFINE cs == IF s_pc = "run" THEN s_proc[i].cs ELSE S!SELECTOR_KERNEL_CS
             eflags == IF s_pc = "run" THEN s_proc[i].eflags ELSE 2
             d == S!Delivered(v, soft, cs % 4, err)
             args == S!Stub(d.vec, S!Frame(d.vec, d.err, eip, cs, eflags))
             code == IF d.vec \in S!PushesError THEN d.err ELSE S!NoErrCode
  <2>1. /\ s_fault' = [vec |-> d.vec, err |-> d.err, eip |-> eip, cs |-> cs, eflags |-> eflags,
                      forked |-> s_pc = "run" /\ i \in S!Forked]
        /\ s_screen' = IF S!DsBase(i) = 0
                        THEN S!exception_handler(args[1], args[2], args[3], args[4], args[5])
                        ELSE s_screen
        /\ s_idt' = s_idt /\ s_idt_ptr' = s_idt_ptr
        /\ s_pc' = "halted" /\ s_pc \notin {"halted", "reset"}
        /\ IF s_pc = "run" THEN i \in S!Live ELSE i = 0
    BY <1>2 DEF S!Exception, S!tables
  <2>forked. S!DsBase(i) # 0 <=> s_pc = "run" /\ i \in S!Forked
    <3>1. CASE s_pc = "run"
      <4>1. i \in S!Live
        BY <2>1, <3>1
      <4>2. S!DsBase(i) = IF i < NR_TASKS + NR_NATIVE_PROCS THEN 0 ELSE S!child_base
        BY <3>1, <4>1, BaseOfDs
      <4>3. i \in S!Forked <=> ~ (i < NR_TASKS + NR_NATIVE_PROCS)
        BY <4>1 DEF S!Forked, S!Live, S!Pid, S!StartupAssumption
      <4> QED
        BY <3>1, <4>2, <4>3 DEF S!child_base
    <3>2. CASE s_pc # "run"
      BY <3>2 DEF S!DsBase
    <3> QED
      BY <3>1, <3>2
  <2>dark. CASE S!DsBase(i) # 0
    <3>1. s_screen' = << >> /\ s_fault'.forked /\ s_pc' = "halted"
      BY <2>1, <2>forked, <2>dark DEF PanicInv
    <3>2. S!PanicShowsFault'
      BY <3>1 DEF S!PanicShowsFault
    <3> QED
      BY <2>1, <3>2 DEF PanicInv, GatesInv
  <2>lit. SUFFICES ASSUME S!DsBase(i) = 0 PROVE PanicInv'
    BY <2>dark
  <2>shown. ~ s_fault'.forked
    BY <2>1, <2>forked, <2>lit
  <2>2. err \in Nat
    BY DEF S!StartupAssumption
  <2>3. d.vec # 17 /\ d.err \in Nat
    BY <1>2, <2>2, DeliveredVector DEF PanicInv
  <2> HIDE DEF cs, eflags, d
  <2>4. args = <<d.vec, code, eip, cs, eflags>>
    BY <2>3, StubArguments
  <2> HIDE DEF args
  <2>5. s_screen' = S!exception_handler(d.vec, code, eip, cs, eflags)
    BY <2>1, <2>4, <2>lit
  <2>6. code # S!NoErrCode <=> d.vec \in S!PushesError
    BY <2>3 DEF S!NoErrCode
  <2>7. d.vec \in S!PushesError => code = d.err
    OBVIOUS
  <2> HIDE DEF code
  <2>8. /\ DOMAIN s_screen' = {0, 1, 2, 3, 4, 5, 23, 24}
             \cup (IF code # S!NoErrCode THEN {6, 7} ELSE {})
        /\ s_screen'[23] = <<"err_msg", d.vec>>
        /\ s_screen'[5] = eip /\ s_screen'[3] = cs /\ s_screen'[1] = eflags
        /\ code # S!NoErrCode => s_screen'[7] = code
    BY <2>5 DEF S!exception_handler
  <2>9. S!PanicShowsFault'
    BY <2>1, <2>shown, <2>6, <2>7, <2>8 DEF S!PanicShowsFault
  <2> QED
    BY <2>1, <2>9 DEF PanicInv, GatesInv
<1> QED
  BY <1>1, <1>2

\* A step keeps the invariant: only init_idt_by_c fills gates, and nothing follows
\* an exception.
LEMMA PanicInvNext ==
  ASSUME S!StartupAssumption, TablesFit, SegmentsInv, PanicInv, [S!Next]_svars
  PROVE  PanicInv'
<1>1. CASE S!init_protected_mode_by_c
  BY <1>1 DEF S!init_protected_mode_by_c, PanicInv, GatesInv, S!PanicShowsFault
<1>2. CASE S!init_8259a
  BY <1>2 DEF S!init_8259a, S!tables, PanicInv, GatesInv, S!PanicShowsFault
<1>3. CASE S!init_idt_by_c
  BY <1>3 DEF S!init_idt_by_c, PanicInv, GatesInv, S!PanicShowsFault
<1>4. CASE S!init_tss
  BY <1>4 DEF S!init_tss, PanicInv, GatesInv, S!PanicShowsFault
<1>5. CASE S!init_timer
  BY <1>5 DEF S!init_timer, S!tables, PanicInv, GatesInv, S!PanicShowsFault
<1>6. CASE S!init_keyboard
  BY <1>6 DEF S!init_keyboard, S!tables, PanicInv, GatesInv, S!PanicShowsFault
<1>7. CASE S!ltr
  BY <1>7 DEF S!ltr, PanicInv, GatesInv, S!PanicShowsFault
<1>8. CASE S!EnableClock
  BY <1>8 DEF S!EnableClock, S!tables, PanicInv, GatesInv, S!PanicShowsFault
<1>9. CASE S!init_proc
  BY <1>9 DEF S!init_proc, S!tables, PanicInv, GatesInv, S!PanicShowsFault
<1>10. ASSUME NEW pid \in S!Pid, S!Fork(pid)
       PROVE  PanicInv'
  BY <1>10 DEF S!Fork, S!tables, PanicInv, GatesInv, S!PanicShowsFault
<1>11. CASE UNCHANGED svars
  BY <1>11 DEF svars, S!tables, PanicInv, GatesInv, S!PanicShowsFault
<1>12. ASSUME NEW err \in ErrCode, NEW eip \in Eip, NEW i \in S!Pid,
              \/ \E v \in S!CpuException : S!Exception(v, FALSE, err, eip, i)
              \/ \E v \in S!SoftVector : S!Exception(v, TRUE, err, eip, i)
       PROVE  PanicInv'
  BY <1>12, ExceptionShown
<1> QED
  BY <1>1, <1>2, <1>3, <1>4, <1>5, <1>6, <1>7, <1>8, <1>9, <1>10, <1>11, <1>12 DEF S!Next

(***************************************************************************)
(* The screen of exception_handler shows the vector, the place and, if and *)
(* only if the CPU pushed one, the error code of the exception, in the     *)
(* start-up and in every process that init_proc made: the stubs of         *)
(* p_kernel.s and the CPU agree for every vector.  The exception of a      *)
(* forked process leaves the screen as it was, whoever forked it.          *)
(***************************************************************************)
THEOREM PanicScreen == SequentialSpec => []PanicShowsFault
<1> DEFINE Inv == part = "start-up" => PanicInv
           Seg == part = "start-up" => SegmentsInv
<1>1. SequentialInit => Inv
  BY StartupInit DEF S!Init, PanicInv, GatesInv, S!PanicShowsFault
<1>2. TablesFit
  BY TablesDoFit
<1>3. Seg /\ Inv /\ [SequentialNext]_allvars => Inv'
  BY <1>2, StartupStep, PanicInvNext, InstancesAssumption
<1>4. Inv => PanicShowsFault
  BY DEF PanicInv, PanicShowsFault
<1>5. SequentialSpec => []Seg
  BY SegmentsHold
<1> QED
  BY <1>1, <1>3, <1>4, <1>5, PTL DEF SequentialSpec

----------------------------------------------------------------------------
(* Formatted output and delays, which share no variable with the start-up. *)

\* They begin in one of their initial states ...
LEMMA OutputAndDelayInit ==
  ASSUME SequentialInit PROVE O!Init /\ D!Init
BY DEF SequentialInit

\* ... and a step of the system is a step of theirs or leaves them alone.
LEMMA OutputAndDelayStep ==
  ASSUME [SequentialNext]_allvars
  PROVE  /\ O!Next \/ UNCHANGED ovars
         /\ D!Next \/ UNCHANGED dvars
BY DEF SequentialNext, Still, allvars

----------------------------------------------------------------------------
(* Formatted output: numbers                                               *)

\* A function on 0..n can be defined step by step.
Steps(S0, n) == [1..n -> [S0 -> S0]]
Iterates(S0, a, n, f) == \E g \in [0..n -> S0] : g[0] = a /\ \A k \in 1..n : g[k] = f[k][g[k - 1]]

LEMMA Iteration ==
  ASSUME NEW S0, NEW a \in S0, NEW n \in Nat, NEW f \in Steps(S0, n)
  PROVE  Iterates(S0, a, n, f)
<1> DEFINE Good(m) == \E g \in [0..m -> S0] : g[0] = a /\ \A k \in 1..m : g[k] = f[k][g[k - 1]]
           Bad == {m \in 0..n : ~ Good(m)}
<1>1. Good(0)
  <2> DEFINE g == [k \in 0..0 |-> a]
  <2>1. g \in [0..0 -> S0] /\ g[0] = a /\ \A k \in 1..0 : g[k] = f[k][g[k - 1]]
    OBVIOUS
  <2> QED BY <2>1
<1>2. ASSUME NEW m \in 1..n, Good(m - 1) PROVE Good(m)
  <2>1. PICK g \in [0..(m - 1) -> S0] : g[0] = a /\ \A k \in 1..(m - 1) : g[k] = f[k][g[k - 1]]
    BY <1>2
  <2> DEFINE h == [k \in 0..m |-> IF k = m THEN f[m][g[m - 1]] ELSE g[k]]
  <2>2. h \in [0..m -> S0] /\ h[0] = a
    <3>1. f[m] \in [S0 -> S0] /\ g[m - 1] \in S0
      BY DEF Steps
    <3> QED BY <2>1, <3>1
  <2>3. ASSUME NEW k \in 1..m PROVE h[k] = f[k][h[k - 1]]
    BY <2>1
  <2> HIDE DEF h
  <2> QED BY <2>2, <2>3
<1>3. ASSUME Bad # {} PROVE FALSE
  <2>1. PICK m \in Bad : \A k \in Bad : m =< k
    <3>1. Bad \in SUBSET Nat
      OBVIOUS
    <3> HIDE DEF Bad
    <3> QED BY <1>3, <3>1, LeastExists
  <2>2. m \in 0..n /\ ~ Good(m)
    OBVIOUS
  <2>3. m # 0
    BY <1>1, <2>2
  <2>4. m - 1 \in 0..n /\ m - 1 \notin Bad /\ m \in 1..n
    <3> HIDE DEF Bad
    <3> QED BY <2>1, <2>2, <2>3
  <2>5. Good(m - 1)
    BY <2>4
  <2> QED BY <1>2, <2>2, <2>4, <2>5
<1>4. n \notin Bad
  <2> HIDE DEF Bad
  <2> QED BY <1>3
<1>5. n \in 0..n
  OBVIOUS
<1> QED BY <1>4, <1>5 DEF Iterates

\* The digits of a number that the loop of s32_itoa writes: its last one and then those of the rest.
LEMMA DigitsDef ==
  ASSUME NEW r \in {10, 16}
  PROVE  /\ O!LowDigits(r)[0] = << >>
         /\ \A n \in Nat : n # 0 => O!LowDigits(r)[n] = <<O!Digit(n % r)>> \o O!LowDigits(r)[n \div r]
         /\ \A n \in Nat : O!LowDigits(r)[n] \in Seq(Nat)
<1> DEFINE Step(n, t) == IF n = 0 THEN << >> ELSE <<O!Digit(n % r)>> \o t
           Eq(f) == f = [n \in Nat |-> Step(n, f[n \div r])]
           Sol(m) == {f \in [0..m -> Seq(Nat)] : \A n \in 0..m : f[n] = Step(n, f[n \div r])}
<1>1. ASSUME NEW n \in Nat PROVE n \div r \in 0..n /\ (n # 0 => n \div r \in 0..(n - 1)) /\ n % r \in Nat
  <2>1. CASE r = 10
    BY <2>1
  <2>2. CASE r = 16
    BY <2>2
  <2> QED BY <2>1, <2>2
<1>2. ASSUME NEW n \in Nat, NEW t \in Seq(Nat) PROVE Step(n, t) \in Seq(Nat)
  <2>1. O!Digit(n % r) \in Nat
    BY <1>1 DEF O!Digit
  <2> QED BY <2>1
<1>3. ASSUME NEW m \in Nat PROVE Sol(m) # {}
  <2> DEFINE Bad == {k \in Nat : Sol(k) = {}}
  <2>1. Sol(0) # {}
    <3> DEFINE f == [n \in 0..0 |-> << >>]
    <3>1. f \in [0..0 -> Seq(Nat)] /\ \A n \in 0..0 : f[n] = Step(n, f[n \div r])
      OBVIOUS
    <3> QED BY <3>1
  <2>2. ASSUME NEW k \in Nat, k # 0, Sol(k - 1) # {} PROVE Sol(k) # {}
    <3>1. PICK f \in [0..(k - 1) -> Seq(Nat)] : \A n \in 0..(k - 1) : f[n] = Step(n, f[n \div r])
      BY <2>2
    <3> DEFINE h == [n \in 0..k |-> IF n = k THEN Step(k, f[k \div r]) ELSE f[n]]
    <3>2. k \div r \in 0..(k - 1)
      BY <1>1, <2>2
    <3>3. Step(k, f[k \div r]) \in Seq(Nat)
      BY <1>2, <3>2
    <3>4. h \in [0..k -> Seq(Nat)]
      <4> HIDE DEF Step
      <4> QED BY <3>3
    <3>5. ASSUME NEW n \in 0..k PROVE h[n] = Step(n, h[n \div r])
      <4>1. n \div r \in 0..n /\ (n # 0 => n \div r \in 0..(n - 1))
        BY <1>1
      <4>2. n \div r # k
        BY <2>2, <4>1
      <4>3. h[n \div r] = f[n \div r]
        BY <4>1, <4>2
      <4> HIDE DEF Step
      <4>4. CASE n = k
        BY <4>3, <4>4
      <4>5. CASE n # k
        <5>1. n \in 0..(k - 1)
          BY <4>5
        <5> QED BY <3>1, <4>3, <4>5, <5>1
      <4> QED BY <4>4, <4>5
    <3> HIDE DEF h, Step
    <3> QED BY <3>4, <3>5
  <2> HIDE DEF Sol
  <2>3. ASSUME Bad # {} PROVE FALSE
    <3>1. PICK k \in Bad : \A j \in Bad : k =< j
      <4>1. Bad \in SUBSET Nat
        OBVIOUS
      <4> HIDE DEF Bad
      <4> QED BY <2>3, <4>1, LeastExists
    <3>2. k \in Nat /\ k # 0
      BY <2>1
    <3>3. k - 1 \in Nat /\ k - 1 \notin Bad
      BY <3>1, <3>2
    <3> QED BY <2>2, <3>2, <3>3
  <2> QED BY <2>3
<1>4. ASSUME NEW a \in Nat, NEW b \in Nat, NEW f \in Sol(a), NEW g \in Sol(b), NEW n \in Nat, n =< a, n =< b
      PROVE  f[n] = g[n]
  <2> DEFINE Bad == {k \in 0..n : f[k] # g[k]}
  <2>1. ASSUME Bad # {} PROVE FALSE
    <3>1. PICK k \in Bad : \A j \in Bad : k =< j
      <4>1. Bad \in SUBSET Nat
        OBVIOUS
      <4> HIDE DEF Bad
      <4> QED BY <2>1, <4>1, LeastExists
    <3>2. k \in Nat /\ k =< a /\ k =< b /\ k =< n /\ f[k] # g[k]
      BY <1>4
    <3>3. f[k] = Step(k, f[k \div r]) /\ g[k] = Step(k, g[k \div r])
      <4> HIDE DEF Step
      <4> QED BY <3>2
    <3>4. k # 0
      BY <3>2, <3>3
    <3>5. k \div r \in 0..(k - 1)
      BY <1>1, <3>2, <3>4
    <3>6. k \div r \in 0..n /\ k \div r \notin Bad
      BY <3>1, <3>2, <3>5
    <3>7. f[k \div r] = g[k \div r]
      BY <3>6
    <3> HIDE DEF Step
    <3> QED BY <3>2, <3>3, <3>7
  <2>2. n \notin Bad
    <3> HIDE DEF Bad
    <3> QED BY <2>1
  <2>3. n \in 0..n
    OBVIOUS
  <2> QED BY <2>2, <2>3
<1> DEFINE sol(n) == CHOOSE f \in Sol(n) : TRUE
           h == [n \in Nat |-> sol(n)[n]]
<1>5. ASSUME NEW n \in Nat PROVE sol(n) \in Sol(n)
  <2> HIDE DEF Sol
  <2> QED BY <1>3
<1>6. ASSUME NEW n \in Nat PROVE h[n] = Step(n, h[n \div r]) /\ h[n] \in Seq(Nat)
  <2> HIDE DEF sol
  <2>1. sol(n)[n] = Step(n, sol(n)[n \div r]) /\ sol(n)[n] \in Seq(Nat)
    <3> HIDE DEF Step
    <3>1. n \in 0..n
      OBVIOUS
    <3> QED BY <1>5, <3>1
  <2>2. n \div r \in Nat /\ n \div r =< n
    BY <1>1
  <2>3. sol(n)[n \div r] = sol(n \div r)[n \div r]
    <3> HIDE DEF Sol
    <3>1. sol(n) \in Sol(n) /\ sol(n \div r) \in Sol(n \div r) /\ n \div r =< n \div r
      BY <1>5, <2>2
    <3> QED BY <1>4, <2>2, <3>1, Zenon
  <2> HIDE DEF Step
  <2> QED BY <2>1, <2>2, <2>3
<1>7. Eq(h)
  <2> HIDE DEF Step
  <2>1. h = [n \in Nat |-> h[n]]
    OBVIOUS
  <2> HIDE DEF h
  <2>2. [n \in Nat |-> h[n]] = [n \in Nat |-> Step(n, h[n \div r])]
    BY <1>6
  <2> QED BY <2>1, <2>2, Zenon
<1>8. O!LowDigits(r) = CHOOSE f : Eq(f)
  BY DEF O!LowDigits
<1>9. Eq(O!LowDigits(r))
  <2> HIDE DEF Eq, h
  <2> QED BY <1>7, <1>8
<1> DEFINE d == O!LowDigits(r)
<1>10. ASSUME NEW n \in Nat PROVE d[n] = Step(n, d[n \div r])
  <2> HIDE DEF Step
  <2> QED BY <1>9
<1>11. ASSUME NEW n \in Nat PROVE d[n] \in Seq(Nat)
  <2> HIDE DEF d
  <2> DEFINE Bad == {k \in Nat : d[k] \notin Seq(Nat)}
  <2>1. ASSUME Bad # {} PROVE FALSE
    <3>1. PICK k \in Bad : \A j \in Bad : k =< j
      <4>1. Bad \in SUBSET Nat
        OBVIOUS
      <4> HIDE DEF Bad
      <4> QED BY <2>1, <4>1, LeastExists
    <3>2. k \in Nat /\ d[k] \notin Seq(Nat)
      OBVIOUS
    <3>3. k # 0
      <4>1. d[0] = Step(0, d[0 \div r])
        BY <1>10
      <4>2. d[0] \in Seq(Nat)
        BY <4>1
      <4> QED BY <3>2, <4>2
    <3>4. k \div r \in 0..(k - 1)
      BY <1>1, <3>2, <3>3
    <3>5. k \div r \in Nat /\ k \div r \notin Bad
      BY <3>1, <3>4
    <3> HIDE DEF Step
    <3> QED BY <1>2, <1>10, <3>2, <3>5
  <2> QED BY <2>1
<1> QED BY <1>10, <1>11

\* A sequence turned round, and its first k elements exchanged with its last k.
Rev(s) == [j \in 1..Len(s) |-> s[Len(s) + 1 - j]]
Half(s, k) == [j \in 1..Len(s) |-> IF j =< k \/ j > Len(s) - k THEN s[Len(s) + 1 - j] ELSE s[j]]

\* Beside the pair k the same elements are exchanged before and after its turn.
LEMMA OtherPairs ==
  ASSUME NEW l \in Nat, NEW k \in Nat, NEW j \in Nat, j # k, j # l + 1 - k
  PROVE  (j =< k \/ j > l - k) <=> (j =< k - 1 \/ j > l - (k - 1))
OBVIOUS

\* Only the element in the middle has no partner.
LEMMA AllPairs ==
  ASSUME NEW l \in Nat, NEW n \in Nat, l =< 2 * n + 1, NEW j \in Nat
  PROVE  j =< n \/ j > l - n \/ l + 1 - j = j
OBVIOUS

\* The loop of s32_itoa that exchanges digits turns them round if none is a '-'.
LEMMA TurnedReverses ==
  ASSUME NEW s \in Seq(Nat), \A k \in 1..Len(s) : s[k] # O!MINUS
  PROVE  O!Turned(s) = Rev(s)
<1> DEFINE n == Len(s) \div 2
           Step(k, t) == IF t[(Len(s) + 1 - k) - 1] = O!MINUS THEN t
                         ELSE [t EXCEPT ![k] = t[Len(s) + 1 - k], ![Len(s) + 1 - k] = t[k]]
           Eq(f) == f = [k \in 0..n |-> IF k = 0 THEN s ELSE Step(k, f[k - 1])]
           g == [k \in 0..n |-> Half(s, k)]
           turned == CHOOSE f : Eq(f)
<1>1. O!Turned(s) = turned[n]
  BY DEF O!Turned
<1>2. Len(s) \in Nat /\ n \in Nat /\ 2 * n =< Len(s) /\ Len(s) =< 2 * n + 1
  OBVIOUS
<1> HIDE DEF n
<1>3. Half(s, 0) = s
  BY DEF Half
<1>4. ASSUME NEW k \in 1..n PROVE Half(s, k) = Step(k, Half(s, k - 1))
  <2> DEFINE t == Half(s, k - 1)
             q == Len(s) + 1 - k
  <2>1. q \in Nat /\ q \in 1..Len(s) /\ k \in 1..Len(s) /\ k < q /\ q - 1 \in 1..Len(s)
    BY <1>2
  <2>2. DOMAIN t = 1..Len(s)
    BY DEF Half
  <2>3. t[k] = s[k] /\ t[q] = s[q]
    BY <2>1 DEF Half
  <2>4. t[q - 1] # O!MINUS
    <3>1. Len(s) + 1 - (q - 1) \in 1..Len(s)
      BY <2>1
    <3>2. t[q - 1] = s[q - 1] \/ t[q - 1] = s[Len(s) + 1 - (q - 1)]
      BY <2>1 DEF Half
    <3> QED BY <2>1, <3>1, <3>2
  <2>5. Step(k, t) = [t EXCEPT ![k] = t[q], ![q] = t[k]]
    BY <2>4
  <2> DEFINE e == [t EXCEPT ![k] = t[q], ![q] = t[k]]
  <2>6. ASSUME NEW j \in 1..Len(s) PROVE Half(s, k)[j] = e[j]
    <3>1. CASE j = k
      <4>1. e[j] = t[q]
        BY <2>1, <2>2, <3>1
      <4>2. Half(s, k)[j] = s[Len(s) + 1 - k]
        BY <3>1, <1>2 DEF Half
      <4> QED BY <2>3, <4>1, <4>2
    <3>2. CASE j = q
      <4>1. e[j] = t[k]
        BY <2>1, <2>2, <3>2
      <4>2. j > Len(s) - k /\ Len(s) + 1 - j = k
        BY <1>2, <2>1, <3>2
      <4>3. Half(s, k)[j] = s[k]
        BY <4>2 DEF Half
      <4> QED BY <2>3, <4>1, <4>3
    <3>3. CASE j # k /\ j # q
      <4>1. e[j] = t[j]
        BY <2>1, <2>2, <3>3
      <4>2. (j =< k \/ j > Len(s) - k) <=> (j =< k - 1 \/ j > Len(s) - (k - 1))
        <5>1. Len(s) \in Nat /\ k \in Nat /\ j \in Nat /\ j # k /\ j # Len(s) + 1 - k
          BY <1>2, <3>3
        <5> QED BY <5>1, OtherPairs
      <4>3. Half(s, k)[j] = t[j]
        BY <4>2 DEF Half
      <4> QED BY <4>1, <4>3
    <3> QED BY <3>1, <3>2, <3>3
  <2>7. DOMAIN e = 1..Len(s)
    BY <2>2
  <2>8. Half(s, k) = [j \in 1..Len(s) |-> Half(s, k)[j]] /\ e = [j \in 1..Len(s) |-> e[j]]
    <3>1. Half(s, k) = [j \in 1..Len(s) |-> Half(s, k)[j]]
      BY DEF Half
    <3>2. e = [j \in DOMAIN t |-> e[j]]
      OBVIOUS
    <3> QED BY <2>2, <3>1, <3>2
  <2>9. Half(s, k) = e
    <3> HIDE DEF e
    <3> QED BY <2>6, <2>8
  <2> QED BY <2>5, <2>9
<1> HIDE DEF Step
<1>5. Eq(g)
  <2>1. ASSUME NEW k \in 0..n PROVE Half(s, k) = IF k = 0 THEN s ELSE Step(k, g[k - 1])
    <3>1. CASE k = 0
      BY <1>3, <3>1
    <3>2. CASE k # 0
      <4>1. k \in 1..n /\ k - 1 \in 0..n
        BY <1>2, <3>2
      <4>2. g[k - 1] = Half(s, k - 1)
        BY <4>1
      <4> QED BY <1>4, <3>2, <4>1, <4>2
    <3> QED BY <3>1, <3>2
  <2> QED BY <2>1
<1>6. Eq(turned)
  <2> HIDE DEF Eq, g
  <2> QED BY <1>5
<1> HIDE DEF turned
<1>7. ASSUME NEW k \in 0..n PROVE turned[k] = Half(s, k)
  <2> DEFINE Bad == {j \in 0..n : turned[j] # Half(s, j)}
  <2>1. ASSUME Bad # {} PROVE FALSE
    <3>1. PICK j \in Bad : \A i \in Bad : j =< i
      <4>1. Bad \in SUBSET Nat
        BY <1>2
      <4> HIDE DEF Bad
      <4> QED BY <2>1, <4>1, LeastExists
    <3>2. j \in 0..n /\ turned[j] # Half(s, j)
      OBVIOUS
    <3>3. j # 0
      <4>1. 0 \in 0..n
        BY <1>2
      <4>2. turned[0] = s
        BY <1>6, <4>1
      <4> QED BY <1>3, <3>2, <4>2
    <3>4. j \in 1..n /\ j - 1 \in 0..n /\ j - 1 \notin Bad
      BY <1>2, <3>1, <3>2, <3>3
    <3>5. turned[j - 1] = Half(s, j - 1)
      BY <3>4
    <3>6. turned[j] = Step(j, turned[j - 1])
      BY <1>6, <3>2, <3>3
    <3> QED BY <1>4, <3>2, <3>4, <3>5, <3>6
  <2>2. k \notin Bad
    <3> HIDE DEF Bad
    <3> QED BY <2>1
  <2> QED BY <2>2
<1>8. Half(s, n) = Rev(s)
  <2>1. ASSUME NEW j \in 1..Len(s)
        PROVE  (IF j =< n \/ j > Len(s) - n THEN s[Len(s) + 1 - j] ELSE s[j]) = s[Len(s) + 1 - j]
    <3>1. j =< n \/ j > Len(s) - n \/ Len(s) + 1 - j = j
      <4>1. Len(s) \in Nat /\ n \in Nat /\ Len(s) =< 2 * n + 1 /\ j \in Nat
        BY <1>2
      <4> QED BY <4>1, AllPairs
    <3> QED BY <3>1
  <2> QED BY <2>1 DEF Half, Rev
<1>9. n \in 0..n
  BY <1>2
<1> QED BY <1>1, <1>7, <1>8, <1>9

\* The value of a digit.
DigitValue(c) == IF c < 58 THEN c - 48 ELSE IF c < 97 THEN c - 55 ELSE c - 87

\* A reader of digits is the function that reads them one by one.
LEMMA ValueIs ==
  ASSUME NEW s \in Seq(Int), NEW r \in Int, NEW g \in [0..Len(s) -> Int],
         g[0] = 0, \A k \in 1..Len(s) : g[k] = g[k - 1] * r + DigitValue(s[k])
  PROVE  O!Value(s, r) = g[Len(s)]
<1> DEFINE Step(k, x) == x * r + DigitValue(s[k])
           Eq(f) == f = [k \in 0..Len(s) |-> IF k = 0 THEN 0 ELSE Step(k, f[k - 1])]
           value == CHOOSE f : Eq(f)
<1>1. O!Value(s, r) = value[Len(s)]
  BY DEF O!Value, DigitValue
<1>2. Len(s) \in Nat
  OBVIOUS
<1>3. \A k \in 1..Len(s) : g[k] = Step(k, g[k - 1])
  OBVIOUS
<1> HIDE DEF Step
<1>4. Eq(g)
  <2>1. ASSUME NEW k \in 0..Len(s) PROVE g[k] = IF k = 0 THEN 0 ELSE Step(k, g[k - 1])
    <3>1. CASE k = 0
      BY <3>1
    <3>2. CASE k # 0
      <4>1. k \in 1..Len(s)
        BY <1>2, <3>2
      <4> QED BY <1>3, <3>2, <4>1
    <3> QED BY <3>1, <3>2
  <2>2. g = [k \in 0..Len(s) |-> g[k]]
    OBVIOUS
  <2>3. [k \in 0..Len(s) |-> g[k]] = [k \in 0..Len(s) |-> IF k = 0 THEN 0 ELSE Step(k, g[k - 1])]
    BY <2>1
  <2> QED BY <2>2, <2>3, Zenon
<1>5. Eq(value)
  <2> HIDE DEF Eq
  <2> QED BY <1>4
<1> HIDE DEF value
<1> DEFINE Bad == {j \in 0..Len(s) : value[j] # g[j]}
<1>6. ASSUME Bad # {} PROVE FALSE
  <2>1. PICK j \in Bad : \A i \in Bad : j =< i
    <3>1. Bad \in SUBSET Nat
      BY <1>2
    <3> HIDE DEF Bad
    <3> QED BY <1>6, <3>1, LeastExists
  <2>2. j \in 0..Len(s) /\ value[j] # g[j]
    OBVIOUS
  <2>3. j # 0
    <3>1. 0 \in 0..Len(s)
      BY <1>2
    <3>2. value[0] = 0
      BY <1>5, <3>1
    <3> QED BY <2>2, <3>2
  <2>4. j \in 1..Len(s) /\ j - 1 \in 0..Len(s) /\ j - 1 \notin Bad
    BY <1>2, <2>1, <2>2, <2>3
  <2>5. value[j - 1] = g[j - 1]
    BY <2>4
  <2>6. value[j] = Step(j, value[j - 1])
    BY <1>5, <2>2, <2>3
  <2> QED BY <1>3, <2>2, <2>4, <2>5, <2>6
<1>7. Len(s) \notin Bad
  <2> HIDE DEF Bad
  <2> QED BY <1>6
<1> QED BY <1>1, <1>2, <1>7

\* One more digit multiplies the value by the base.
LEMMA ValueAppend ==
  ASSUME NEW s \in Seq(Int), NEW c \in Int, NEW r \in Int
  PROVE  /\ O!Value(Append(s, c), r) = O!Value(s, r) * r + DigitValue(c)
         /\ O!Value(s, r) \in Int
         /\ O!Value(<< >>, r) = 0
<1> DEFINE t == Append(s, c)
           n == Len(s)
           f == [k \in 1..(n + 1) |-> [x \in Int |-> x * r + DigitValue(t[k])]]
<1>1. n \in Nat /\ t \in Seq(Int) /\ Len(t) = n + 1 /\ t[n + 1] = c /\ \A k \in 1..n : t[k] = s[k]
  OBVIOUS
<1> HIDE DEF t, n
<1>2. \A k \in 1..(n + 1) : t[k] \in Int
  BY <1>1
<1>3. \A k \in 1..(n + 1) : DigitValue(t[k]) \in Int
  BY <1>2 DEF DigitValue
<1>4. f \in [1..(n + 1) -> [Int -> Int]]
  BY <1>3
<1>5. PICK g \in [0..(n + 1) -> Int] : g[0] = 0 /\ \A k \in 1..(n + 1) : g[k] = f[k][g[k - 1]]
  <2> HIDE DEF f
  <2> DEFINE m == n + 1
             I == Int
             z == 0
  <2>1. m \in Nat /\ z \in I
    BY <1>1
  <2>2. f \in Steps(I, m)
    BY <1>4 DEF Steps
  <2> HIDE DEF m, I, z
  <2>3. Iterates(I, z, m, f)
    BY <2>1, <2>2, Iteration, Zenon
  <2> QED BY <2>3 DEF m, I, z, Iterates
<1>6. ASSUME NEW k \in 1..(n + 1) PROVE g[k] = g[k - 1] * r + DigitValue(t[k])
  <2>1. g[k - 1] \in Int
    BY <1>1
  <2> QED BY <1>5, <2>1
<1>7. O!Value(t, r) = g[n + 1]
  <2>1. t \in Seq(Int) /\ g \in [0..Len(t) -> Int] /\ g[0] = 0 /\ Len(t) = n + 1
    BY <1>1, <1>5
  <2>2. \A k \in 1..Len(t) : g[k] = g[k - 1] * r + DigitValue(t[k])
    BY <1>1, <1>6
  <2>3. O!Value(t, r) = g[Len(t)]
    BY <2>1, <2>2, ValueIs, Zenon
  <2> QED BY <2>1, <2>3
<1> DEFINE h == [k \in 0..n |-> g[k]]
<1>8. O!Value(s, r) = g[n]
  <2>1. h \in [0..Len(s) -> Int] /\ h[0] = 0 /\ h[n] = g[n]
    BY <1>1, <1>5 DEF n
  <2>2. ASSUME NEW k \in 1..Len(s) PROVE h[k] = h[k - 1] * r + DigitValue(s[k])
    <3>1. k \in 1..(n + 1) /\ k - 1 \in 0..n /\ k \in 0..n /\ t[k] = s[k]
      BY <1>1 DEF n
    <3> QED BY <1>6, <3>1
  <2> HIDE DEF h
  <2>3. O!Value(s, r) = h[Len(s)]
    BY <2>1, <2>2, ValueIs
  <2> QED BY <2>1, <2>3 DEF n
<1>9. O!Value(<< >>, r) = 0
  <2> DEFINE e == [k \in 0..0 |-> 0]
             z == << >>
  <2>1. z \in Seq(Int) /\ Len(z) = 0
    OBVIOUS
  <2>2. e \in [0..Len(z) -> Int] /\ e[0] = 0 /\ \A k \in 1..Len(z) : e[k] = e[k - 1] * r + DigitValue(z[k])
    BY <2>1
  <2> HIDE DEF e, z
  <2>3. O!Value(z, r) = e[Len(z)]
    BY <2>1, <2>2, ValueIs
  <2> QED BY <2>1, <2>2, <2>3 DEF z
<1>10. n + 1 \in 1..(n + 1) /\ n \in 0..(n + 1)
  BY <1>1
<1> QED BY <1>1, <1>5, <1>6, <1>7, <1>8, <1>9, <1>10 DEF t

\* A sequence turned round has the same length.
LEMMA RevFacts ==
  ASSUME NEW t \in Seq(Nat)
  PROVE  Rev(t) \in Seq(Nat) /\ Len(Rev(t)) = Len(t)
<1>1. Len(t) \in Nat /\ \A j \in 1..Len(t) : Len(t) + 1 - j \in 1..Len(t)
  OBVIOUS
<1> QED BY <1>1 DEF Rev

\* The last digit of a number turned round comes last.
LEMMA RevOfCons ==
  ASSUME NEW c \in Nat, NEW t \in Seq(Nat)
  PROVE  Rev(<<c>> \o t) = Append(Rev(t), c)
<1> DEFINE u == <<c>> \o t
           n == Len(t)
           w == Rev(t)
<1>1. n \in Nat /\ u \in Seq(Nat) /\ Len(u) = n + 1 /\ u[1] = c /\ \A k \in 2..(n + 1) : u[k] = t[k - 1]
  OBVIOUS
<1>2. w = [j \in 1..n |-> t[n + 1 - j]]
  BY DEF Rev
<1>3. \A j \in 1..n : n + 1 - j \in 1..n
  BY <1>1
<1>4. w \in Seq(Nat) /\ Len(w) = n /\ \A j \in 1..n : w[j] = t[n + 1 - j]
  BY <1>1, <1>2, <1>3
<1> HIDE DEF u, w
<1>5. Rev(u) = [j \in 1..(n + 1) |-> u[n + 2 - j]]
  BY <1>1 DEF Rev
<1> HIDE DEF n
<1>6. ASSUME NEW j \in 1..(n + 1) PROVE u[n + 2 - j] = Append(w, c)[j]
  <2>1. CASE j = n + 1
    BY <1>1, <1>4, <2>1
  <2>2. CASE j # n + 1
    <3>1. j \in 1..n /\ n + 2 - j \in 2..(n + 1)
      BY <1>1, <2>2
    <3>2. u[n + 2 - j] = t[n + 1 - j]
      <4>1. (n + 2 - j) - 1 = n + 1 - j
        BY <1>1
      <4> QED BY <1>1, <3>1, <4>1
    <3>3. Append(w, c)[j] = w[j]
      BY <1>4, <3>1
    <3> QED BY <1>4, <3>1, <3>2, <3>3
  <2> QED BY <2>1, <2>2
<1>7. Append(w, c) = [j \in 1..(n + 1) |-> Append(w, c)[j]]
  <2> DEFINE z == Append(w, c)
  <2>1. z \in Seq(Nat) /\ Len(z) = n + 1
    BY <1>4
  <2> HIDE DEF z
  <2>2. z = [j \in 1..Len(z) |-> z[j]]
    BY <2>1
  <2> QED BY <2>1, <2>2 DEF z
<1>8. Rev(u) = Append(w, c)
  BY <1>5, <1>6, <1>7
<1> QED BY <1>4, <1>8 DEF u, w, n

\* The code of a digit, and the digit of the code.
LEMMA DigitFacts ==
  ASSUME NEW d \in 0..15
  PROVE  /\ O!Digit(d) \in Nat /\ O!Digit(d) # O!MINUS /\ DigitValue(O!Digit(d)) = d
         /\ O!Digit(d) = 48 => d = 0
BY DEF O!Digit, O!MINUS, DigitValue

\* Dividing by the base.
Division(n, r, q, d) ==
  /\ n \div r = q /\ n % r = d /\ n = q * r + d
  /\ n # 0 => q < n
  /\ n # 0 /\ q = 0 => d # 0
  /\ \A b \in Nat : n < b * 10 => q < b

LEMMA DivFacts ==
  ASSUME NEW r \in {10, 16}, NEW n \in Nat
  PROVE  \E q \in Nat, d \in 0..15 : Division(n, r, q, d)
<1>1. CASE r = 10
  <2>1. PICK q \in Nat, d \in 0..15 : n \div 10 = q /\ n % 10 = d /\ n = q * 10 + d
    OBVIOUS
  <2>2. /\ n # 0 => q < n
        /\ n # 0 /\ q = 0 => d # 0
        /\ \A b \in Nat : n < b * 10 => q < b
    BY <2>1
  <2>3. Division(n, r, q, d)
    BY <1>1, <2>1, <2>2 DEF Division
  <2> QED BY <2>3
<1>2. CASE r = 16
  <2>1. PICK q \in Nat, d \in 0..15 : n \div 16 = q /\ n % 16 = d /\ n = q * 16 + d
    OBVIOUS
  <2>2. /\ n # 0 => q < n
        /\ n # 0 /\ q = 0 => d # 0
        /\ \A b \in Nat : n < b * 10 => q < b
    BY <2>1
  <2>3. Division(n, r, q, d)
    BY <1>2, <2>1, <2>2 DEF Division
  <2> QED BY <2>3
<1> QED BY <1>1, <1>2

\* What the digits of a number are: none is a '-', the first is not 0, and they stand for the number.
Reads(r, n) ==
  LET d == O!LowDigits(r)[n]
  IN  /\ O!Value(Rev(d), r) = n
      /\ n # 0 => Len(d) > 0 /\ d[Len(d)] # 48
      /\ \A k \in 1..Len(d) : d[k] # O!MINUS

\* The digits of s32_itoa stand for the number.
LEMMA DigitsRead ==
  ASSUME NEW r \in {10, 16}, NEW n \in Nat
  PROVE  Reads(r, n)
<1> DEFINE ld == O!LowDigits(r)
           Bad == {k \in Nat : ~ Reads(r, k)}
<1>1. /\ ld[0] = << >>
      /\ \A k \in Nat : k # 0 => ld[k] = <<O!Digit(k % r)>> \o ld[k \div r]
      /\ \A k \in Nat : ld[k] \in Seq(Nat)
  BY DigitsDef
<1>2. Reads(r, 0)
  <2>1. Rev(<< >>) = << >>
    BY DEF Rev
  <2>2. O!Value(<< >>, r) = 0
    <3>1. r \in Int /\ 0 \in Int
      OBVIOUS
    <3>2. << >> \in Seq(Int)
      OBVIOUS
    <3> QED BY <3>1, <3>2, ValueAppend
  <2> QED BY <1>1, <2>1, <2>2 DEF Reads
<1>3. ASSUME NEW m \in Nat, m # 0, Reads(r, m \div r) PROVE Reads(r, m)
  <2>1. PICK q \in Nat, d \in 0..15 : Division(m, r, q, d)
    BY DivFacts
  <2>2. m \div r = q /\ m % r = d /\ m = q * r + d /\ (q = 0 => d # 0)
    BY <1>3, <2>1 DEF Division
  <2> DEFINE c == O!Digit(d)
             t == ld[q]
             u == ld[m]
  <2>3. c \in Nat /\ c # O!MINUS /\ DigitValue(c) = d /\ (c = 48 => d = 0)
    BY DigitFacts
  <2>4. t \in Seq(Nat) /\ u = <<c>> \o t
    <3>1. u = <<O!Digit(m % r)>> \o ld[m \div r]
      BY <1>1, <1>3
    <3> QED BY <1>1, <2>2, <3>1
  <2>5. /\ O!Value(Rev(t), r) = q /\ (q # 0 => Len(t) > 0 /\ t[Len(t)] # 48)
        /\ \A k \in 1..Len(t) : t[k] # O!MINUS
    BY <1>3, <2>2 DEF Reads
  <2>6. q = 0 => t = << >>
    BY <1>1
  <2> HIDE DEF c, t, u, ld
  <2>7. Rev(u) = Append(Rev(t), c) /\ Rev(t) \in Seq(Nat)
    BY <2>3, <2>4, RevFacts, RevOfCons
  <2>8. O!Value(Rev(u), r) = m
    <3>1. Rev(t) \in Seq(Int) /\ c \in Int /\ r \in Int
      BY <2>3, <2>7
    <3>2. O!Value(Append(Rev(t), c), r) = O!Value(Rev(t), r) * r + DigitValue(c)
      BY <3>1, ValueAppend
    <3>3. O!Value(Rev(t), r) = q /\ DigitValue(c) = d /\ Rev(u) = Append(Rev(t), c)
      BY <2>3, <2>5, <2>7, Zenon
    <3> QED BY <2>2, <3>2, <3>3, Zenon
  <2>9. /\ Len(t) \in Nat /\ Len(u) = Len(t) + 1 /\ u[1] = c
        /\ \A k \in 2..(Len(t) + 1) : u[k] = t[k - 1]
    BY <2>3, <2>4
  <2>10. Len(u) > 0 /\ u[Len(u)] # 48
    <3>1. CASE q = 0
      <4>1. Len(t) = 0
        BY <2>6, <3>1
      <4> QED BY <1>3, <2>2, <2>3, <2>9, <3>1, <4>1
    <3>2. CASE q # 0
      <4>1. Len(t) + 1 \in 2..(Len(t) + 1) /\ (Len(t) + 1) - 1 = Len(t)
        BY <2>5, <2>9, <3>2
      <4>2. u[Len(t) + 1] = t[Len(t)]
        BY <2>9, <4>1
      <4> QED BY <2>5, <2>9, <3>2, <4>2
    <3> QED BY <3>1, <3>2
  <2>11. ASSUME NEW k \in 1..Len(u) PROVE u[k] # O!MINUS
    <3>1. CASE k = 1
      BY <2>3, <2>9, <3>1
    <3>2. CASE k # 1
      <4>1. k \in 2..(Len(t) + 1) /\ k - 1 \in 1..Len(t)
        BY <2>9, <3>2
      <4> QED BY <2>5, <2>9, <4>1
    <3> QED BY <3>1, <3>2
  <2> QED BY <2>8, <2>10, <2>11 DEF Reads, u, ld
<1>4. ASSUME Bad # {} PROVE FALSE
  <2>1. PICK m \in Bad : \A k \in Bad : m =< k
    <3>1. Bad \in SUBSET Nat
      OBVIOUS
    <3> HIDE DEF Bad
    <3> QED BY <1>4, <3>1, LeastExists
  <2>2. m \in Nat /\ ~ Reads(r, m)
    OBVIOUS
  <2>3. m # 0
    BY <1>2, <2>2
  <2>4. m \div r \in Nat /\ m \div r < m
    <3>1. PICK q \in Nat, d \in 0..15 : Division(m, r, q, d)
      BY <2>2, DivFacts
    <3> QED BY <2>3, <3>1 DEF Division
  <2>5. m \div r \notin Bad
    <3> HIDE DEF Bad
    <3> QED BY <2>1, <2>2, <2>4
  <2>6. Reads(r, m \div r)
    BY <2>4, <2>5
  <2> QED BY <1>3, <2>2, <2>3, <2>6
<1> QED BY <1>4

\* The numbers below b have at most l digits.
Short(r, b, l) == \A n \in Nat : n < b => Len(O!LowDigits(r)[n]) =< l

\* One digit more is enough for ten times as many numbers.
LEMMA LongerNumbers ==
  ASSUME NEW r \in {10, 16}, NEW b \in Nat, NEW l \in Nat, Short(r, b, l)
  PROVE  Short(r, b * 10, l + 1)
<1> DEFINE ld == O!LowDigits(r)
<1>1. /\ ld[0] = << >>
      /\ \A k \in Nat : k # 0 => ld[k] = <<O!Digit(k % r)>> \o ld[k \div r]
      /\ \A k \in Nat : ld[k] \in Seq(Nat)
  BY DigitsDef
<1>2. \A n \in Nat : n < b => Len(ld[n]) =< l
  BY DEF Short
<1> HIDE DEF ld
<1>3. ASSUME NEW n \in Nat, n < b * 10 PROVE Len(ld[n]) =< l + 1
  <2>1. CASE n = 0
    BY <1>1, <2>1
  <2>2. CASE n # 0
    <3>1. PICK q \in Nat, d \in 0..15 : Division(n, r, q, d)
      BY DivFacts
    <3>2. n \div r = q /\ n % r = d /\ q < b
      BY <1>3, <3>1 DEF Division
    <3>3. ld[n] = <<O!Digit(d)>> \o ld[q] /\ ld[q] \in Seq(Nat)
      BY <1>1, <2>2, <3>2
    <3>4. O!Digit(d) \in Nat
      BY DigitFacts
    <3>5. Len(ld[n]) = Len(ld[q]) + 1 /\ Len(ld[q]) \in Nat
      BY <3>3, <3>4
    <3>6. Len(ld[q]) =< l
      BY <1>2, <3>2
    <3> QED BY <3>5, <3>6
  <2> QED BY <2>1, <2>2
<1> QED BY <1>3 DEF Short, ld

\* A number of 32 bits.
Unsigned32(n) == n \div 65536 < 65536

\* Numbers of 32 bits have at most ten digits.
LEMMA NumbersFit ==
  ASSUME NEW r \in {10, 16}, NEW n \in Nat, Unsigned32(n)
  PROVE  Len(O!LowDigits(r)[n]) =< 10
<1>1. Short(r, 1, 0)
  <2>1. O!LowDigits(r)[0] = << >>
    BY DigitsDef
  <2>2. \A k \in Nat : k < 1 => k = 0
    OBVIOUS
  <2> QED BY <2>1, <2>2 DEF Short
<1>2. Short(r, 10, 1)
  BY <1>1, LongerNumbers
<1>3. Short(r, 100, 2)
  BY <1>2, LongerNumbers
<1>4. Short(r, 1000, 3)
  BY <1>3, LongerNumbers
<1>5. Short(r, 10000, 4)
  BY <1>4, LongerNumbers
<1>6. Short(r, 100000, 5)
  BY <1>5, LongerNumbers
<1>7. Short(r, 1000000, 6)
  BY <1>6, LongerNumbers
<1>8. Short(r, 10000000, 7)
  BY <1>7, LongerNumbers
<1>9. Short(r, 100000000, 8)
  BY <1>8, LongerNumbers
<1>10. Short(r, 1000000000, 9)
  BY <1>9, LongerNumbers
<1>11. Short(r, 1000000000 * 10, 10)
  BY <1>10, LongerNumbers
<1>12. n < 1000000000 * 10
  BY DEF Unsigned32
<1> QED BY <1>11, <1>12 DEF Short

\* What one digit stands for, and what two do.
LEMMA OneDigit ==
  ASSUME NEW a \in Int, NEW r \in Int
  PROVE  O!Value(<<a>>, r) = DigitValue(a) /\ DigitValue(a) \in Int /\ <<a>> \in Seq(Int)
<1> DEFINE z == << >>
<1>1. z \in Seq(Int)
  OBVIOUS
<1>2. <<a>> = Append(z, a) /\ <<a>> \in Seq(Int)
  OBVIOUS
<1>3. O!Value(z, r) = 0
  BY ValueAppend, <1>1
<1> HIDE DEF z
<1>4. O!Value(Append(z, a), r) = O!Value(z, r) * r + DigitValue(a)
  BY <1>1, ValueAppend, Zenon
<1>5. DigitValue(a) \in Int
  BY DEF DigitValue
<1>6. 0 * r + DigitValue(a) = DigitValue(a)
  BY <1>5
<1> QED BY <1>2, <1>3, <1>4, <1>5, <1>6, Zenon

LEMMA TwoDigits ==
  ASSUME NEW a \in Int, NEW b \in Int, NEW r \in Int
  PROVE  O!Value(<<a, b>>, r) = DigitValue(a) * r + DigitValue(b)
<1> DEFINE t == <<a>>
<1>1. <<a, b>> = Append(t, b)
  OBVIOUS
<1>2. t \in Seq(Int) /\ O!Value(t, r) = DigitValue(a)
  BY OneDigit, Zenon
<1> HIDE DEF t
<1>3. O!Value(Append(t, b), r) = O!Value(t, r) * r + DigitValue(b)
  BY <1>2, ValueAppend, Zenon
<1> QED BY <1>1, <1>2, <1>3, Zenon

\* Two elements of a sequence.
LEMMA TwoOf ==
  ASSUME NEW s \in Seq(Int), NEW k \in Nat, k >= 1, k + 1 =< Len(s)
  PROVE  SubSeq(s, k, k + 1) = <<s[k], s[k + 1]>>
<1> DEFINE t == SubSeq(s, k, k + 1)
           u == <<s[k], s[k + 1]>>
<1>1. Len(s) \in Nat
  OBVIOUS
<1>2. s[k] \in Int /\ s[k + 1] \in Int
  BY <1>1
<1>3. t \in Seq(Int) /\ Len(t) = 2 /\ t[1] = s[k] /\ t[2] = s[k + 1]
  BY <1>1
<1>4. u \in Seq(Int) /\ Len(u) = 2 /\ u[1] = s[k] /\ u[2] = s[k + 1]
  BY <1>2
<1> HIDE DEF t, u
<1>5. \A j \in 1..2 : t[j] = u[j]
  BY <1>3, <1>4
<1>6. t = [j \in 1..2 |-> t[j]] /\ u = [j \in 1..2 |-> u[j]]
  BY <1>3, <1>4
<1>7. t = u
  BY <1>5, <1>6
<1> QED BY <1>7 DEF t, u

\* s32_itoa writes the digits of its number, without leading zeros, and not more than fit.
LEMMA ItoaFacts ==
  ASSUME NEW r \in {10, 16}, NEW n \in Nat, Unsigned32(n)
  PROVE  /\ O!s32_itoa(n, r) \in Seq(Nat)
         /\ O!Value(O!s32_itoa(n, r), r) = n
         /\ O!s32_itoa(n, r)[1] = 48 => n = 0
         /\ Len(O!s32_itoa(n, r)) \in 1..10
<1>1. CASE n = 0
  <2> DEFINE z == <<48>>
  <2>1. O!s32_itoa(n, r) = z
    BY <1>1 DEF O!s32_itoa
  <2>2. z \in Seq(Nat) /\ Len(z) = 1
    OBVIOUS
  <2>3. 48 \in Int /\ r \in Int /\ DigitValue(48) = 0
    BY DEF DigitValue
  <2>4. O!Value(z, r) = DigitValue(48)
    BY <2>3, OneDigit, Zenon
  <2> HIDE DEF z
  <2> QED BY <1>1, <2>1, <2>2, <2>3, <2>4
<1>2. CASE n # 0
  <2> DEFINE d == O!LowDigits(r)[n]
  <2>1. d \in Seq(Nat)
    BY DigitsDef
  <2>2. /\ O!Value(Rev(d), r) = n /\ Len(d) > 0 /\ d[Len(d)] # 48
        /\ \A k \in 1..Len(d) : d[k] # O!MINUS
    BY <1>2, DigitsRead DEF Reads
  <2>3. Len(d) =< 10
    BY NumbersFit
  <2>4. O!s32_itoa(n, r) = O!Turned(d)
    BY <1>2 DEF O!s32_itoa
  <2> HIDE DEF d
  <2>5. O!Turned(d) = Rev(d)
    BY <2>1, <2>2, TurnedReverses
  <2>6. Rev(d) \in Seq(Nat) /\ Len(Rev(d)) = Len(d)
    BY <2>1, RevFacts, Zenon
  <2>7. Rev(d)[1] = d[Len(d)]
    BY <2>1, <2>2 DEF Rev
  <2>8. Len(d) \in 1..10
    <3> DEFINE l == Len(d)
    <3>1. l \in Nat /\ l > 0 /\ l =< 10
      BY <2>1, <2>2, <2>3
    <3> HIDE DEF l
    <3>2. l \in 1..10
      BY <3>1
    <3> QED BY <3>2 DEF l
  <2> QED BY <2>2, <2>4, <2>5, <2>6, <2>7, <2>8
<1> QED BY <1>1, <1>2

\* Every byte that p_dump_u8 prints reads back from its two digits.
Byte == 0..255

LEMMA ByteReads ==
  ASSUME NEW x \in Byte
  PROVE  /\ O!h2c(x)[1] \in Int /\ O!h2c(x)[2] \in Int
         /\ O!Value(<<O!h2c(x)[1], O!h2c(x)[2]>>, 16) = x
<1> DEFINE hi == O!h2c(x)[1]
           lo == O!h2c(x)[2]
<1>1. PICK a \in 0..15, b \in 0..15 : x \div 16 = a /\ x % 16 = b /\ x = a * 16 + b
  BY DEF Byte
<1>2. hi \in Int /\ DigitValue(hi) = a
  BY <1>1 DEF O!h2c, DigitValue
<1>3. lo \in Int /\ DigitValue(lo) = b
  BY <1>1 DEF O!h2c, DigitValue
<1> HIDE DEF hi, lo
<1>4. O!Value(<<hi, lo>>, 16) = DigitValue(hi) * 16 + DigitValue(lo)
  <2>1. 16 \in Int
    OBVIOUS
  <2> QED BY <1>2, <1>3, <2>1, TwoDigits
<1>5. O!Value(<<hi, lo>>, 16) = x
  BY <1>1, <1>2, <1>3, <1>4
<1> QED BY <1>2, <1>3, <1>5, Zenon DEF hi, lo

\* Where the two digits of a byte are.
LEMMA DumpPlaces ==
  ASSUME NEW k \in Nat, NEW l \in Nat, k >= 1, k =< l
  PROVE  /\ 3 * k - 2 \in 1..(3 * l) /\ (3 * k - 2) % 3 = 1 /\ (3 * k - 2 + 2) \div 3 = k
         /\ 3 * k - 1 \in 1..(3 * l) /\ (3 * k - 1) % 3 = 2 /\ (3 * k - 1 + 2) \div 3 = k
<1>1. 3 * k - 2 \in 1..(3 * l) /\ 3 * k - 1 \in 1..(3 * l)
  OBVIOUS
<1>2. (3 * k - 2) % 3 = 1
  OBVIOUS
<1>3. (3 * k - 1) % 3 = 2
  OBVIOUS
<1>4. (3 * k - 2 + 2) \div 3 = k
  OBVIOUS
<1>5. (3 * k - 1 + 2) \div 3 = k
  OBVIOUS
<1> QED BY <1>1, <1>2, <1>3, <1>4, <1>5

LEMMA DumpReads ==
  ASSUME NEW bytes \in Seq(Byte), NEW k \in DOMAIN bytes
  PROVE  O!Value(SubSeq(O!p_dump_u8(bytes), 3 * k - 2, 3 * k - 1), 16) = bytes[k]
<1> DEFINE s == O!p_dump_u8(bytes)
           l == Len(bytes)
           C(j) == IF j % 3 = 0 THEN 32 ELSE O!h2c(bytes[(j + 2) \div 3])[j % 3]
<1>1. k \in Nat /\ k >= 1 /\ k =< l /\ l \in Nat /\ \A j \in 1..l : bytes[j] \in Byte
  OBVIOUS
<1>2. bytes[k] \in Byte
  OBVIOUS
<1>3. s = [j \in 1..(3 * l) |-> C(j)]
  BY DEF O!p_dump_u8
<1> HIDE DEF l
<1>4. ASSUME NEW j \in 1..(3 * l) PROVE C(j) \in Int
  <2>1. CASE j % 3 = 0
    BY <2>1
  <2>2. CASE j % 3 # 0
    <3> DEFINE q == (j + 2) \div 3
    <3>1. q \in 1..l /\ j % 3 \in {1, 2}
      BY <1>1, <2>2
    <3>2. C(j) = O!h2c(bytes[q])[j % 3]
      BY <2>2
    <3> HIDE DEF q
    <3>3. O!h2c(bytes[q])[1] \in Int /\ O!h2c(bytes[q])[2] \in Int
      BY <1>1, <3>1, ByteReads
    <3> QED BY <3>1, <3>2, <3>3
  <2> QED BY <2>1, <2>2
<1> DEFINE m == 3 * k - 2
<1>5. /\ m \in 1..(3 * l) /\ m % 3 = 1 /\ (m + 2) \div 3 = k
      /\ 3 * k - 1 \in 1..(3 * l) /\ (3 * k - 1) % 3 = 2 /\ (3 * k - 1 + 2) \div 3 = k
  BY <1>1, DumpPlaces, Zenon
<1>6. m \in Nat /\ m >= 1 /\ m + 1 = 3 * k - 1 /\ 3 * l \in Nat
  BY <1>1
<1> HIDE DEF m
<1>7. m + 1 \in 1..(3 * l) /\ (m + 1) % 3 = 2 /\ (m + 1 + 2) \div 3 = k
  BY <1>5, <1>6, Zenon
<1>8. C(m) = O!h2c(bytes[k])[1] /\ C(m + 1) = O!h2c(bytes[k])[2]
  <2>1. ASSUME NEW j, NEW e, e # 0, j % 3 = e, (j + 2) \div 3 = k PROVE C(j) = O!h2c(bytes[k])[e]
    BY <2>1, Zenon
  <2>2. 1 # 0 /\ 2 # 0
    OBVIOUS
  <2> HIDE DEF C
  <2> QED BY <1>5, <1>7, <2>1, <2>2, Zenon
<1> HIDE DEF C, s
<1>9. s \in Seq(Int) /\ Len(s) = 3 * l /\ s[m] = C(m) /\ s[m + 1] = C(m + 1)
  <2>1. s \in [1..(3 * l) -> Int] /\ 3 * l \in Nat
    BY <1>3, <1>4, <1>6
  <2>2. s \in Seq(Int) /\ Len(s) = 3 * l
    BY <2>1
  <2>3. \A j \in 1..(3 * l) : s[j] = C(j)
    BY <1>3
  <2> QED BY <1>5, <1>7, <2>2, <2>3, Zenon
<1>10. m + 1 =< Len(s)
  BY <1>6, <1>7, <1>9
<1>11. SubSeq(s, m, m + 1) = <<s[m], s[m + 1]>>
  BY <1>6, <1>9, <1>10, TwoOf, Zenon
<1>12. SubSeq(s, m, m + 1) = <<O!h2c(bytes[k])[1], O!h2c(bytes[k])[2]>>
  BY <1>8, <1>9, <1>11, Zenon
<1>13. O!Value(SubSeq(s, m, m + 1), 16) = bytes[k]
  BY <1>2, <1>12, ByteReads, Zenon
<1> QED BY <1>6, <1>13, Zenon DEF s, m

----------------------------------------------------------------------------
(* Formatted output: the loop over a format                                *)

\* u[k] is the first k of n strings, one after the other.
Joins(u, c, n) ==
  /\ n \in Nat /\ c \in [1..n -> Seq(Int)]
  /\ u[0] = << >> /\ \A k \in 1..n : u[k] = u[k - 1] \o c[k]

\* What comes before stays as it is.
Extends(s, t) == Len(s) =< Len(t) /\ \A x \in 1..Len(s) : t[x] = s[x]

LEMMA ExtendsBy ==
  ASSUME NEW s \in Seq(Int), NEW t \in Seq(Int), NEW r \in Seq(Int), Extends(r, s)
  PROVE  /\ s \o t \in Seq(Int) /\ Len(s \o t) = Len(s) + Len(t)
         /\ Extends(r, s \o t) /\ \A x \in 1..Len(t) : (s \o t)[Len(s) + x] = t[x]
<1> DEFINE w == s \o t
<1>1. Len(r) \in Nat /\ Len(s) \in Nat /\ Len(t) \in Nat
  OBVIOUS
<1>2. w \in Seq(Int) /\ Len(w) = Len(s) + Len(t)
  BY ConcatProperties, Zenon
<1>3. ASSUME NEW x \in 1..Len(s) PROVE w[x] = s[x]
  OBVIOUS
<1>4. ASSUME NEW x \in 1..Len(t) PROVE w[Len(s) + x] = t[x]
  OBVIOUS
<1> HIDE DEF w
<1>5. Len(r) =< Len(w)
  BY <1>1, <1>2 DEF Extends
<1>6. ASSUME NEW x \in 1..Len(r) PROVE w[x] = r[x]
  <2>1. x \in 1..Len(s)
    BY <1>1 DEF Extends
  <2> QED BY <1>3, <2>1 DEF Extends
<1>7. Extends(r, w)
  BY <1>5, <1>6 DEF Extends
<1> QED BY <1>2, <1>4, <1>7 DEF w

LEMMA JoinFacts ==
  ASSUME NEW u, NEW c, NEW n, Joins(u, c, n), NEW k \in 0..n
  PROVE  \A j \in 0..k : u[j] \in Seq(Int) /\ Extends(u[j], u[k])
<1> DEFINE P(m) == \A j \in 0..m : u[j] \in Seq(Int) /\ Extends(u[j], u[m])
           Bad == {m \in 0..n : ~ P(m)}
<1>1. n \in Nat /\ u[0] = << >> /\ \A m \in 1..n : u[m] = u[m - 1] \o c[m] /\ c[m] \in Seq(Int)
  BY DEF Joins
<1>2. P(0)
  <2>1. \A j \in 0..0 : j = 0
    OBVIOUS
  <2>2. u[0] \in Seq(Int) /\ Extends(u[0], u[0])
    BY <1>1 DEF Extends
  <2> QED BY <2>1, <2>2, Zenon
<1>3. ASSUME NEW m \in 1..n, P(m - 1) PROVE P(m)
  <2>1. m - 1 \in 0..(m - 1)
    BY <1>1
  <2>2. u[m] = u[m - 1] \o c[m] /\ c[m] \in Seq(Int)
    BY <1>1, Zenon
  <2>3. u[m - 1] \in Seq(Int)
    BY <1>3, <2>1
  <2>4. u[m] \in Seq(Int)
    BY <2>2, <2>3, ConcatProperties, Zenon
  <2>5. ASSUME NEW j \in 0..m PROVE u[j] \in Seq(Int) /\ Extends(u[j], u[m])
    <3>1. CASE j = m
      <4>1. Len(u[m]) \in Nat
        BY <2>4
      <4> QED BY <2>4, <3>1, <4>1 DEF Extends
    <3>2. CASE j # m
      <4>1. j \in 0..(m - 1)
        BY <1>1, <3>2
      <4>2. u[j] \in Seq(Int) /\ Extends(u[j], u[m - 1])
        BY <1>3, <4>1
      <4>3. Extends(u[j], u[m - 1] \o c[m])
        BY <2>2, <2>3, <4>2, ExtendsBy, Zenon
      <4> QED BY <2>2, <4>2, <4>3, Zenon
    <3> QED BY <3>1, <3>2
  <2> QED BY <2>5
<1> HIDE DEF P
<1>4. ASSUME Bad # {} PROVE FALSE
  <2>1. PICK m \in Bad : \A j \in Bad : m =< j
    <3>1. Bad \in SUBSET Nat
      BY <1>1
    <3> HIDE DEF Bad
    <3> QED BY <1>4, <3>1, LeastExists
  <2>2. m \in 0..n /\ ~ P(m)
    OBVIOUS
  <2>3. m # 0
    BY <1>2, <2>2
  <2>4. m \in 1..n /\ m - 1 \in 0..n /\ m - 1 \notin Bad
    <3> HIDE DEF Bad
    <3> QED BY <1>1, <2>1, <2>2, <2>3
  <2>5. P(m - 1)
    BY <2>4
  <2> QED BY <1>3, <2>2, <2>4, <2>5
<1>5. P(k)
  BY <1>4
<1> QED BY <1>5 DEF P

\* How the string k + 1 follows those before it.
Follows(u, c, n, k) ==
  /\ u[k] \in Seq(Int) /\ u[k + 1] \in Seq(Int) /\ u[n] \in Seq(Int)
  /\ c[k + 1] \in Seq(Int) /\ u[k + 1] = u[k] \o c[k + 1]
  /\ Len(u[k + 1]) = Len(u[k]) + Len(c[k + 1]) /\ Len(u[k + 1]) =< Len(u[n])
  /\ \A x \in 1..Len(c[k + 1]) : u[n][Len(u[k]) + x] = c[k + 1][x]

LEMMA JoinNext ==
  ASSUME NEW u, NEW c, NEW n, Joins(u, c, n), NEW k \in 0..n, k < n
  PROVE  Follows(u, c, n, k)
<1>1. n \in Nat /\ k \in Nat /\ k + 1 \in 1..n /\ k + 1 \in 0..n /\ n \in 0..n /\ (k + 1) - 1 = k
  BY DEF Joins
<1>2. u[k + 1] = u[k] \o c[k + 1] /\ c[k + 1] \in Seq(Int)
  BY <1>1 DEF Joins
<1>3. \A j \in 0..n : u[j] \in Seq(Int) /\ Extends(u[j], u[n])
  BY <1>1, JoinFacts
<1>4. u[k] \in Seq(Int) /\ u[k + 1] \in Seq(Int) /\ u[n] \in Seq(Int) /\ Extends(u[k + 1], u[n])
  BY <1>1, <1>3
<1>5. Extends(u[k], u[k])
  BY <1>4 DEF Extends
<1> DEFINE s == u[k]
           t == c[k + 1]
           w == u[k + 1]
           all == u[n]
<1>6. s \in Seq(Int) /\ t \in Seq(Int) /\ w \in Seq(Int) /\ Extends(w, all) /\ w = s \o t /\ Extends(s, s)
  BY <1>2, <1>4, <1>5, Zenon
<1> HIDE DEF s, t, w, all
<1>7. Len(s \o t) = Len(s) + Len(t) /\ \A x \in 1..Len(t) : (s \o t)[Len(s) + x] = t[x]
  BY <1>6, ExtendsBy, Zenon
<1>8. Len(w) = Len(s) + Len(t) /\ \A x \in 1..Len(t) : w[Len(s) + x] = t[x]
  BY <1>6, <1>7, Zenon
<1>9. Len(w) =< Len(all) /\ \A x \in 1..Len(w) : all[x] = w[x]
  BY <1>6 DEF Extends
<1>10. Len(s) \in Nat /\ Len(t) \in Nat
  BY <1>6
<1>11. ASSUME NEW x \in 1..Len(t) PROVE all[Len(s) + x] = t[x]
  <2>1. Len(s) + x \in 1..Len(w)
    BY <1>8, <1>10
  <2> QED BY <1>8, <1>9, <2>1
<1> QED BY <1>2, <1>4, <1>8, <1>9, <1>11, Zenon DEF s, t, w, all, Follows

\* Where no string is empty, only the whole is as long as the whole.
LEMMA JoinEnd ==
  ASSUME NEW u, NEW c, NEW n, Joins(u, c, n), \A k \in 1..n : Len(c[k]) > 0,
         NEW k \in 0..n, Len(u[k]) >= Len(u[n])
  PROVE  k = n
<1>1. n \in Nat
  BY DEF Joins
<1>2. ASSUME k < n PROVE FALSE
  <2>1. /\ u[k] \in Seq(Int) /\ c[k + 1] \in Seq(Int) /\ u[n] \in Seq(Int)
        /\ Len(u[k + 1]) = Len(u[k]) + Len(c[k + 1]) /\ Len(u[k + 1]) =< Len(u[n])
    <3>1. Follows(u, c, n, k)
      BY <1>2, JoinNext
    <3> QED BY <3>1, Zenon DEF Follows
  <2>2. k + 1 \in 1..n
    BY <1>1, <1>2
  <2>3. Len(c[k + 1]) > 0 /\ Len(c[k + 1]) \in Nat /\ Len(u[k]) \in Nat /\ Len(u[n]) \in Nat
    BY <2>1, <2>2
  <2> DEFINE lk == Len(u[k])
             lc == Len(c[k + 1])
             l == Len(u[n])
  <2>4. lk \in Nat /\ lc \in Nat /\ l \in Nat /\ lc > 0 /\ lk + lc =< l /\ lk >= l
    <3>1. lk + lc =< l
      BY <2>1, Zenon
    <3> QED BY <2>3, <3>1, Zenon
  <2> HIDE DEF lk, lc, l
  <2> QED BY <2>4
<1> QED BY <1>1, <1>2

\* There is such a function for any strings.
LEMMA JoinExists ==
  ASSUME NEW n \in Nat, NEW c \in [1..n -> Seq(Int)]
  PROVE  \E u \in [0..n -> Seq(Int)] : Joins(u, c, n)
<1> DEFINE f == [k \in 1..n |-> [t \in Seq(Int) |-> t \o c[k]]]
           z == << >>
<1>1. \A k \in 1..n : \A t \in Seq(Int) : t \o c[k] \in Seq(Int)
  OBVIOUS
<1>2. f \in Steps(Seq(Int), n)
  BY <1>1 DEF Steps
<1>3. z \in Seq(Int)
  OBVIOUS
<1> HIDE DEF f, z
<1>4. Iterates(Seq(Int), z, n, f)
  BY <1>2, <1>3, Iteration, Zenon
<1>5. PICK u \in [0..n -> Seq(Int)] : u[0] = z /\ \A k \in 1..n : u[k] = f[k][u[k - 1]]
  BY <1>4 DEF Iterates
<1>6. ASSUME NEW k \in 1..n PROVE u[k] = u[k - 1] \o c[k]
  <2>1. u[k - 1] \in Seq(Int)
    OBVIOUS
  <2> QED BY <1>5, <2>1 DEF f
<1>7. Joins(u, c, n)
  BY <1>5, <1>6 DEF Joins, z
<1> QED BY <1>7

\* The function that the specification joins strings with is that one.
LEMMA JoinedJoins ==
  ASSUME NEW n \in Nat, NEW c \in [1..n -> Seq(Int)]
  PROVE  Joins(O!JoinedUpTo(c), c, n)
<1> DEFINE Eq(g) == g = [k \in 0..n |-> IF k = 0 THEN << >> ELSE g[k - 1] \o c[k]]
           joined == CHOOSE g : Eq(g)
<1>1. Len(c) = n
  OBVIOUS
<1>2. O!JoinedUpTo(c) = joined
  BY <1>1 DEF O!JoinedUpTo
<1>3. PICK u \in [0..n -> Seq(Int)] : Joins(u, c, n)
  BY JoinExists
<1>4. Eq(u)
  <2>1. ASSUME NEW k \in 0..n PROVE u[k] = IF k = 0 THEN << >> ELSE u[k - 1] \o c[k]
    <3>1. CASE k = 0
      BY <1>3, <3>1 DEF Joins
    <3>2. CASE k # 0
      <4>1. k \in 1..n
        BY <3>2
      <4> QED BY <1>3, <3>2, <4>1 DEF Joins
    <3> QED BY <3>1, <3>2
  <2>2. u = [k \in 0..n |-> u[k]]
    OBVIOUS
  <2>3. [k \in 0..n |-> u[k]] = [k \in 0..n |-> IF k = 0 THEN << >> ELSE u[k - 1] \o c[k]]
    BY <2>1
  <2> QED BY <2>2, <2>3, Zenon
<1>5. Eq(joined)
  <2> HIDE DEF Eq
  <2> QED BY <1>4
<1> HIDE DEF joined
<1>6. joined[0] = << >>
  BY <1>5
<1>7. ASSUME NEW k \in 1..n PROVE joined[k] = joined[k - 1] \o c[k]
  <2>1. k \in 0..n /\ k # 0
    OBVIOUS
  <2> QED BY <1>5, <2>1
<1>8. Joins(joined, c, n)
  BY <1>6, <1>7 DEF Joins
<1> QED BY <1>2, <1>8

\* The characters of an item, and what it prints.
Piece(items, k) == IF items[k].conv THEN <<O!PERCENT, items[k].ch>> ELSE <<items[k].ch>>
Said(f, items, as, k) ==
  IF items[k].conv THEN O!Converted(f, items[k].ch, as[O!ArgOf(items, k)]) ELSE <<items[k].ch>>

Item == [conv : BOOLEAN, ch : Int]
Pieces(items) == [k \in 1..Len(items) |-> Piece(items, k)]
Texts(f, items, as) == [k \in 1..Len(items) |-> Said(f, items, as, k)]

\* What a loop prints of a format: what it was written to print, conversion by conversion.
WrittenUpTo(f, items, as) == O!JoinedUpTo(Texts(f, items, as))
Written(f, items, as) == WrittenUpTo(f, items, as)[Len(items)]
Wrote == Written(o_call.fn, o_call.items, o_call.args)

\* The characters of a format are those of its items, one after the other.
LEMMA CharsJoin ==
  ASSUME NEW items \in Seq(Item)
  PROVE  /\ Joins(O!CharsUpTo(items), Pieces(items), Len(items))
         /\ \A k \in 1..Len(items) : Len(Pieces(items)[k]) > 0
<1> DEFINE n == Len(items)
           c == Pieces(items)
<1>1. n \in Nat /\ \A k \in 1..n : items[k] \in Item
  OBVIOUS
<1>2. ASSUME NEW k \in 1..n PROVE Piece(items, k) \in Seq(Int) /\ Len(Piece(items, k)) > 0
  <2>1. items[k].ch \in Int /\ O!PERCENT \in Int
    BY <1>1 DEF Item, O!PERCENT
  <2> QED BY <2>1 DEF Piece
<1>3. O!CharsUpTo(items) = O!JoinedUpTo(c)
  BY DEF O!CharsUpTo, Pieces, Piece
<1>4. c \in [1..n -> Seq(Int)] /\ \A k \in 1..n : Len(c[k]) > 0
  BY <1>2 DEF Pieces
<1> HIDE DEF n, c
<1>5. Joins(O!JoinedUpTo(c), c, n)
  BY <1>1, <1>4, JoinedJoins
<1> QED BY <1>3, <1>4, <1>5 DEF n, c

\* Which argument is next.
LEMMA ArgSteps ==
  ASSUME NEW items \in Seq(Item), NEW k \in 0..Len(items)
  PROVE  /\ O!ArgOf(items, k) \in Nat
         /\ k = 0 => O!ArgOf(items, k) = 0
         /\ k # 0 => O!ArgOf(items, k) = O!ArgOf(items, k - 1) + (IF items[k].conv THEN 1 ELSE 0)
<1> DEFINE n == Len(items)
           One(j) == IF items[j].conv THEN 1 ELSE 0
           Eq(g) == g = [j \in 0..n |-> IF j = 0 THEN 0 ELSE g[j - 1] + One(j)]
           taken == CHOOSE g : Eq(g)
           f == [j \in 1..n |-> [t \in Nat |-> t + One(j)]]
           z == 0
<1>1. n \in Nat
  OBVIOUS
<1>2. \A j : O!ArgOf(items, j) = taken[j]
  BY DEF O!ArgOf
<1>3. \A j : One(j) \in Nat
  OBVIOUS
<1> HIDE DEF n, One
<1>4. f \in Steps(Nat, n)
  <2>1. \A j \in 1..n : \A t \in Nat : t + One(j) \in Nat
    BY <1>3
  <2> QED BY <2>1 DEF Steps
<1>5. z \in Nat
  OBVIOUS
<1> HIDE DEF f, z
<1>6. Iterates(Nat, z, n, f)
  BY <1>1, <1>4, <1>5, Iteration, Zenon
<1>7. PICK u \in [0..n -> Nat] : u[0] = z /\ \A j \in 1..n : u[j] = f[j][u[j - 1]]
  BY <1>6 DEF Iterates
<1>8. ASSUME NEW j \in 1..n PROVE u[j] = u[j - 1] + One(j)
  <2>1. u[j - 1] \in Nat
    BY <1>1
  <2> QED BY <1>7, <2>1 DEF f
<1>9. Eq(u)
  <2>1. ASSUME NEW j \in 0..n PROVE u[j] = IF j = 0 THEN 0 ELSE u[j - 1] + One(j)
    <3>1. CASE j = 0
      BY <1>7, <3>1 DEF z
    <3>2. CASE j # 0
      <4>1. j \in 1..n
        BY <1>1, <3>2
      <4> QED BY <1>8, <3>2, <4>1
    <3> QED BY <3>1, <3>2
  <2>2. u = [j \in 0..n |-> u[j]]
    OBVIOUS
  <2>3. [j \in 0..n |-> u[j]] = [j \in 0..n |-> IF j = 0 THEN 0 ELSE u[j - 1] + One(j)]
    BY <2>1
  <2> QED BY <2>2, <2>3, Zenon
<1>10. Eq(taken)
  <2> HIDE DEF Eq
  <2> QED BY <1>9
<1> HIDE DEF taken
<1>11. ASSUME NEW j \in 0..n PROVE taken[j] = IF j = 0 THEN 0 ELSE taken[j - 1] + One(j)
  BY <1>10
<1> DEFINE Bad == {j \in 0..n : taken[j] \notin Nat}
<1>12. ASSUME Bad # {} PROVE FALSE
  <2>1. PICK m \in Bad : \A j \in Bad : m =< j
    <3>1. Bad \in SUBSET Nat
      BY <1>1
    <3> HIDE DEF Bad
    <3> QED BY <1>12, <3>1, LeastExists
  <2>2. m \in 0..n /\ taken[m] \notin Nat
    OBVIOUS
  <2>3. m # 0
    BY <1>11, <2>2
  <2>4. m - 1 \in 0..n /\ m - 1 \notin Bad
    <3> HIDE DEF Bad
    <3> QED BY <1>1, <2>1, <2>2, <2>3
  <2>5. taken[m - 1] \in Nat
    BY <2>4
  <2> QED BY <1>3, <1>11, <2>2, <2>3, <2>5
<1>13. k \in 0..n /\ taken[k] \in Nat
  BY <1>12 DEF n
<1> QED BY <1>2, <1>11, <1>13 DEF One

\* A conversion of an argument that fits prints characters.
LEMMA ConvertedType ==
  ASSUME NEW f, NEW c \in Int, NEW a, O!Fits(c, a)
  PROVE  O!Converted(f, c, a) \in Seq(Int)
<1>1. CASE c = 100
  <2>1. a \in Nat /\ Unsigned32(a)
    BY <1>1 DEF O!Fits, Unsigned32
  <2>2. O!s32_itoa(a, 10) \in Seq(Nat)
    BY <2>1, ItoaFacts
  <2>3. O!Converted(f, c, a) = O!s32_itoa(a, 10)
    BY <1>1 DEF O!Converted
  <2> QED BY <2>2, <2>3
<1>2. CASE c = 120
  <2>1. a \in Nat /\ Unsigned32(a)
    BY <1>2 DEF O!Fits, Unsigned32
  <2>2. O!s32_itoa(a, 16) \in Seq(Nat)
    BY <2>1, ItoaFacts
  <2>3. O!Converted(f, c, a) = O!s32_itoa(a, 16)
    BY <1>2 DEF O!Converted
  <2> QED BY <2>2, <2>3
<1>3. CASE c = 115
  BY <1>3 DEF O!Fits, O!Converted
<1>4. CASE c = 99
  BY <1>4 DEF O!Fits, O!Converted
<1>5. CASE c \notin {100, 120, 115, 99}
  BY <1>5 DEF O!Converted
<1> QED BY <1>1, <1>2, <1>3, <1>4, <1>5

\* What a format prints is what its items print, one after the other.
LEMMA TextJoin ==
  ASSUME NEW f, NEW items, NEW as, O!Fitting(items, as)
  PROVE  /\ items \in Seq(Item)
         /\ Joins(WrittenUpTo(f, items, as), Texts(f, items, as), Len(items))
<1> DEFINE n == Len(items)
           c == Texts(f, items, as)
<1>1. items \in Seq(Item)
  BY DEF O!Fitting, Item
<1>2. n \in Nat /\ DOMAIN items = 1..n /\ \A k \in 1..n : items[k] \in Item
  BY <1>1
<1>3. ASSUME NEW k \in 1..n PROVE Said(f, items, as, k) \in Seq(Int)
  <2>1. items[k].ch \in Int
    BY <1>2 DEF Item
  <2>2. CASE items[k].conv
    <3>1. O!Fits(items[k].ch, as[O!ArgOf(items, k)])
      BY <1>2, <2>2 DEF O!Fitting
    <3> QED BY <2>1, <2>2, <3>1, ConvertedType DEF Said
  <2>3. CASE ~ items[k].conv
    BY <2>1, <2>3 DEF Said
  <2> QED BY <2>2, <2>3
<1>4. c \in [1..n -> Seq(Int)]
  BY <1>3 DEF Texts
<1>5. WrittenUpTo(f, items, as) = O!JoinedUpTo(c)
  BY DEF WrittenUpTo
<1> HIDE DEF n, c
<1>6. Joins(O!JoinedUpTo(c), c, n)
  BY <1>2, <1>4, JoinedJoins
<1> QED BY <1>1, <1>5, <1>6 DEF n, c

\* Two functions that know the same conversions.
Alike(f, g) == (g \in {"sprintf", "printf"}) <=> (f \in {"sprintf", "printf"})

\* The loop is before item k + 1 of a format, and its buffer holds what the items before it print.
At(f, items, as, k, fm, ar, x, y, s, g) ==
  /\ O!Fitting(items, as)
  /\ fm = O!Chars(items) /\ ar = as
  /\ x = Len(O!CharsUpTo(items)[k]) + 1
  /\ y = O!ArgOf(items, k) + 1
  /\ s = WrittenUpTo(f, items, as)[k]
  /\ Len(s) =< BUF
  /\ Alike(f, g)
In(f, items, as, fm, ar, x, y, s, g) == \E k \in 0..Len(items) : At(f, items, as, k, fm, ar, x, y, s, g)

\* The loop begins before the first item.
LEMMA InAtFirst ==
  ASSUME NEW f, NEW items, NEW as, O!Fitting(items, as), NEW g, Alike(f, g)
  PROVE  In(f, items, as, O!Chars(items), as, 1, 1, << >>, g)
<1>1. items \in Seq(Item) /\ Joins(WrittenUpTo(f, items, as), Texts(f, items, as), Len(items))
  BY TextJoin
<1>2. Joins(O!CharsUpTo(items), Pieces(items), Len(items))
  BY <1>1, CharsJoin
<1>3. 0 \in 0..Len(items)
  BY <1>1
<1>4. O!ArgOf(items, 0) = 0
  BY <1>1, <1>3, ArgSteps
<1>5. O!CharsUpTo(items)[0] = << >> /\ WrittenUpTo(f, items, as)[0] = << >>
  BY <1>1, <1>2 DEF Joins
<1>6. BUF \in Nat
  BY InstancesAssumption DEF O!FormatAssumption
<1>7. At(f, items, as, 0, O!Chars(items), as, 1, 1, << >>, g)
  BY <1>4, <1>5, <1>6 DEF At
<1> QED BY <1>3, <1>7 DEF In

\* What the loop sees of the next item.
Sees(items, k, fm, x) ==
  /\ x \in Nat /\ x >= 1 /\ x =< Len(fm) /\ Len(fm) \in Nat
  /\ items[k + 1].conv =>
       /\ x < Len(fm) /\ fm[x] = O!PERCENT /\ fm[x + 1] = items[k + 1].ch
       /\ Len(O!CharsUpTo(items)[k + 1]) + 1 = x + 2
  /\ ~ items[k + 1].conv =>
       /\ fm[x] = items[k + 1].ch
       /\ Len(O!CharsUpTo(items)[k + 1]) + 1 = x + 1

LEMMA NextSeen ==
  ASSUME NEW f, NEW items, NEW as, NEW k \in 0..Len(items), k < Len(items),
         NEW fm, NEW ar, NEW x, NEW arg, NEW s0, NEW g, At(f, items, as, k, fm, ar, x, arg, s0, g)
  PROVE  Sees(items, k, fm, x)
<1> DEFINE n == Len(items)
           u == O!CharsUpTo(items)
           c == Pieces(items)
           it == items[k + 1]
<1>1. items \in Seq(Item)
  BY TextJoin DEF At
<1>2. n \in Nat /\ k + 1 \in 1..n /\ k + 1 \in 0..n
  BY <1>1
<1>3. it \in Item
  BY <1>1, <1>2
<1>4. c[k + 1] = IF it.conv THEN <<O!PERCENT, it.ch>> ELSE <<it.ch>>
  BY <1>2 DEF Pieces, Piece
<1>5. Joins(u, c, n)
  BY <1>1, CharsJoin
<1>6. fm = u[n] /\ x = Len(u[k]) + 1
  BY DEF At, O!Chars
<1> HIDE DEF n, u, c
<1>7. Follows(u, c, n, k)
  BY <1>5, JoinNext DEF n
<1> DEFINE s == u[k]
           t == c[k + 1]
<1>8. /\ s \in Seq(Int) /\ t \in Seq(Int) /\ Len(u[k + 1]) = Len(s) + Len(t) /\ Len(u[k + 1]) =< Len(fm)
      /\ \A y \in 1..Len(t) : fm[Len(s) + y] = t[y]
      /\ fm \in Seq(Int) /\ x = Len(s) + 1
  BY <1>6, <1>7, Zenon DEF Follows
<1>9. Len(s) \in Nat /\ Len(t) \in Nat /\ Len(fm) \in Nat
  BY <1>8
<1>10. CASE it.conv
  <2>1. t = <<O!PERCENT, it.ch>>
    BY <1>4, <1>10
  <2> HIDE DEF s, t, it
  <2>2. Len(t) = 2 /\ t[1] = O!PERCENT /\ t[2] = it.ch
    BY <2>1
  <2>3. /\ Len(s) + 1 = x /\ Len(s) + 2 = x + 1 /\ x \in Nat /\ x >= 1 /\ x < Len(fm) /\ x =< Len(fm)
        /\ Len(u[k + 1]) + 1 = x + 2
    <3> DEFINE ls == Len(s)
               lf == Len(fm)
               lu == Len(u[k + 1])
    <3>1. ls \in Nat /\ lf \in Nat /\ lu = ls + 2 /\ lu =< lf /\ x = ls + 1
      BY <1>8, <1>9, <2>2, Zenon
    <3> HIDE DEF ls, lf, lu
    <3>2. ls + 1 = x /\ ls + 2 = x + 1 /\ x \in Nat /\ x >= 1 /\ x < lf /\ x =< lf /\ lu + 1 = x + 2
      BY <3>1
    <3> QED BY <3>2, Zenon DEF ls, lf, lu
  <2>4. fm[x] = t[1] /\ fm[x + 1] = t[2]
    <3>1. 1 \in 1..Len(t) /\ 2 \in 1..Len(t)
      BY <2>2
    <3>2. fm[Len(s) + 1] = t[1] /\ fm[Len(s) + 2] = t[2]
      BY <1>8, <3>1
    <3> QED BY <2>3, <3>2
  <2> QED BY <1>9, <1>10, <2>2, <2>3, <2>4 DEF Sees, u, it
<1>11. CASE ~ it.conv
  <2>1. t = <<it.ch>>
    BY <1>4, <1>11
  <2> HIDE DEF s, t, it
  <2>2. Len(t) = 1 /\ t[1] = it.ch
    BY <2>1
  <2>3. /\ Len(s) + 1 = x /\ x \in Nat /\ x >= 1 /\ x =< Len(fm)
        /\ Len(u[k + 1]) + 1 = x + 1
    <3> DEFINE ls == Len(s)
               lf == Len(fm)
               lu == Len(u[k + 1])
    <3>1. ls \in Nat /\ lf \in Nat /\ lu = ls + 1 /\ lu =< lf /\ x = ls + 1
      BY <1>8, <1>9, <2>2, Zenon
    <3> HIDE DEF ls, lf, lu
    <3>2. ls + 1 = x /\ x \in Nat /\ x >= 1 /\ x =< lf /\ lu + 1 = x + 1
      BY <3>1
    <3> QED BY <3>2, Zenon DEF ls, lf, lu
  <2>4. fm[x] = t[1]
    <3>1. 1 \in 1..Len(t)
      BY <2>2
    <3>2. fm[Len(s) + 1] = t[1]
      BY <1>8, <3>1
    <3> QED BY <2>3, <3>2
  <2> QED BY <1>9, <1>11, <2>2, <2>3, <2>4 DEF Sees, u, it
<1> QED BY <1>10, <1>11

\* The loop goes on to the next item, and the whole text is not shorter.
LEMMA NextItem ==
  ASSUME NEW f, NEW items, NEW as, NEW k \in 0..Len(items), k < Len(items),
         NEW fm, NEW ar, NEW x, NEW y, NEW s, NEW g, At(f, items, as, k, fm, ar, x, y, s, g),
         NEW t, t = Said(f, items, as, k + 1)
  PROVE  /\ s \in Seq(Int) /\ t \in Seq(Int)
         /\ Len(s) + Len(t) =< Len(Written(f, items, as))
         /\ Written(f, items, as) \in Seq(Int)
         /\ O!ArgOf(items, k + 1) = O!ArgOf(items, k) + (IF items[k + 1].conv THEN 1 ELSE 0)
         /\ O!ArgOf(items, k) \in Nat
         /\ Len(s) + Len(t) =< BUF =>
              In(f, items, as, fm, ar,
                 x + (IF items[k + 1].conv THEN 2 ELSE 1), y + (IF items[k + 1].conv THEN 1 ELSE 0), s \o t, g)
<1> DEFINE n == Len(items)
           u == WrittenUpTo(f, items, as)
           c == Texts(f, items, as)
<1>1. items \in Seq(Item) /\ Joins(u, c, n)
  BY TextJoin DEF At
<1>2. n \in Nat /\ k + 1 \in 1..n /\ k + 1 \in 0..n /\ (k + 1) - 1 = k /\ k + 1 # 0
  BY <1>1
<1>3. c[k + 1] = t
  BY <1>2 DEF Texts
<1>4. s = u[k] /\ Written(f, items, as) = u[n]
  BY DEF At, Written
<1>5. Sees(items, k, fm, x)
  BY NextSeen
<1>6. /\ O!ArgOf(items, k + 1) = O!ArgOf(items, k) + (IF items[k + 1].conv THEN 1 ELSE 0)
      /\ O!ArgOf(items, k) \in Nat
  BY <1>1, <1>2, ArgSteps
<1> HIDE DEF u, c
<1>7. Follows(u, c, n, k)
  BY <1>1, JoinNext
<1>8. /\ s \in Seq(Int) /\ t \in Seq(Int) /\ u[n] \in Seq(Int) /\ u[k + 1] = s \o t
      /\ Len(u[k + 1]) = Len(s) + Len(t) /\ Len(u[k + 1]) =< Len(u[n])
  BY <1>3, <1>4, <1>7, Zenon DEF Follows
<1>9. ASSUME Len(s) + Len(t) =< BUF
      PROVE  In(f, items, as, fm, ar,
                x + (IF items[k + 1].conv THEN 2 ELSE 1), y + (IF items[k + 1].conv THEN 1 ELSE 0), s \o t, g)
  <2> DEFINE dx == IF items[k + 1].conv THEN 2 ELSE 1
             dy == IF items[k + 1].conv THEN 1 ELSE 0
  <2>1. x + dx = Len(O!CharsUpTo(items)[k + 1]) + 1
    BY <1>5 DEF Sees
  <2>2. y + dy = O!ArgOf(items, k + 1) + 1
    <3>1. y = O!ArgOf(items, k) + 1 /\ dy \in Nat
      BY DEF At
    <3> HIDE DEF dy
    <3>2. O!ArgOf(items, k + 1) = O!ArgOf(items, k) + dy
      BY <1>6 DEF dy
    <3> QED BY <1>6, <3>1, <3>2
  <2>3. s \o t = WrittenUpTo(f, items, as)[k + 1] /\ Len(s \o t) =< BUF
    BY <1>8, <1>9 DEF u
  <2> HIDE DEF dx, dy
  <2>4. At(f, items, as, k + 1, fm, ar, x + dx, y + dy, s \o t, g)
    BY <2>1, <2>2, <2>3, Zenon DEF At
  <2>5. In(f, items, as, fm, ar, x + dx, y + dy, s \o t, g)
    BY <1>2, <2>4 DEF In
  <2> QED BY <2>5 DEF dx, dy
<1> QED BY <1>4, <1>6, <1>8, <1>9, Zenon

\* Past the last item the buffer holds the text.
LEMMA InAtEnd ==
  ASSUME NEW f, NEW items, NEW as, NEW k \in 0..Len(items),
         NEW fm, NEW ar, NEW x, NEW y, NEW s, NEW g, At(f, items, as, k, fm, ar, x, y, s, g)
  PROVE  /\ x \in Nat /\ Len(fm) \in Nat
         /\ \/ k < Len(items) /\ x =< Len(fm)
            \/ k = Len(items) /\ x = Len(fm) + 1 /\ s = Written(f, items, as)
<1>1. items \in Seq(Item) /\ Len(items) \in Nat
  <2>1. items \in Seq(Item)
    BY TextJoin DEF At
  <2> QED BY <2>1
<1>2. CASE k < Len(items)
  <2>1. Sees(items, k, fm, x)
    BY <1>2, NextSeen
  <2> QED BY <1>2, <2>1 DEF Sees
<1>3. CASE ~ (k < Len(items))
  <2>1. k = Len(items)
    BY <1>1, <1>3
  <2>2. s = Written(f, items, as) /\ fm = O!CharsUpTo(items)[k] /\ x = Len(fm) + 1
    BY <2>1 DEF At, Written, O!Chars
  <2>3. Joins(O!CharsUpTo(items), Pieces(items), Len(items))
    BY <1>1, CharsJoin
  <2>4. fm \in Seq(Int)
    <3>1. \A j \in 0..k : O!CharsUpTo(items)[j] \in Seq(Int)
      BY <2>1, <2>3, JoinFacts
    <3>2. k \in 0..k
      BY <1>1, <2>1
    <3> QED BY <2>2, <3>1, <3>2
  <2>5. Len(fm) \in Nat /\ x \in Nat
    BY <2>2, <2>4
  <2> QED BY <2>1, <2>2, <2>5
<1> QED BY <1>2, <1>3


\* Where the loop is, and that it goes on or leaves its buffer.
Inside(f, items, as) == In(f, items, as, o_fmt, o_args, o_i, o_arg, o_p, o_fn)
GoesOn(f, items, as) ==
  \/ o_pc' = "loop" /\ In(f, items, as, o_fmt', o_args', o_i', o_arg', o_p', o_fn')
  \/ o_pc' = "overrun" /\ Len(Written(f, items, as)) > BUF

\* The loop steps over an item.
Over(items, k) ==
  /\ o_i' = o_i + (IF items[k + 1].conv THEN 2 ELSE 1)
  /\ o_arg' = o_arg + (IF items[k + 1].conv THEN 1 ELSE 0)
  /\ o_fmt' = o_fmt /\ o_args' = o_args /\ o_fn' = o_fn

\* The length of a text, and when it fits.
LEMMA TextLength ==
  ASSUME NEW s \in Seq(Int)
  PROVE  Len(s) \in Nat
OBVIOUS

LEMMA FitsIn ==
  ASSUME NEW m \in Nat, NEW n \in Nat, NEW l \in Nat, ~ (m + n > l)
  PROVE  m + n =< l
OBVIOUS

\* An item that is put into the buffer, or does not fit.
LEMMA PutStep ==
  ASSUME NEW f, NEW items, NEW as, NEW k \in 0..Len(items), k < Len(items),
         At(f, items, as, k, o_fmt, o_args, o_i, o_arg, o_p, o_fn),
         NEW t, t = Said(f, items, as, k + 1), o_pc = "loop", O!Put(t), Over(items, k)
  PROVE  GoesOn(f, items, as)
<1>1. /\ o_p \in Seq(Int) /\ t \in Seq(Int)
      /\ Len(o_p) + Len(t) =< Len(Written(f, items, as))
      /\ Written(f, items, as) \in Seq(Int)
  BY NextItem
<1>2. Len(o_p) + Len(t) =< BUF =>
        In(f, items, as, o_fmt, o_args,
           o_i + (IF items[k + 1].conv THEN 2 ELSE 1), o_arg + (IF items[k + 1].conv THEN 1 ELSE 0), o_p \o t, o_fn)
  BY NextItem
<1> DEFINE lp == Len(o_p)
           lt == Len(t)
           le == Len(Written(f, items, as))
<1>3. BUF \in Nat
  BY InstancesAssumption DEF O!FormatAssumption
<1>4. lp \in Nat /\ lt \in Nat /\ le \in Nat
  <2> DEFINE e == Written(f, items, as)
  <2>1. o_p \in Seq(Int) /\ t \in Seq(Int) /\ e \in Seq(Int)
    BY <1>1, Zenon
  <2> HIDE DEF e
  <2>2. Len(o_p) \in Nat /\ Len(t) \in Nat /\ Len(e) \in Nat
    BY <2>1, TextLength, Zenon
  <2> QED BY <2>2, Zenon DEF e
<1>5. lp + lt =< le
  BY <1>1, Zenon
<1>6. IF lp + lt > BUF THEN o_pc' = "overrun" ELSE o_p' = o_p \o t /\ o_pc' = "loop"
  BY DEF O!Put
<1>7. lp + lt =< BUF =>
        In(f, items, as, o_fmt, o_args,
           o_i + (IF items[k + 1].conv THEN 2 ELSE 1), o_arg + (IF items[k + 1].conv THEN 1 ELSE 0), o_p \o t, o_fn)
  BY <1>2, Zenon
<1> HIDE DEF lp, lt, le
<1>8. CASE lp + lt > BUF
  <2>1. o_pc' = "overrun" /\ le > BUF
    BY <1>3, <1>4, <1>5, <1>6, <1>8
  <2> QED BY <2>1 DEF GoesOn, le
<1>9. CASE ~ (lp + lt > BUF)
  <2>1. o_p' = o_p \o t /\ o_pc' = "loop"
    BY <1>6, <1>9, Zenon
  <2>2. lp + lt =< BUF
    BY <1>3, <1>4, <1>9, FitsIn, Zenon
  <2>3. In(f, items, as, o_fmt', o_args', o_i', o_arg', o_p', o_fn')
    BY <1>7, <2>1, <2>2, Zenon DEF Over
  <2> QED BY <2>1, <2>3 DEF GoesOn
<1> QED BY <1>8, <1>9

\* Characters that are not a '%' are copied.
LEMMA LiteralStep ==
  ASSUME NEW f, NEW items, NEW as, Inside(f, items, as), O!Literal
  PROVE  GoesOn(f, items, as)
<1>1. PICK k \in 0..Len(items) : At(f, items, as, k, o_fmt, o_args, o_i, o_arg, o_p, o_fn)
  BY DEF Inside, In
<1>2. /\ o_pc = "loop" /\ o_i =< Len(o_fmt) /\ o_fmt[o_i] # O!PERCENT /\ O!Put(<<o_fmt[o_i]>>) /\ o_i' = o_i + 1
      /\ o_fmt' = o_fmt /\ o_args' = o_args /\ o_arg' = o_arg /\ o_fn' = o_fn
  BY DEF O!Literal
<1>3. k < Len(items)
  <2>1. /\ o_i \in Nat /\ Len(o_fmt) \in Nat
        /\ \/ k < Len(items) /\ o_i =< Len(o_fmt)
           \/ k = Len(items) /\ o_i = Len(o_fmt) + 1 /\ o_p = Written(f, items, as)
    BY <1>1, InAtEnd, ZenonT(30)
  <2> DEFINE l == Len(o_fmt)
             n == Len(items)
  <2>2. o_i \in Nat /\ l \in Nat /\ (k < n \/ o_i = l + 1)
    BY <2>1, Zenon
  <2>3. o_i =< l \/ o_i < l \/ o_i = l
    BY <1>2, Zenon
  <2> HIDE DEF l, n
  <2>4. k < n
    BY <2>2, <2>3
  <2> QED BY <2>4 DEF n
<1>4. Sees(items, k, o_fmt, o_i)
  BY <1>1, <1>3, NextSeen
<1>5. ~ items[k + 1].conv /\ o_fmt[o_i] = items[k + 1].ch
  BY <1>2, <1>4 DEF Sees
<1> DEFINE t == <<o_fmt[o_i]>>
<1>6. t = Said(f, items, as, k + 1)
  BY <1>5 DEF Said
<1>7. o_arg + 0 = o_arg
  <2>1. items \in Seq(Item)
    BY <1>1, TextJoin DEF At
  <2>2. O!ArgOf(items, k) \in Nat
    BY <2>1, ArgSteps
  <2> QED BY <1>1, <2>2 DEF At
<1>8. Over(items, k)
  BY <1>2, <1>5, <1>7 DEF Over
<1>9. O!Put(t)
  BY <1>2
<1> HIDE DEF t
<1> QED BY <1>1, <1>2, <1>3, <1>6, <1>8, <1>9, PutStep

\* A conversion takes its argument.
LEMMA ConversionStep ==
  ASSUME NEW f, NEW items, NEW as, Inside(f, items, as), O!Conversion
  PROVE  GoesOn(f, items, as)
<1>1. PICK k \in 0..Len(items) : At(f, items, as, k, o_fmt, o_args, o_i, o_arg, o_p, o_fn)
  BY DEF Inside, In
<1> DEFINE t == O!Converted(o_fn, o_fmt[o_i + 1], IF o_arg \in DOMAIN o_args THEN o_args[o_arg] ELSE 0)
<1>2. /\ o_pc = "loop" /\ o_i < Len(o_fmt) /\ o_fmt[o_i] = O!PERCENT /\ O!Put(t) /\ o_i' = o_i + 2
      /\ o_fmt' = o_fmt /\ o_args' = o_args /\ o_arg' = o_arg + 1 /\ o_fn' = o_fn
  BY DEF O!Conversion
<1> HIDE DEF t
<1>3. k < Len(items)
  <2>1. /\ o_i \in Nat /\ Len(o_fmt) \in Nat
        /\ \/ k < Len(items) /\ o_i =< Len(o_fmt)
           \/ k = Len(items) /\ o_i = Len(o_fmt) + 1 /\ o_p = Written(f, items, as)
    BY <1>1, InAtEnd, ZenonT(30)
  <2> DEFINE l == Len(o_fmt)
             n == Len(items)
  <2>2. o_i \in Nat /\ l \in Nat /\ (k < n \/ o_i = l + 1)
    BY <2>1, Zenon
  <2>3. o_i =< l \/ o_i < l \/ o_i = l
    BY <1>2, Zenon
  <2> HIDE DEF l, n
  <2>4. k < n
    BY <2>2, <2>3
  <2> QED BY <2>4 DEF n
<1>4. Sees(items, k, o_fmt, o_i)
  BY <1>1, <1>3, NextSeen
<1>5. items \in Seq(Item) /\ O!Fitting(items, as)
  BY <1>1, TextJoin DEF At
<1>6. Len(items) \in Nat /\ k + 1 \in 1..Len(items) /\ k + 1 \in DOMAIN items
      /\ k + 1 \in 0..Len(items) /\ (k + 1) - 1 = k /\ k + 1 # 0
  BY <1>3, <1>5
<1>7. items[k + 1].conv
  <2> SUFFICES ASSUME ~ items[k + 1].conv PROVE FALSE
    OBVIOUS
  <2>1. items[k + 1].ch = O!PERCENT /\ Len(O!CharsUpTo(items)[k + 1]) + 1 = o_i + 1
    BY <1>2, <1>4 DEF Sees
  <2>2. k + 1 = Len(items)
    BY <1>5, <1>6, <2>1 DEF O!Fitting
  <2>3. o_fmt = O!CharsUpTo(items)[k + 1]
    BY <1>1, <2>2 DEF At, O!Chars
  <2>4. Len(o_fmt) + 1 = o_i + 1
    BY <2>1, <2>3
  <2>5. Len(o_fmt) \in Nat /\ o_i \in Nat
    BY <1>4 DEF Sees
  <2> QED BY <1>2, <2>4, <2>5
<1>8. o_arg = O!ArgOf(items, k + 1) /\ o_args = as
  <2>1. O!ArgOf(items, k + 1) = O!ArgOf(items, k) + 1
    BY <1>5, <1>6, <1>7, ArgSteps
  <2> QED BY <1>1, <2>1 DEF At
<1>9. O!ArgOf(items, k + 1) \in DOMAIN as
  BY <1>5, <1>6, <1>7 DEF O!Fitting
<1>10. o_fmt[o_i + 1] = items[k + 1].ch
  BY <1>4, <1>7 DEF Sees
<1>11. t = O!Converted(o_fn, items[k + 1].ch, as[O!ArgOf(items, k + 1)])
  BY <1>8, <1>9, <1>10 DEF t
<1>12. t = O!Converted(f, items[k + 1].ch, as[O!ArgOf(items, k + 1)])
  <2>1. Alike(f, o_fn)
    BY <1>1 DEF At
  <2> DEFINE c == items[k + 1].ch
             a == as[O!ArgOf(items, k + 1)]
  <2> HIDE DEF c, a
  <2>2. O!Converted(o_fn, c, a) = O!Converted(f, c, a)
    BY <2>1 DEF O!Converted, Alike
  <2> QED BY <1>11, <2>2, Zenon DEF c, a
<1>13. t = Said(f, items, as, k + 1)
  BY <1>7, <1>12 DEF Said
<1>14. Over(items, k)
  BY <1>2, <1>7 DEF Over
<1> QED BY <1>1, <1>2, <1>3, <1>13, <1>14, PutStep

\* Only a '%' that is the last item of a format is at its end.
LEMMA PercentStep ==
  ASSUME NEW f, NEW items, NEW as, Inside(f, items, as), O!PercentAtEnd
  PROVE  items[Len(items)] = O!Lit(O!PERCENT)
<1>1. PICK k \in 0..Len(items) : At(f, items, as, k, o_fmt, o_args, o_i, o_arg, o_p, o_fn)
  BY DEF Inside, In
<1>2. o_i = Len(o_fmt) /\ o_fmt[o_i] = O!PERCENT
  BY DEF O!PercentAtEnd
<1>3. k < Len(items)
  <2>1. /\ o_i \in Nat /\ Len(o_fmt) \in Nat
        /\ \/ k < Len(items) /\ o_i =< Len(o_fmt)
           \/ k = Len(items) /\ o_i = Len(o_fmt) + 1 /\ o_p = Written(f, items, as)
    BY <1>1, InAtEnd, ZenonT(30)
  <2> DEFINE l == Len(o_fmt)
             n == Len(items)
  <2>2. o_i \in Nat /\ l \in Nat /\ (k < n \/ o_i = l + 1)
    BY <2>1, Zenon
  <2>3. o_i =< l \/ o_i < l \/ o_i = l
    BY <1>2, Zenon
  <2> HIDE DEF l, n
  <2>4. k < n
    BY <2>2, <2>3
  <2> QED BY <2>4 DEF n
<1>4. Sees(items, k, o_fmt, o_i)
  BY <1>1, <1>3, NextSeen
<1>5. items \in Seq(Item) /\ O!Fitting(items, as)
  BY <1>1, TextJoin DEF At
<1>6. Len(items) \in Nat /\ k + 1 \in DOMAIN items
  BY <1>3, <1>5
<1>7. ~ items[k + 1].conv /\ items[k + 1].ch = O!PERCENT
  BY <1>2, <1>4 DEF Sees
<1>8. k + 1 = Len(items)
  BY <1>5, <1>6, <1>7 DEF O!Fitting
<1>9. items[k + 1] \in Item
  BY <1>5, <1>6
<1>10. items[k + 1] = [conv |-> FALSE, ch |-> O!PERCENT]
  BY <1>7, <1>9 DEF Item
<1> QED BY <1>8, <1>10 DEF O!Lit

\* The functions that print a number or bytes without a format.
Printers == {"s32_print_int", "p_dump_u8"}

\* They keep their arguments, and have printed them when they are done.
NumbersInv ==
  /\ o_call \in Call
  /\ o_call.fn \in Printers =>
       /\ o_fn = o_call.fn /\ o_args = o_call.args
       /\ o_pc = "done" =>
            o_printed = <<IF o_fn = "s32_print_int" THEN O!s32_itoa(o_args[1], o_args[2]) ELSE O!p_dump_u8(o_args)>>

LEMMA NumbersInvInit == O!Init => NumbersInv
BY DEF O!Init, NumbersInv, Printers

\* No other function ends for them.
LEMMA NumbersInvNext ==
  ASSUME NumbersInv, O!Next
  PROVE  NumbersInv'
<1>1. o_call' = o_call
  BY DEF O!Next, O!Literal, O!Conversion, O!PercentAtEnd, O!NoRoomForNul, O!Return, O!panic, O!printx, O!Screen,
         O!PrintNumber
<1>2. CASE o_call.fn \notin Printers
  BY <1>1, <1>2 DEF NumbersInv
<1>3. CASE o_call.fn \in Printers
  <2>1. o_fn \in Printers /\ o_fn = o_call.fn /\ o_args = o_call.args
    BY <1>3 DEF NumbersInv
  <2>2. CASE O!Literal \/ O!Conversion
    <3>1. o_fn' = o_fn /\ o_args' = o_args /\ o_pc = "loop"
      BY <2>2 DEF O!Literal, O!Conversion
    <3>2. o_pc' \in {"loop", "overrun"}
      BY <2>2, <3>1 DEF O!Literal, O!Conversion, O!Put
    <3> QED BY <1>1, <2>1, <3>1, <3>2 DEF NumbersInv
  <2>3. CASE O!PercentAtEnd \/ O!NoRoomForNul
    BY <1>1, <2>1, <2>3 DEF NumbersInv, O!PercentAtEnd, O!NoRoomForNul
  <2>4. CASE O!Return \/ O!panic \/ O!printx
    BY <2>1, <2>4 DEF Printers, O!Return, O!panic, O!printx
  <2>5. CASE O!Screen
    <3>1. o_fn' = o_fn /\ o_args' = o_args /\ o_pc' # "done"
      BY <2>5 DEF O!Screen
    <3> QED BY <1>1, <2>1, <3>1 DEF NumbersInv
  <2>6. CASE O!PrintNumber
    <3>1. o_fn' = o_fn /\ o_args' = o_args
      BY <2>6 DEF O!PrintNumber
    <3>2. o_printed' = <<IF o_fn = "s32_print_int" THEN O!s32_itoa(o_args[1], o_args[2]) ELSE O!p_dump_u8(o_args)>>
      BY <2>1, <2>6 DEF O!PrintNumber, Printers
    <3> QED BY <1>1, <2>1, <3>1, <3>2 DEF NumbersInv
  <2> QED BY <2>2, <2>3, <2>4, <2>5, <2>6 DEF O!Next
<1> QED BY <1>2, <1>3

\* A number reads back from a string.
Printed(t, n, r) == O!Value(t, r) = n /\ (t[1] = 48 => n = 0) /\ Len(t) < 12

LEMMA ItoaPrinted == \A r \in {10, 16}, n \in Nat : Unsigned32(n) => Printed(O!s32_itoa(n, r), n, r)
<1> SUFFICES ASSUME NEW r \in {10, 16}, NEW n \in Nat, Unsigned32(n) PROVE Printed(O!s32_itoa(n, r), n, r)
  OBVIOUS
<1> DEFINE s == O!s32_itoa(n, r)
<1>1. /\ O!s32_itoa(n, r) \in Seq(Nat)
      /\ O!Value(O!s32_itoa(n, r), r) = n
      /\ O!s32_itoa(n, r)[1] = 48 => n = 0
      /\ Len(O!s32_itoa(n, r)) \in 1..10
  BY ItoaFacts, Zenon
<1>2. s \in Seq(Nat) /\ O!Value(s, r) = n /\ (s[1] = 48 => n = 0) /\ Len(s) \in 1..10
  BY <1>1, Zenon
<1> HIDE DEF s
<1> DEFINE l == Len(s)
<1>3. l \in 1..10
  BY <1>2, Zenon
<1> HIDE DEF l
<1>4. l < 12
  BY <1>3
<1>5. Len(s) < 12
  BY <1>4 DEF l
<1> QED BY <1>2, <1>5, Zenon DEF s, Printed

\* What they print reads back.
LEMMA NumbersInvReadBack ==
  ASSUME NumbersInv
  PROVE  O!NumbersReadBack
<1> SUFFICES ASSUME o_pc = "done"
             PROVE  /\ o_call.fn = "s32_print_int" =>
                         /\ O!Value(o_printed[1], o_args[2]) = o_args[1]
                         /\ o_printed[1][1] = 48 => o_args[1] = 0
                         /\ Len(o_printed[1]) < 12
                    /\ o_call.fn = "p_dump_u8" =>
                         \A k \in DOMAIN o_args :
                           O!Value(SubSeq(o_printed[1], 3 * k - 2, 3 * k - 1), 16) = o_args[k]
  BY DEF O!NumbersReadBack
<1>1. O!IsCall(o_call)
  BY InstancesAssumption DEF NumbersInv, O!FormatAssumption
<1>2. ASSUME o_call.fn = "s32_print_int"
      PROVE  /\ O!Value(o_printed[1], o_args[2]) = o_args[1]
             /\ o_printed[1][1] = 48 => o_args[1] = 0
             /\ Len(o_printed[1]) < 12
  <2> DEFINE n == o_args[1]
             r == o_args[2]
  <2>1. n \in Nat /\ Unsigned32(n) /\ r \in {10, 16}
    BY <1>1, <1>2 DEF NumbersInv, Printers, O!IsCall, O!Fits, Unsigned32
  <2>2. o_printed[1] = O!s32_itoa(n, r)
    BY <1>2 DEF NumbersInv, Printers
  <2> HIDE DEF n, r
  <2>3. Printed(O!s32_itoa(n, r), n, r)
    BY <2>1, ItoaPrinted, Zenon
  <2>4. Printed(o_printed[1], n, r)
    BY <2>2, <2>3, Zenon
  <2> QED BY <2>4, Zenon DEF n, r, Printed
<1>3. ASSUME o_call.fn = "p_dump_u8", NEW k \in DOMAIN o_args
      PROVE  O!Value(SubSeq(o_printed[1], 3 * k - 2, 3 * k - 1), 16) = o_args[k]
  <2>1. o_args \in Seq(Byte)
    BY <1>1, <1>3 DEF NumbersInv, Printers, O!IsCall, Byte
  <2>2. o_printed[1] = O!p_dump_u8(o_args)
    BY <1>3 DEF NumbersInv, Printers
  <2>3. O!Value(SubSeq(O!p_dump_u8(o_args), 3 * k - 2, 3 * k - 1), 16) = o_args[k]
    BY <2>1, DumpReads
  <2> QED BY <2>2, <2>3, Zenon
<1> QED BY <1>2, <1>3, Zenon

(***************************************************************************)
(* s32_print_int and p_dump_u8 print what reads back as the number or the  *)
(* bytes they were given: the division by the base and the turning round   *)
(* of the digits in s32_itoa lose nothing, no '-' and no leading zero      *)
(* appears, and a number of 32 bits fits the buffer str[12].               *)
(***************************************************************************)
THEOREM NumbersDoReadBack == SequentialSpec => []NumbersReadBack
<1>1. SequentialInit => NumbersInv
  BY OutputAndDelayInit, NumbersInvInit
<1>2. NumbersInv /\ [SequentialNext]_allvars => NumbersInv'
  <2> SUFFICES ASSUME NumbersInv, [SequentialNext]_allvars PROVE NumbersInv'
    OBVIOUS
  <2>1. O!Next \/ UNCHANGED ovars
    BY OutputAndDelayStep
  <2>2. CASE O!Next
    BY <2>2, NumbersInvNext
  <2>3. CASE UNCHANGED ovars
    BY <2>3 DEF NumbersInv, ovars
  <2> QED
    BY <2>1, <2>2, <2>3
<1>3. NumbersInv => NumbersReadBack
  BY NumbersInvReadBack DEF NumbersReadBack
<1> QED
  BY <1>1, <1>2, <1>3, PTL DEF SequentialSpec

\* What a format prints item by item.
LEMMA TextSteps ==
  ASSUME NEW f, NEW items, NEW as, O!Fitting(items, as)
  PROVE  /\ WrittenUpTo(f, items, as)[0] = << >>
         /\ \A k \in 1..Len(items) :
              /\ WrittenUpTo(f, items, as)[k] = WrittenUpTo(f, items, as)[k - 1] \o Said(f, items, as, k)
              /\ Said(f, items, as, k) \in Seq(Int)
<1>1. Joins(WrittenUpTo(f, items, as), Texts(f, items, as), Len(items))
  BY TextJoin
<1>2. ASSUME NEW k \in 1..Len(items) PROVE Texts(f, items, as)[k] = Said(f, items, as, k)
  BY DEF Texts
<1> QED BY <1>1, <1>2, Zenon DEF Joins

\* The argument after an item.
LEMMA ArgNext ==
  ASSUME NEW items \in Seq(Item), NEW j \in 0..Len(items), NEW k \in 0..Len(items), k = j + 1
  PROVE  O!ArgOf(items, k) = O!ArgOf(items, j) + (IF items[k].conv THEN 1 ELSE 0)
<1>1. k # 0 /\ k - 1 = j
  OBVIOUS
<1> QED BY <1>1, ArgSteps

\* Strings of one and two characters.
LEMMA AppendToOne ==
  ASSUME NEW a \in Int, NEW b \in Int
  PROVE  <<a, b>> = Append(<<a>>, b)
OBVIOUS

LEMMA ShortTexts ==
  ASSUME NEW a \in Int, NEW b \in Int
  PROVE  << >> \o <<a>> = <<a>> /\ <<a>> \o <<b>> = <<a, b>> /\ Len(<<a>>) = 1 /\ <<a>>[1] = a
<1>1. Len(<<a>>) = 1 /\ <<a>>[1] = a /\ <<a>> \in Seq(Int)
  OBVIOUS
<1>2. << >> \o <<a>> = <<a>>
  OBVIOUS
<1>3. <<a>> \o <<b>> = <<a, b>>
  <2>1. Append(<<a>>, b) = <<a>> \o <<b>>
    BY <1>1, AppendIsConcat, Zenon
  <2> QED BY <2>1, AppendToOne, Zenon
<1> QED BY <1>1, <1>2, <1>3, Zenon

\* A text that begins with another.
LEMMA FirstOf ==
  ASSUME NEW m \in Seq(Int), NEW a \in Int, Extends(<<a>>, m)
  PROVE  m # << >> /\ m[1] = a
<1>1. Len(<<a>>) = 1 /\ <<a>>[1] = a
  BY ShortTexts
<1>2. 1 =< Len(m) /\ m[1] = a
  BY <1>1 DEF Extends
<1> QED BY <1>2

\* The format of panic takes a character and a string.
LEMMA PanicArgs ==
  /\ O!PanicItems \in Seq(Item) /\ Len(O!PanicItems) = 3
  /\ O!PanicItems[1].conv /\ O!PanicItems[1].ch = 99
  /\ ~ O!PanicItems[2].conv /\ O!PanicItems[2].ch = 33
  /\ O!PanicItems[3].conv /\ O!PanicItems[3].ch = 115
  /\ O!ArgOf(O!PanicItems, 1) = 1 /\ O!ArgOf(O!PanicItems, 3) = 2
<1> DEFINE it == O!PanicItems
<1>1. /\ it \in Seq(Item) /\ Len(it) = 3
      /\ it[1].conv /\ it[1].ch = 99 /\ ~ it[2].conv /\ it[2].ch = 33 /\ it[3].conv /\ it[3].ch = 115
  BY DEF O!PanicItems, O!Conv, O!Lit, Item
<1> HIDE DEF it
<1>2. /\ 0 \in 0..Len(it) /\ 1 \in 0..Len(it) /\ 2 \in 0..Len(it) /\ 3 \in 0..Len(it)
      /\ 1 - 1 = 0 /\ 2 - 1 = 1 /\ 3 - 1 = 2 /\ 1 # 0 /\ 2 # 0 /\ 3 # 0
  BY <1>1
<1>3. O!ArgOf(it, 0) = 0
  BY <1>1, <1>2, ArgSteps
<1>4. /\ O!ArgOf(it, 1) = O!ArgOf(it, 0) + (IF it[1].conv THEN 1 ELSE 0)
      /\ O!ArgOf(it, 2) = O!ArgOf(it, 1) + (IF it[2].conv THEN 1 ELSE 0)
      /\ O!ArgOf(it, 3) = O!ArgOf(it, 2) + (IF it[3].conv THEN 1 ELSE 0)
  <2>1. 1 = 0 + 1 /\ 2 = 1 + 1 /\ 3 = 2 + 1
    OBVIOUS
  <2>2. O!ArgOf(it, 1) = O!ArgOf(it, 0) + (IF it[1].conv THEN 1 ELSE 0)
    BY <1>1, <1>2, ArgNext
  <2>3. O!ArgOf(it, 2) = O!ArgOf(it, 1) + (IF it[2].conv THEN 1 ELSE 0)
    BY <1>1, <1>2, ArgNext
  <2>4. O!ArgOf(it, 3) = O!ArgOf(it, 2) + (IF it[3].conv THEN 1 ELSE 0)
    BY <1>1, <1>2, ArgNext
  <2> QED BY <2>2, <2>3, <2>4, Zenon
<1>5. O!ArgOf(it, 1) = 1 /\ O!ArgOf(it, 3) = 2
  BY <1>1, <1>3, <1>4
<1> QED BY <1>1, <1>5 DEF it

LEMMA PanicText ==
  ASSUME NEW m \in Seq(Int)
  PROVE  /\ O!Fitting(O!PanicItems, <<O!MAG_CH_PANIC, m>>)
         /\ Written("printx", O!PanicItems, <<O!MAG_CH_PANIC, m>>) = <<O!MAG_CH_PANIC, 33>> \o m
<1> DEFINE it == O!PanicItems
           as == <<O!MAG_CH_PANIC, m>>
           u == WrittenUpTo("printx", it, as)
<1>1. /\ it \in Seq(Item) /\ Len(it) = 3
      /\ it[1].conv /\ it[1].ch = 99 /\ ~ it[2].conv /\ it[2].ch = 33 /\ it[3].conv /\ it[3].ch = 115
      /\ O!ArgOf(it, 1) = 1 /\ O!ArgOf(it, 3) = 2
  BY PanicArgs
<1>2. as[1] = O!MAG_CH_PANIC /\ as[2] = m /\ 1 \in DOMAIN as /\ 2 \in DOMAIN as /\ O!MAG_CH_PANIC \in Int
  BY DEF O!MAG_CH_PANIC
<1> HIDE DEF it, as
<1>3. O!Fitting(it, as)
  <2>1. it \in Seq([conv : BOOLEAN, ch : Int])
    BY <1>1 DEF Item
  <2>2. ASSUME NEW k \in DOMAIN it
        PROVE  IF it[k].conv THEN O!ArgOf(it, k) \in DOMAIN as /\ O!Fits(it[k].ch, as[O!ArgOf(it, k)])
               ELSE it[k].ch = O!PERCENT => k = Len(it)
    <3>1. k = 1 \/ k = 2 \/ k = 3
      BY <1>1
    <3>2. CASE k = 1
      <4>1. O!Fits(99, O!MAG_CH_PANIC)
        BY <1>2 DEF O!Fits
      <4> QED BY <1>1, <1>2, <3>2, <4>1
    <3>3. CASE k = 2
      BY <1>1, <3>3 DEF O!PERCENT
    <3>4. CASE k = 3
      <4>1. O!Fits(115, m)
        BY DEF O!Fits
      <4> QED BY <1>1, <1>2, <3>4, <4>1
    <3> QED BY <3>1, <3>2, <3>3, <3>4
  <2> QED BY <2>1, <2>2 DEF O!Fitting
<1>4. /\ Said("printx", it, as, 1) = <<O!MAG_CH_PANIC>>
      /\ Said("printx", it, as, 2) = <<33>>
      /\ Said("printx", it, as, 3) = m
  <2>1. O!Converted("printx", 99, O!MAG_CH_PANIC) = <<O!MAG_CH_PANIC>>
    BY DEF O!Converted
  <2>2. O!Converted("printx", 115, m) = m
    BY DEF O!Converted
  <2>3. Said("printx", it, as, 1) = <<O!MAG_CH_PANIC>>
    BY <1>1, <1>2, <2>1 DEF Said
  <2>4. Said("printx", it, as, 2) = <<33>>
    BY <1>1 DEF Said
  <2>5. Said("printx", it, as, 3) = m
    BY <1>1, <1>2, <2>2 DEF Said
  <2> QED BY <2>3, <2>4, <2>5
<1> DEFINE b == <<33>>
<1>5. Said("printx", it, as, 2) = b /\ Written("printx", it, as) = u[3]
  BY <1>1, <1>4 DEF Written
<1>6. << >> \o <<O!MAG_CH_PANIC>> = <<O!MAG_CH_PANIC>> /\ <<O!MAG_CH_PANIC>> \o b = <<O!MAG_CH_PANIC, 33>>
  <2>1. 33 \in Int
    OBVIOUS
  <2> QED BY <1>2, <2>1, ShortTexts
<1>7. /\ u[0] = << >>
      /\ \A k \in 1..Len(it) : u[k] = u[k - 1] \o Said("printx", it, as, k)
  BY <1>3, TextSteps
<1> HIDE DEF u, b
<1>8. u[1] = u[0] \o Said("printx", it, as, 1) /\ u[2] = u[1] \o Said("printx", it, as, 2)
      /\ u[3] = u[2] \o Said("printx", it, as, 3)
  <2>1. 1 \in 1..Len(it) /\ 2 \in 1..Len(it) /\ 3 \in 1..Len(it) /\ 1 - 1 = 0 /\ 2 - 1 = 1 /\ 3 - 1 = 2
    BY <1>1
  <2> QED BY <1>7, <2>1
<1>9. u[1] = << >> \o <<O!MAG_CH_PANIC>> /\ u[2] = u[1] \o b /\ u[3] = u[2] \o m
  BY <1>4, <1>5, <1>7, <1>8, Zenon
<1> DEFINE c == <<O!MAG_CH_PANIC, 33>>
<1>10. u[2] = c
  BY <1>6, <1>9, Zenon
<1> HIDE DEF c
<1>11. u[3] = c \o m
  BY <1>9, <1>10, Zenon
<1>12. Written("printx", it, as) = <<O!MAG_CH_PANIC, 33>> \o m
  BY <1>5, <1>11, Zenon DEF c
<1> QED BY <1>3, <1>12, Zenon DEF it, as

\* That of the spinning assertion takes the name.
LEMMA SpinText ==
  /\ O!Fitting(O!SpinItems, <<O!SpinName>>)
  /\ Written("printx", O!SpinItems, <<O!SpinName>>) = <<115, 97>>
<1> DEFINE it == O!SpinItems
           as == <<O!SpinName>>
           m == <<97>>
           u == WrittenUpTo("printx", it, as)
<1>1. /\ it \in Seq(Item) /\ Len(it) = 2
      /\ ~ it[1].conv /\ it[1].ch = 115 /\ it[2].conv /\ it[2].ch = 115
  BY DEF O!SpinItems, O!Conv, O!Lit, Item
<1>2. as[1] = m /\ 1 \in DOMAIN as /\ m \in Seq(Int)
  BY DEF O!SpinName
<1> HIDE DEF it, as
<1>3. /\ 0 \in 0..Len(it) /\ 1 \in 0..Len(it) /\ 2 \in 0..Len(it)
      /\ 1 - 1 = 0 /\ 2 - 1 = 1 /\ 1 # 0 /\ 2 # 0
  BY <1>1
<1>4. O!ArgOf(it, 2) = 1
  <2>1. O!ArgOf(it, 0) = 0
    BY <1>1, <1>3, ArgSteps
  <2>2. 1 = 0 + 1 /\ 2 = 1 + 1
    OBVIOUS
  <2>3. /\ O!ArgOf(it, 1) = O!ArgOf(it, 0) + (IF it[1].conv THEN 1 ELSE 0)
        /\ O!ArgOf(it, 2) = O!ArgOf(it, 1) + (IF it[2].conv THEN 1 ELSE 0)
    BY <1>1, <1>3, <2>2, ArgNext
  <2> QED BY <1>1, <2>1, <2>3
<1> HIDE DEF m
<1>5. O!Fitting(it, as)
  <2>1. it \in Seq([conv : BOOLEAN, ch : Int])
    BY <1>1 DEF Item
  <2>2. ASSUME NEW k \in DOMAIN it
        PROVE  IF it[k].conv THEN O!ArgOf(it, k) \in DOMAIN as /\ O!Fits(it[k].ch, as[O!ArgOf(it, k)])
               ELSE it[k].ch = O!PERCENT => k = Len(it)
    <3>1. k = 1 \/ k = 2
      BY <1>1
    <3>2. CASE k = 1
      BY <1>1, <3>2 DEF O!PERCENT
    <3>3. CASE k = 2
      <4>1. O!Fits(115, m)
        BY <1>2 DEF O!Fits
      <4> QED BY <1>1, <1>2, <1>4, <3>3, <4>1
    <3> QED BY <3>1, <3>2, <3>3
  <2> QED BY <2>1, <2>2 DEF O!Fitting
<1>6. Said("printx", it, as, 1) = <<115>> /\ Said("printx", it, as, 2) = m
  <2>1. O!Converted("printx", 115, m) = m
    BY DEF O!Converted
  <2> QED BY <1>1, <1>2, <1>4, <2>1 DEF Said
<1> DEFINE a == <<115>>
<1>7. Said("printx", it, as, 1) = a /\ Written("printx", it, as) = u[2]
  BY <1>1, <1>6 DEF Written
<1>8. << >> \o a = a /\ a \o m = <<115, 97>>
  <2>1. 115 \in Int /\ 97 \in Int
    OBVIOUS
  <2> QED BY <2>1, ShortTexts DEF m
<1>9. /\ u[0] = << >>
      /\ \A k \in 1..Len(it) : u[k] = u[k - 1] \o Said("printx", it, as, k)
  BY <1>5, TextSteps
<1> HIDE DEF u, a
<1>10. u[1] = u[0] \o Said("printx", it, as, 1) /\ u[2] = u[1] \o Said("printx", it, as, 2)
  <2>1. 1 \in 1..Len(it) /\ 2 \in 1..Len(it) /\ 1 - 1 = 0 /\ 2 - 1 = 1
    BY <1>1
  <2> QED BY <1>9, <2>1
<1>11. u[1] = << >> \o a /\ u[2] = u[1] \o m
  BY <1>6, <1>7, <1>9, <1>10, Zenon
<1> DEFINE c == <<115, 97>>
<1>12. a \o m = c
  BY <1>8
<1> HIDE DEF c
<1>13. u[2] = c
  BY <1>8, <1>11, <1>12, Zenon
<1>14. Written("printx", it, as) = c
  BY <1>7, <1>13, Zenon
<1> QED BY <1>5, <1>14, Zenon DEF it, as, c

\* The message of an assertion begins with its mark.
LEMMA AssertText ==
  ASSUME NEW items, NEW as, O!Fitting(items, as), items # << >>, items[1] = O!Conv(99),
         as[1] = O!MAG_CH_ASSERT, NEW m, m = Written("assertion_failure", items, as)
  PROVE  m \in Seq(Int) /\ m # << >> /\ m[1] = O!MAG_CH_ASSERT
<1> DEFINE f == "assertion_failure"
           u == WrittenUpTo(f, items, as)
           n == Len(items)
<1>1. items \in Seq(Item) /\ Joins(u, Texts(f, items, as), n)
  BY TextJoin
<1>2. n \in Nat /\ n >= 1 /\ 1 \in 0..n /\ 0 \in 0..n /\ n \in 0..n /\ 1 \in 1..n /\ 1 - 1 = 0 /\ 1 # 0
  BY <1>1
<1>3. items[1].conv /\ items[1].ch = 99
  BY DEF O!Conv
<1>4. O!ArgOf(items, 1) = 1
  <2>1. O!ArgOf(items, 0) = 0 /\ O!ArgOf(items, 1) = O!ArgOf(items, 0) + 1
    BY <1>1, <1>2, <1>3, ArgSteps
  <2> QED BY <2>1
<1>5. Said(f, items, as, 1) = <<O!MAG_CH_ASSERT>>
  <2>1. O!Converted(f, 99, O!MAG_CH_ASSERT) = <<O!MAG_CH_ASSERT>>
    BY DEF O!Converted
  <2> QED BY <1>3, <1>4, <2>1 DEF Said
<1>6. u[0] = << >> /\ u[1] = u[0] \o <<O!MAG_CH_ASSERT>>
  <2>1. u[0] = << >> /\ \A k \in 1..n : u[k] = u[k - 1] \o Said(f, items, as, k)
    BY TextSteps
  <2> HIDE DEF u
  <2> QED BY <1>2, <1>5, <2>1
<1>7. m = u[n]
  BY DEF Written
<1>8. Extends(u[1], u[n]) /\ u[n] \in Seq(Int)
  <2> HIDE DEF u, n
  <2>1. \A j \in 0..n : u[j] \in Seq(Int) /\ Extends(u[j], u[n])
    BY <1>1, <1>2, JoinFacts
  <2> QED BY <1>2, <2>1
<1> HIDE DEF u, n
<1>9. O!MAG_CH_ASSERT \in Int
  BY DEF O!MAG_CH_ASSERT
<1>10. u[1] = <<O!MAG_CH_ASSERT>>
  BY <1>6, <1>9, ShortTexts, Zenon
<1>11. m \in Seq(Int) /\ Extends(<<O!MAG_CH_ASSERT>>, m)
  BY <1>7, <1>8, <1>10, Zenon
<1> QED BY <1>9, <1>11, FirstOf, Zenon

\* The loops that run: that of the call, that of the panic with its message,
\* and that of the assertion that spins.
Runs(f) == IF f = "assertion_failure" THEN "printx" ELSE f
RunsFirst ==
  o_printed = << >> /\ o_fn = Runs(o_call.fn) /\ Inside(o_call.fn, o_call.items, o_call.args)
RunsPanic ==
  /\ o_call.fn = "panic" /\ o_fn = "printx" /\ o_printed = << >>
  /\ Inside("printx", O!PanicItems, <<O!MAG_CH_PANIC, Wrote>>)
RunsSpin ==
  /\ o_call.fn = "assertion_failure" /\ ~ o_call.task /\ o_fn = "printx"
  /\ o_printed = <<O!Shown(Wrote)>>
  /\ Inside("printx", O!SpinItems, <<O!SpinName>>)

\* FormatsMessage, with what the loop was written to print for what the format says.
FormatsWritten ==
  /\ o_pc = "done" /\ o_call.fn \in {"sprintf", "vsprintf"} => o_p = Wrote
  /\ o_pc = "done" /\ o_call.fn = "printf" => o_printed = <<Wrote>>
  /\ o_pc = "halted" /\ o_call.fn = "panic" => o_p = <<O!MAG_CH_PANIC, 33>> \o Wrote
  /\ o_pc = "halted" /\ o_call.fn = "assertion_failure" => o_p = Wrote
  /\ o_pc = "done" /\ o_call.fn = "assertion_failure" => ~ o_call.task /\ o_printed[1] = O!Shown(Wrote)
  /\ o_pc = "halted" => o_v >= V_MEM_SIZE /\ o_v < V_MEM_SIZE + O!BAND
  /\ o_pc = "past_end" => o_call.items[Len(o_call.items)] = O!Lit(O!PERCENT)
  /\ o_pc = "overrun" => Len(Wrote) + (IF o_call.fn = "panic" THEN 2 ELSE 0) >= BUF

\* What fills the screen before the system halts.
OnScreen ==
  /\ o_p \in Seq(Int) /\ o_p # << >>
  /\ o_call.fn = "panic" => o_p = <<O!MAG_CH_PANIC, 33>> \o Wrote
  /\ o_call.fn = "assertion_failure" => o_p = Wrote

Ended ==
  \/ o_pc \in {"done", "past_end", "overrun"} /\ FormatsWritten
  \/ o_pc = "screen" /\ OnScreen
  \/ o_pc = "halted" /\ OnScreen /\ o_v >= V_MEM_SIZE

FormatInv ==
  /\ o_call \in Call
  /\ o_v \in Nat /\ o_v < V_MEM_SIZE + O!BAND
  /\ \/ o_pc = "loop" /\ (RunsFirst \/ RunsPanic \/ RunsSpin)
     \/ Ended

LEMMA FormatInvHolds == FormatInv => FormatsWritten
<1> SUFFICES ASSUME FormatInv PROVE FormatsWritten
  OBVIOUS
<1>1. o_v < V_MEM_SIZE + O!BAND
  BY DEF FormatInv
<1>2. CASE o_pc = "loop"
  BY <1>2 DEF FormatsWritten
<1>3. CASE o_pc = "screen"
  BY <1>3 DEF FormatsWritten
<1>4. CASE o_pc = "halted" /\ OnScreen /\ o_v >= V_MEM_SIZE
  <2>1. /\ o_pc = "halted" /\ o_v >= V_MEM_SIZE
        /\ o_call.fn = "panic" => o_p = <<O!MAG_CH_PANIC, 33>> \o Wrote
        /\ o_call.fn = "assertion_failure" => o_p = Wrote
    BY <1>4 DEF OnScreen
  <2> QED BY <1>1, <2>1 DEF FormatsWritten
<1>5. CASE o_pc \in {"done", "past_end", "overrun"} /\ FormatsWritten
  BY <1>5
<1> QED BY <1>2, <1>3, <1>4, <1>5 DEF FormatInv, Ended

\* The calls fit their formats.
LEMMA CallFits ==
  ASSUME o_call \in Call
  PROVE  O!Fitting(o_call.items, o_call.args) /\ O!IsCall(o_call)
<1>1. O!IsCall(o_call)
  BY InstancesAssumption DEF O!FormatAssumption
<1> QED BY <1>1 DEF O!IsCall

LEMMA FormatInvInit == O!Init => FormatInv
<1> SUFFICES ASSUME O!Init PROVE FormatInv
  OBVIOUS
<1>1. o_call \in Call /\ o_pc = "loop" /\ o_printed = << >> /\ o_v = 0
      /\ o_fn = Runs(o_call.fn)
  BY DEF O!Init, Runs
<1>2. o_fmt = O!Chars(o_call.items) /\ o_args = o_call.args /\ o_i = 1 /\ o_arg = 1 /\ o_p = << >>
  BY DEF O!Init
<1>3. O!Fitting(o_call.items, o_call.args)
  BY <1>1, CallFits
<1>4. Alike(o_call.fn, o_fn)
  BY <1>1 DEF Alike, Runs
<1>5. In(o_call.fn, o_call.items, o_call.args, O!Chars(o_call.items), o_call.args, 1, 1, << >>, o_fn)
  BY <1>3, <1>4, InAtFirst, Zenon
<1>6. Inside(o_call.fn, o_call.items, o_call.args)
  BY <1>2, <1>5, Zenon DEF Inside
<1>7. RunsFirst
  BY <1>1, <1>6, Zenon DEF RunsFirst
<1>8. 0 \in Nat /\ 0 < V_MEM_SIZE + O!BAND
  BY InstancesAssumption DEF O!FormatAssumption, O!BAND
<1> QED BY <1>1, <1>7, <1>8 DEF FormatInv

\* Behind the format the buffer holds the text.
LEMMA EndOfText ==
  ASSUME NEW f, NEW items, NEW as, Inside(f, items, as), o_i > Len(o_fmt)
  PROVE  o_p = Written(f, items, as)
<1>1. PICK k \in 0..Len(items) : At(f, items, as, k, o_fmt, o_args, o_i, o_arg, o_p, o_fn)
  BY DEF Inside, In
<1>2. /\ o_i \in Nat /\ Len(o_fmt) \in Nat
      /\ \/ k < Len(items) /\ o_i =< Len(o_fmt)
         \/ k = Len(items) /\ o_i = Len(o_fmt) + 1 /\ o_p = Written(f, items, as)
  BY <1>1, InAtEnd, ZenonT(30)
<1> DEFINE l == Len(o_fmt)
<1>3. o_i \in Nat /\ l \in Nat /\ (o_i =< l \/ o_p = Written(f, items, as)) /\ o_i > l
  BY <1>2, Zenon
<1> HIDE DEF l
<1>4. ~ (o_i =< l)
  BY <1>3
<1> QED BY <1>3, <1>4, Zenon

\* A text consists of characters.
LEMMA TextType ==
  ASSUME NEW f, NEW items, NEW as, O!Fitting(items, as)
  PROVE  Written(f, items, as) \in Seq(Int)
<1> DEFINE u == WrittenUpTo(f, items, as)
           n == Len(items)
<1>1. items \in Seq(Item) /\ Joins(u, Texts(f, items, as), n)
  BY TextJoin
<1>2. n \in Nat /\ n \in 0..n
  BY <1>1
<1>3. Written(f, items, as) = u[n]
  BY DEF Written
<1> HIDE DEF u, n
<1>4. \A j \in 0..n : u[j] \in Seq(Int)
  BY <1>1, <1>2, JoinFacts
<1> QED BY <1>2, <1>3, <1>4

LEMMA MessageType ==
  ASSUME o_call \in Call
  PROVE  Wrote \in Seq(Int) /\ Wrote = Written(o_call.fn, o_call.items, o_call.args)
<1>1. O!Fitting(o_call.items, o_call.args)
  BY CallFits
<1>2. Wrote = Written(o_call.fn, o_call.items, o_call.args)
  BY DEF Wrote
<1>3. Written(o_call.fn, o_call.items, o_call.args) \in Seq(Int)
  BY <1>1, TextType, Zenon
<1> QED BY <1>2, <1>3, Zenon

\* A step leaves the call, and with it the message.
SameCall == o_call' = o_call /\ o_v' = o_v /\ Wrote' = Wrote

LEMMA CallStays ==
  ASSUME o_call' = o_call, o_v' = o_v
  PROVE  SameCall
<1>1. Wrote' = Wrote
  BY DEF Wrote
<1> QED BY <1>1 DEF SameCall

\* In the loop one of the three runs.
LEMMA Running ==
  ASSUME FormatInv, o_pc = "loop"
  PROVE  o_call \in Call /\ (RunsFirst \/ RunsPanic \/ RunsSpin)
BY DEF FormatInv, Ended

\* The text does not fit the buffer.
LEMMA Overran ==
  ASSUME FormatInv, SameCall, o_pc' = "overrun",
         Len(Wrote) + (IF o_call.fn = "panic" THEN 2 ELSE 0) >= BUF
  PROVE  FormatInv'
<1>1. o_call' = o_call /\ o_v' = o_v /\ Wrote' = Wrote
  BY DEF SameCall
<1> DEFINE room == Len(Wrote) + (IF o_call.fn = "panic" THEN 2 ELSE 0)
<1>2. room >= BUF
  OBVIOUS
<1>3. (Len(Wrote) + (IF o_call.fn = "panic" THEN 2 ELSE 0))' = room
  BY <1>1
<1> HIDE DEF room
<1>4. FormatsWritten'
  BY <1>2, <1>3 DEF FormatsWritten
<1>5. Ended'
  BY <1>4 DEF Ended
<1> QED BY <1>1, <1>5 DEF FormatInv

\* A text of two characters before another is as much longer.
LEMMA TwoLonger ==
  ASSUME NEW a \in Int, NEW b \in Int, NEW m \in Seq(Int)
  PROVE  /\ Len(<<a, b>> \o m) = Len(m) + 2 /\ Len(m) \in Nat
         /\ (<<a, b>> \o m)[1] = a /\ <<a, b>> \o m # << >> /\ <<a, b>> \o m \in Seq(Int)
<1> DEFINE s == <<a, b>>
<1>1. s \in Seq(Int) /\ Len(s) = 2 /\ s[1] = a
  OBVIOUS
<1> HIDE DEF s
<1>2. /\ s \o m \in Seq(Int) /\ Len(s \o m) = Len(s) + Len(m)
      /\ \A x \in 1..Len(s) + Len(m) : (s \o m)[x] = IF x =< Len(s) THEN s[x] ELSE m[x - Len(s)]
  BY <1>1, ConcatProperties
<1>3. Len(m) \in Nat /\ (s \o m)[1] = s[1]
  BY <1>1, <1>2
<1>4. Len(s \o m) = Len(m) + 2
  BY <1>1, <1>2, <1>3
<1>5. s \o m # << >>
  BY <1>2, <1>3, <1>4
<1> QED BY <1>1, <1>2, <1>3, <1>4, <1>5, Zenon DEF s

\* What panic prints of its message.
LEMMA PanicShows ==
  ASSUME NEW m \in Seq(Int), NEW e, e = Written("printx", O!PanicItems, <<O!MAG_CH_PANIC, m>>)
  PROVE  /\ e = <<O!MAG_CH_PANIC, 33>> \o m
         /\ Len(e) = Len(m) + 2 /\ Len(m) \in Nat
         /\ e[1] = O!MAG_CH_PANIC /\ e # << >> /\ e \in Seq(Int)
<1>1. O!MAG_CH_PANIC \in Int /\ 33 \in Int
  BY DEF O!MAG_CH_PANIC
<1> DEFINE b == 33
<1>2. b \in Int
  BY <1>1
<1>3. e = <<O!MAG_CH_PANIC, b>> \o m
  BY PanicText
<1> HIDE DEF b
<1>4. /\ Len(e) = Len(m) + 2 /\ Len(m) \in Nat
      /\ e[1] = O!MAG_CH_PANIC /\ e # << >> /\ e \in Seq(Int)
  <2> DEFINE w == <<O!MAG_CH_PANIC, b>> \o m
  <2>1. Len(w) = Len(m) + 2 /\ Len(m) \in Nat /\ w[1] = O!MAG_CH_PANIC /\ w # << >> /\ w \in Seq(Int)
    BY <1>1, <1>2, TwoLonger
  <2> QED BY <1>3, <2>1, Zenon
<1>5. e = <<O!MAG_CH_PANIC, 33>> \o m
  BY <1>3 DEF b
<1> QED BY <1>4, <1>5, Zenon

\* The turns of a loop over an item.
LEMMA ItemKeepsInv ==
  ASSUME FormatInv, O!Literal \/ O!Conversion
  PROVE  FormatInv'
<1>1. o_pc = "loop" /\ o_call' = o_call /\ o_printed' = o_printed /\ o_v' = o_v /\ o_fn' = o_fn
  BY DEF O!Literal, O!Conversion
<1>2. SameCall
  BY <1>1, CallStays
<1>3. o_call \in Call /\ (RunsFirst \/ RunsPanic \/ RunsSpin)
  BY <1>1, Running
<1>4. BUF \in Nat /\ BUF > 2
  BY InstancesAssumption DEF O!FormatAssumption
<1>5. Wrote \in Seq(Int) /\ Wrote = Written(o_call.fn, o_call.items, o_call.args)
  BY <1>3, MessageType, Zenon
<1>6. Len(Wrote) \in Nat
  BY <1>5, TextLength, Zenon
<1>7. o_v' \in Nat /\ o_v' < (V_MEM_SIZE + O!BAND)' /\ o_call' \in Call'
  BY <1>1 DEF FormatInv
<1>8. CASE RunsFirst
  <2>1. o_printed = << >> /\ o_fn = Runs(o_call.fn) /\ Inside(o_call.fn, o_call.items, o_call.args)
    BY <1>8, Zenon DEF RunsFirst
  <2>2. GoesOn(o_call.fn, o_call.items, o_call.args)
    BY <2>1, LiteralStep, ConversionStep, Zenon
  <2>3. CASE o_pc' = "loop" /\ In(o_call.fn, o_call.items, o_call.args, o_fmt', o_args', o_i', o_arg', o_p', o_fn')
    <3>1. RunsFirst'
      BY <1>1, <2>1, <2>3 DEF RunsFirst, Inside, Runs
    <3> QED BY <1>7, <2>3, <3>1 DEF FormatInv
  <2>4. CASE o_pc' = "overrun" /\ Len(Written(o_call.fn, o_call.items, o_call.args)) > BUF
    <3>1. Len(Wrote) > BUF
      BY <1>5, <2>4, Zenon
    <3>2. Len(Wrote) + (IF o_call.fn = "panic" THEN 2 ELSE 0) >= BUF
      BY <1>4, <1>6, <3>1
    <3> QED BY <1>2, <2>4, <3>2, Overran, Zenon
  <2> QED BY <2>2, <2>3, <2>4, Zenon DEF GoesOn
<1>9. CASE RunsPanic
  <2> DEFINE as == <<O!MAG_CH_PANIC, Wrote>>
             e == Written("printx", O!PanicItems, as)
  <2>1. o_call.fn = "panic" /\ o_fn = "printx" /\ o_printed = << >> /\ Inside("printx", O!PanicItems, as)
    BY <1>9, Zenon DEF RunsPanic
  <2>2. Len(e) = Len(Wrote) + 2
    BY <1>5, PanicShows, Zenon
  <2> HIDE DEF as
  <2>3. GoesOn("printx", O!PanicItems, as)
    BY <2>1, LiteralStep, ConversionStep, Zenon
  <2>4. CASE o_pc' = "loop" /\ In("printx", O!PanicItems, as, o_fmt', o_args', o_i', o_arg', o_p', o_fn')
    <3>1. In("printx", O!PanicItems, <<O!MAG_CH_PANIC, Wrote'>>, o_fmt', o_args', o_i', o_arg', o_p', o_fn')
      BY <1>2, <2>4, Zenon DEF as, SameCall
    <3>2. RunsPanic'
      BY <1>1, <2>1, <3>1 DEF RunsPanic, Inside
    <3> QED BY <1>7, <2>4, <3>2 DEF FormatInv
  <2>5. CASE o_pc' = "overrun" /\ Len(e) > BUF
    <3> HIDE DEF e
    <3>1. Len(Wrote) + 2 >= BUF
      BY <1>4, <1>6, <2>2, <2>5
    <3>2. Len(Wrote) + (IF o_call.fn = "panic" THEN 2 ELSE 0) >= BUF
      BY <2>1, <3>1
    <3> QED BY <1>2, <2>5, <3>2, Overran, Zenon
  <2> QED BY <2>3, <2>4, <2>5, Zenon DEF GoesOn
<1>10. CASE RunsSpin
  <2> DEFINE as == <<O!SpinName>>
             e == Written("printx", O!SpinItems, as)
  <2>1. /\ o_call.fn = "assertion_failure" /\ ~ o_call.task /\ o_fn = "printx"
        /\ o_printed = <<O!Shown(Wrote)>> /\ Inside("printx", O!SpinItems, as)
    BY <1>10, Zenon DEF RunsSpin
  <2>2. e = <<115, 97>>
    BY SpinText
  <2>3. Len(e) = 2
    BY <2>2
  <2> HIDE DEF as
  <2>4. GoesOn("printx", O!SpinItems, as)
    BY <2>1, LiteralStep, ConversionStep, Zenon
  <2>5. CASE o_pc' = "loop" /\ In("printx", O!SpinItems, as, o_fmt', o_args', o_i', o_arg', o_p', o_fn')
    <3>1. o_printed' = <<O!Shown(Wrote)>>'
      BY <1>1, <1>2, <2>1, Zenon DEF SameCall
    <3>2. Inside("printx", O!SpinItems, <<O!SpinName>>)'
      BY <2>5, Zenon DEF as, Inside
    <3>3. RunsSpin'
      BY <1>1, <2>1, <3>1, <3>2 DEF RunsSpin
    <3> QED BY <1>7, <2>5, <3>3 DEF FormatInv
  <2>6. CASE o_pc' = "overrun" /\ Len(e) > BUF
    <3> HIDE DEF e
    <3> QED BY <1>4, <2>3, <2>6
  <2> QED BY <2>4, <2>5, <2>6, Zenon DEF GoesOn
<1> QED BY <1>3, <1>8, <1>9, <1>10

\* A '%' at the end of the format: only the call's own format can have one.
LEMMA PercentKeepsInv ==
  ASSUME FormatInv, O!PercentAtEnd
  PROVE  FormatInv'
<1>1. o_pc = "loop" /\ o_pc' = "past_end" /\ o_call' = o_call /\ o_v' = o_v
  BY DEF O!PercentAtEnd
<1>2. o_call \in Call /\ (RunsFirst \/ RunsPanic \/ RunsSpin)
  BY <1>1, Running
<1>3. CASE RunsFirst
  <2>1. o_call.items[Len(o_call.items)] = O!Lit(O!PERCENT)
    BY <1>3, PercentStep, Zenon DEF RunsFirst
  <2>2. (o_call.items[Len(o_call.items)] = O!Lit(O!PERCENT))'
    BY <1>1, <2>1 DEF O!Lit, O!PERCENT
  <2>3. FormatsWritten'
    BY <1>1, <2>2 DEF FormatsWritten
  <2> QED BY <1>1, <2>3 DEF FormatInv, Ended
<1>4. CASE RunsPanic
  <2>1. O!PanicItems[Len(O!PanicItems)] = O!Lit(O!PERCENT)
    BY <1>4, PercentStep, Zenon DEF RunsPanic
  <2> QED BY <2>1 DEF O!PanicItems, O!Lit, O!Conv
<1>5. CASE RunsSpin
  <2>1. O!SpinItems[Len(O!SpinItems)] = O!Lit(O!PERCENT)
    BY <1>5, PercentStep, Zenon DEF RunsSpin
  <2> QED BY <2>1 DEF O!SpinItems, O!Lit, O!Conv
<1> QED BY <1>2, <1>3, <1>4, <1>5

\* The 0 behind the text does not fit.
LEMMA NulKeepsInv ==
  ASSUME FormatInv, O!NoRoomForNul
  PROVE  FormatInv'
<1>1. o_pc = "loop" /\ o_i > Len(o_fmt) /\ Len(o_p) = BUF /\ o_pc' = "overrun" /\ o_call' = o_call /\ o_v' = o_v
  BY DEF O!NoRoomForNul
<1>2. SameCall
  BY <1>1, CallStays
<1>3. o_call \in Call /\ (RunsFirst \/ RunsPanic \/ RunsSpin)
  BY <1>1, Running
<1>4. BUF \in Nat /\ BUF > 2
  BY InstancesAssumption DEF O!FormatAssumption
<1>5. Wrote \in Seq(Int) /\ Wrote = Written(o_call.fn, o_call.items, o_call.args)
  BY <1>3, MessageType, Zenon
<1>6. Len(Wrote) \in Nat
  BY <1>5, TextLength, Zenon
<1>7. CASE RunsFirst
  <2>1. o_p = Wrote
    BY <1>1, <1>5, <1>7, EndOfText, Zenon DEF RunsFirst
  <2>2. Len(Wrote) = BUF
    BY <1>1, <2>1, Zenon
  <2>3. Len(Wrote) + (IF o_call.fn = "panic" THEN 2 ELSE 0) >= BUF
    BY <1>4, <2>2
  <2> QED BY <1>1, <1>2, <2>3, Overran, Zenon
<1>8. CASE RunsPanic
  <2> DEFINE e == Written("printx", O!PanicItems, <<O!MAG_CH_PANIC, Wrote>>)
  <2>1. o_p = e /\ o_call.fn = "panic"
    BY <1>1, <1>8, EndOfText, Zenon DEF RunsPanic
  <2>2. Len(e) = Len(Wrote) + 2
    BY <1>5, PanicShows, Zenon
  <2> HIDE DEF e
  <2>3. Len(Wrote) + 2 = BUF
    BY <1>1, <2>1, <2>2, Zenon
  <2>4. Len(Wrote) + (IF o_call.fn = "panic" THEN 2 ELSE 0) >= BUF
    BY <1>4, <2>1, <2>3
  <2> QED BY <1>1, <1>2, <2>4, Overran, Zenon
<1>9. CASE RunsSpin
  <2> DEFINE e == Written("printx", O!SpinItems, <<O!SpinName>>)
  <2>1. o_p = e
    BY <1>1, <1>9, EndOfText, Zenon DEF RunsSpin
  <2>2. e = <<115, 97>>
    BY SpinText
  <2>3. Len(e) = 2
    BY <2>2
  <2> HIDE DEF e
  <2>4. Len(e) = BUF
    BY <1>1, <2>1, Zenon
  <2> QED BY <1>4, <2>3, <2>4
<1> QED BY <1>3, <1>7, <1>8, <1>9

\* The functions that only format return.
LEMMA ReturnKeepsInv ==
  ASSUME FormatInv, O!Return
  PROVE  FormatInv'
<1>1. /\ o_pc = "loop" /\ o_i > Len(o_fmt) /\ o_pc' = "done" /\ o_call' = o_call /\ o_v' = o_v /\ o_p' = o_p
      /\ o_fn \in {"sprintf", "vsprintf", "printf"} /\ (o_fn = "printf" => o_printed' = Append(o_printed, o_p))
  BY DEF O!Return, O!AtEnd
<1>2. SameCall
  BY <1>1, CallStays
<1>3. o_call \in Call /\ (RunsFirst \/ RunsPanic \/ RunsSpin)
  BY <1>1, Running
<1>4. RunsFirst
  BY <1>1, <1>3 DEF RunsPanic, RunsSpin
<1>5. o_call.fn \in {"sprintf", "vsprintf", "printf"} /\ o_call.fn = o_fn /\ o_printed = << >>
  BY <1>1, <1>4 DEF RunsFirst, Runs
<1>6. Wrote = Written(o_call.fn, o_call.items, o_call.args)
  BY <1>3, MessageType, Zenon
<1>7. o_p = Wrote
  BY <1>1, <1>4, <1>6, EndOfText, Zenon DEF RunsFirst
<1> DEFINE m == Wrote
<1>8. o_p' = m /\ m' = m
  BY <1>1, <1>2, <1>7, Zenon DEF SameCall
<1>9. o_call.fn = "printf" => o_printed' = <<m>>
  <2>1. o_call.fn = "printf" => o_printed' = Append(<< >>, m)
    BY <1>1, <1>5, <1>7, Zenon
  <2> HIDE DEF m
  <2>2. Append(<< >>, m) = <<m>>
    OBVIOUS
  <2> QED BY <2>1, <2>2, Zenon
<1>10. FormatsWritten'
  <2>1. (o_call.fn)' = o_call.fn
    BY <1>1
  <2> QED BY <1>1, <1>5, <1>8, <1>9, <2>1 DEF FormatsWritten
<1> QED BY <1>1, <1>10 DEF FormatInv, Ended

\* panic gives its message to printx.
LEMMA PanicKeepsInv ==
  ASSUME FormatInv, O!panic
  PROVE  FormatInv'
<1>1. /\ o_pc = "loop" /\ o_i > Len(o_fmt) /\ o_fn = "panic" /\ o_fn' = "printx"
      /\ o_fmt' = O!Chars(O!PanicItems) /\ o_args' = <<O!MAG_CH_PANIC, o_p>>
      /\ o_i' = 1 /\ o_arg' = 1 /\ o_p' = << >>
      /\ o_call' = o_call /\ o_printed' = o_printed /\ o_v' = o_v /\ o_pc' = "loop"
  BY DEF O!panic, O!PanicPrints, O!AtEnd
<1>2. SameCall
  BY <1>1, CallStays
<1>3. o_call \in Call /\ (RunsFirst \/ RunsPanic \/ RunsSpin)
  BY <1>1, Running
<1>4. RunsFirst
  BY <1>1, <1>3 DEF RunsPanic, RunsSpin
<1>5. o_call.fn = "panic" /\ o_printed = << >>
  BY <1>1, <1>4 DEF RunsFirst, Runs
<1>6. Wrote \in Seq(Int) /\ Wrote = Written(o_call.fn, o_call.items, o_call.args)
  BY <1>3, MessageType, Zenon
<1>7. o_p = Wrote
  BY <1>1, <1>4, <1>6, EndOfText, Zenon DEF RunsFirst
<1> DEFINE as == <<O!MAG_CH_PANIC, Wrote>>
<1>8. O!Fitting(O!PanicItems, as)
  BY <1>6, PanicText, Zenon
<1>9. Alike("printx", "printx")
  BY DEF Alike
<1>10. In("printx", O!PanicItems, as, O!Chars(O!PanicItems), as, 1, 1, << >>, "printx")
  <2> HIDE DEF as
  <2> QED BY <1>8, <1>9, InAtFirst, Zenon
<1>11. o_args' = as /\ Wrote' = Wrote
  BY <1>1, <1>2, <1>7, Zenon DEF SameCall
<1>12. In("printx", O!PanicItems, <<O!MAG_CH_PANIC, Wrote'>>, o_fmt', o_args', o_i', o_arg', o_p', o_fn')
  BY <1>1, <1>10, <1>11, Zenon
<1>13. RunsPanic'
  BY <1>1, <1>5, <1>12 DEF RunsPanic, Inside
<1> QED BY <1>1, <1>3, <1>13 DEF FormatInv

\* The screen is filled line by line.
LEMMA ScreenKeepsInv ==
  ASSUME FormatInv, O!Screen
  PROVE  FormatInv'
<1>1. o_pc = "screen" /\ o_call' = o_call /\ o_p' = o_p
  BY DEF O!Screen
<1>2. OnScreen
  BY <1>1 DEF FormatInv, Ended
<1>3. Wrote' = Wrote
  BY <1>1 DEF Wrote
<1>4. OnScreen'
  BY <1>1, <1>2, <1>3 DEF OnScreen
<1>5. o_call \in Call /\ o_v \in Nat /\ o_v < V_MEM_SIZE + O!BAND /\ V_MEM_SIZE \in Nat
  BY InstancesAssumption DEF FormatInv, O!FormatAssumption
<1> DEFINE l == Len(o_p)
           end == o_v + 2 * (l - 1)
<1>6. l \in Nat /\ l >= 1
  BY <1>2 DEF OnScreen
<1>7. IF o_v >= V_MEM_SIZE THEN o_pc' = "halted" /\ o_v' = o_v
      ELSE /\ o_v' = IF end > V_MEM_SIZE THEN V_MEM_SIZE ELSE O!BAND * ((end + O!BAND - 1) \div O!BAND)
           /\ o_pc' = o_pc
  BY DEF O!Screen
<1> HIDE DEF l
<1>8. end \in Nat
  BY <1>5, <1>6
<1> HIDE DEF end
<1>9. o_v' \in Nat /\ o_v' < V_MEM_SIZE + O!BAND
  BY <1>5, <1>7, <1>8 DEF O!BAND
<1>10. Ended'
  BY <1>1, <1>4, <1>7 DEF Ended
<1> QED BY <1>1, <1>5, <1>9, <1>10 DEF FormatInv

\* A number needs no format.
LEMMA NumberKeepsInv ==
  ASSUME FormatInv, O!PrintNumber
  PROVE  FormatInv'
<1>1. /\ o_pc = "loop" /\ o_fn \in {"s32_print_int", "s16_print_int", "p_dump_u8"}
      /\ o_pc' = "done" /\ o_call' = o_call /\ o_v' = o_v
  BY DEF O!PrintNumber
<1>2. o_call \in Call /\ (RunsFirst \/ RunsPanic \/ RunsSpin)
  BY <1>1, Running
<1>3. o_call.fn = o_fn
  BY <1>1, <1>2 DEF RunsFirst, RunsPanic, RunsSpin, Runs
<1>4. (o_call.fn)' \in {"s32_print_int", "s16_print_int", "p_dump_u8"}
  BY <1>1, <1>3
<1>5. FormatsWritten'
  BY <1>1, <1>4 DEF FormatsWritten
<1> QED BY <1>1, <1>5 DEF FormatInv, Ended

\* printx halts for a panic and for the assertion of a task; otherwise it prints.
LEMMA PrintxKeepsInv ==
  ASSUME FormatInv, O!printx
  PROVE  FormatInv'
<1>1. /\ o_pc = "loop" /\ o_i > Len(o_fmt) /\ o_fn = "printx" /\ o_fn' = o_fn
      /\ o_call' = o_call /\ o_v' = o_v
  BY DEF O!printx, O!AtEnd
<1>2. IF O!Halts THEN o_pc' = "screen" /\ o_p' = o_p
      ELSE /\ o_printed' = Append(o_printed, O!Shown(o_p))
           /\ IF o_printed = << >>
                THEN /\ o_fmt' = O!Chars(O!SpinItems) /\ o_args' = <<O!SpinName>>
                     /\ o_i' = 1 /\ o_arg' = 1 /\ o_p' = << >> /\ o_pc' = o_pc
                ELSE o_pc' = "done"
  BY DEF O!printx
<1>3. SameCall
  BY <1>1, CallStays
<1>4. o_call \in Call /\ (RunsFirst \/ RunsPanic \/ RunsSpin)
  BY <1>1, Running
<1>5. Wrote \in Seq(Int) /\ Wrote = Written(o_call.fn, o_call.items, o_call.args)
  BY <1>4, MessageType, Zenon
<1>6. o_call' \in Call' /\ o_v' \in Nat /\ o_v' < (V_MEM_SIZE + O!BAND)'
  BY <1>1 DEF FormatInv
<1> DEFINE m == Wrote
<1>7. m' = m /\ (o_call.fn)' = o_call.fn /\ (o_call.task)' = o_call.task
  BY <1>1, <1>3 DEF SameCall
<1>8. CASE RunsFirst
  <2>1. O!IsCall(o_call)
    BY <1>4, CallFits
  <2>2. o_call.fn = "assertion_failure" /\ o_printed = << >>
    BY <1>1, <1>8, <2>1 DEF RunsFirst, Runs, O!IsCall
  <2>3. o_p = m
    BY <1>1, <1>5, <1>8, EndOfText, Zenon DEF RunsFirst
  <2>4. m # << >> /\ m[1] = O!MAG_CH_ASSERT
    <3>1. /\ O!Fitting(o_call.items, o_call.args) /\ o_call.items # << >>
          /\ o_call.items[1] = O!Conv(99) /\ o_call.args[1] = O!MAG_CH_ASSERT
      BY <2>1, <2>2 DEF O!IsCall
    <3>2. m = Written("assertion_failure", o_call.items, o_call.args)
      BY <1>5, <2>2, Zenon
    <3> HIDE DEF m
    <3> QED BY <3>1, <3>2, AssertText, Zenon
  <2>5. CASE O!Halts
    <3>1. o_pc' = "screen" /\ o_p' = m
      BY <1>2, <2>3, <2>5, Zenon
    <3>2. OnScreen'
      BY <1>5, <1>7, <2>2, <2>4, <3>1 DEF OnScreen
    <3> QED BY <1>6, <3>1, <3>2 DEF FormatInv, Ended
  <2>6. CASE ~ O!Halts
    <3>1. ~ o_call.task
      BY <2>3, <2>4, <2>6, Zenon DEF O!Halts
    <3>2. /\ o_printed' = Append(<< >>, O!Shown(m))
          /\ o_fmt' = O!Chars(O!SpinItems) /\ o_args' = <<O!SpinName>>
          /\ o_i' = 1 /\ o_arg' = 1 /\ o_p' = << >> /\ o_pc' = "loop"
      BY <1>1, <1>2, <2>2, <2>3, <2>6, Zenon
    <3>3. o_printed' = <<O!Shown(m)>>
      <4> DEFINE sm == O!Shown(m)
      <4>1. o_printed' = Append(<< >>, sm)
        BY <3>2
      <4> HIDE DEF sm
      <4>2. Append(<< >>, sm) = <<sm>>
        OBVIOUS
      <4> QED BY <4>1, <4>2, Zenon DEF sm
    <3>4. Alike("printx", "printx")
      BY DEF Alike
    <3>5. In("printx", O!SpinItems, <<O!SpinName>>, O!Chars(O!SpinItems), <<O!SpinName>>, 1, 1, << >>, "printx")
      BY <3>4, SpinText, InAtFirst, Zenon
    <3>6. Inside("printx", O!SpinItems, <<O!SpinName>>)'
      BY <1>1, <3>2, <3>5, Zenon DEF Inside
    <3>7. o_printed' = <<O!Shown(Wrote)>>'
      BY <1>7, <3>3, Zenon
    <3>8. RunsSpin'
      BY <1>1, <1>7, <2>2, <3>1, <3>6, <3>7 DEF RunsSpin
    <3> QED BY <1>6, <3>2, <3>8 DEF FormatInv
  <2> QED BY <2>5, <2>6
<1>9. CASE RunsPanic
  <2> DEFINE e == Written("printx", O!PanicItems, <<O!MAG_CH_PANIC, m>>)
  <2>1. o_call.fn = "panic" /\ o_p = e
    BY <1>1, <1>9, EndOfText, Zenon DEF RunsPanic
  <2>2. e = <<O!MAG_CH_PANIC, 33>> \o m /\ e[1] = O!MAG_CH_PANIC /\ e # << >> /\ e \in Seq(Int)
    BY <1>5, PanicShows, Zenon
  <2> HIDE DEF e
  <2>3. O!Halts
    BY <2>1, <2>2, Zenon DEF O!Halts
  <2>4. o_pc' = "screen" /\ o_p' = e
    BY <1>2, <2>1, <2>3, Zenon
  <2>5. OnScreen'
    BY <1>7, <2>1, <2>2, <2>4 DEF OnScreen
  <2> QED BY <1>6, <2>4, <2>5 DEF FormatInv, Ended
<1>10. CASE RunsSpin
  <2>1. o_call.fn = "assertion_failure" /\ ~ o_call.task /\ o_printed = <<O!Shown(m)>>
    BY <1>10, Zenon DEF RunsSpin
  <2>2. o_p = Written("printx", O!SpinItems, <<O!SpinName>>)
    BY <1>1, <1>10, EndOfText, Zenon DEF RunsSpin
  <2>3. o_p = <<115, 97>>
    BY <2>2, SpinText
  <2>4. o_p[1] = 115
    BY <2>3
  <2>5. ~ O!Halts
    BY <2>4 DEF O!Halts, O!MAG_CH_PANIC, O!MAG_CH_ASSERT
  <2> DEFINE sm == O!Shown(m)
             sp == O!Shown(o_p)
  <2>6. o_printed = <<sm>> /\ o_printed' = Append(o_printed, sp)
    BY <1>2, <2>1, <2>5
  <2> HIDE DEF sm, sp
  <2>7. o_printed # << >>
    BY <2>6
  <2>8. o_pc' = "done"
    BY <1>2, <2>5, <2>7
  <2>9. o_printed'[1] = sm
    BY <2>6
  <2>10. (~ o_call.task /\ o_printed[1] = O!Shown(Wrote))'
    BY <1>7, <2>1, <2>9, Zenon DEF sm
  <2>11. FormatsWritten'
    BY <1>7, <2>1, <2>8, <2>10 DEF FormatsWritten
  <2> QED BY <1>6, <2>8, <2>11 DEF FormatInv, Ended
<1> QED BY <1>4, <1>8, <1>9, <1>10

\* The digits that s32_itoa turns round make the numeral.
LEMMA NumeralIs ==
  ASSUME NEW r \in {10, 16}, NEW n \in Nat
  PROVE  O!Numeral(r)[n] = IF n = 0 THEN <<48>> ELSE Rev(O!LowDigits(r)[n])
<1> DEFINE ld == O!LowDigits(r)
           h == [m \in Nat |-> IF m = 0 THEN <<48>> ELSE Rev(ld[m])]
           Step(m, t) == IF m < r THEN <<O!Digit(m)>> ELSE t \o <<O!Digit(m % r)>>
           Eq(f) == f = [m \in Nat |-> Step(m, f[m \div r])]
           numeral == CHOOSE f : Eq(f)
<1>1. O!Numeral(r) = numeral
  BY DEF O!Numeral
<1>2. /\ ld[0] = << >>
      /\ \A m \in Nat : m # 0 => ld[m] = <<O!Digit(m % r)>> \o ld[m \div r]
      /\ \A m \in Nat : ld[m] \in Seq(Nat)
  BY DigitsDef
<1> HIDE DEF ld
<1>3. ASSUME NEW m \in Nat PROVE m \div r \in Nat /\ m % r \in Nat /\ O!Digit(m % r) \in Nat
                                 /\ (m < r => m \div r = 0 /\ m % r = m)
                                 /\ (m >= r => m \div r # 0 /\ m \div r < m /\ m # 0)
  <2>1. CASE r = 10
    BY <2>1 DEF O!Digit
  <2>2. CASE r = 16
    BY <2>2 DEF O!Digit
  <2> QED BY <2>1, <2>2
<1>4. ASSUME NEW m \in Nat PROVE h[m] = Step(m, h[m \div r])
  <2>1. CASE m = 0
    <3>1. 0 < r /\ O!Digit(0) = 48
      BY DEF O!Digit
    <3> QED BY <2>1, <3>1
  <2>2. CASE m # 0
    <3> DEFINE c == O!Digit(m % r)
               t == ld[m \div r]
    <3>1. c \in Nat /\ t \in Seq(Nat) /\ ld[m] = <<c>> \o t
      BY <1>2, <1>3, <2>2
    <3> HIDE DEF c, t
    <3>2. h[m] = Append(Rev(t), c)
      BY <2>2, <3>1, RevOfCons
    <3>3. Rev(t) \in Seq(Nat)
      BY <3>1, RevFacts, Zenon
    <3>4. Append(Rev(t), c) = Rev(t) \o <<c>>
      <4> DEFINE w == Rev(t)
      <4>1. w \in Seq(Nat)
        BY <3>3
      <4> HIDE DEF w
      <4>2. Append(w, c) = w \o <<c>>
        BY <3>1, <4>1
      <4> QED BY <4>2 DEF w
    <3>5. CASE m < r
      <4>1. t = << >> /\ c = O!Digit(m)
        BY <1>2, <1>3, <3>5 DEF c, t
      <4>2. Rev(t) = << >>
        BY <4>1 DEF Rev
      <4> QED BY <3>1, <3>2, <3>5, <4>1, <4>2
    <3>6. CASE ~ (m < r)
      <4>1. m \div r \in Nat /\ m \div r # 0
        BY <1>3, <3>6
      <4>2. h[m \div r] = Rev(t)
        BY <4>1 DEF t
      <4>3. h[m] = h[m \div r] \o <<c>>
        BY <3>2, <3>4, <4>2, Zenon
      <4> HIDE DEF h
      <4> QED BY <3>6, <4>3 DEF c
    <3> QED BY <3>5, <3>6
  <2> QED BY <2>1, <2>2
<1>5. Eq(h)
  <2> HIDE DEF Step
  <2>1. h = [m \in Nat |-> h[m]]
    OBVIOUS
  <2> HIDE DEF h
  <2>2. [m \in Nat |-> h[m]] = [m \in Nat |-> Step(m, h[m \div r])]
    BY <1>4
  <2> QED BY <2>1, <2>2, Zenon
<1>6. Eq(numeral)
  <2> HIDE DEF Eq, h
  <2> QED BY <1>5
<1> HIDE DEF numeral
<1>7. ASSUME NEW m \in Nat PROVE numeral[m] = Step(m, numeral[m \div r])
  <2> HIDE DEF Step
  <2> QED BY <1>6
<1> DEFINE Bad == {m \in Nat : numeral[m] # h[m]}
<1>8. ASSUME Bad # {} PROVE FALSE
  <2>1. PICK m \in Bad : \A j \in Bad : m =< j
    <3>1. Bad \in SUBSET Nat
      OBVIOUS
    <3> HIDE DEF Bad
    <3> QED BY <1>8, <3>1, LeastExists
  <2>2. m \in Nat /\ numeral[m] # h[m]
    OBVIOUS
  <2>3. CASE m < r
    <3> HIDE DEF h
    <3> QED BY <1>4, <1>7, <2>2, <2>3
  <2>4. CASE ~ (m < r)
    <3>1. m \div r \in Nat /\ m \div r < m
      BY <1>3, <2>2, <2>4
    <3>2. m \div r \notin Bad
      <4> HIDE DEF Bad
      <4> QED BY <2>1, <2>2, <3>1
    <3>3. numeral[m \div r] = h[m \div r]
      BY <3>1, <3>2
    <3> HIDE DEF h, Step
    <3> QED BY <1>4, <1>7, <2>2, <3>3
  <2> QED BY <2>3, <2>4
<1>9. numeral[n] = h[n]
  BY <1>8
<1> QED BY <1>1, <1>9 DEF ld

\* s32_itoa writes the numeral.
LEMMA ItoaNumeral ==
  ASSUME NEW r \in {10, 16}, NEW n \in Nat
  PROVE  O!s32_itoa(n, r) = O!Numeral(r)[n]
<1>1. CASE n = 0
  BY <1>1, NumeralIs DEF O!s32_itoa
<1>2. CASE n # 0
  <2> DEFINE d == O!LowDigits(r)[n]
  <2>1. d \in Seq(Nat)
    BY DigitsDef
  <2>2. \A k \in 1..Len(d) : d[k] # O!MINUS
    BY <1>2, DigitsRead DEF Reads
  <2>3. O!s32_itoa(n, r) = O!Turned(d) /\ O!Numeral(r)[n] = Rev(d)
    BY <1>2, NumeralIs DEF O!s32_itoa
  <2> HIDE DEF d
  <2>4. O!Turned(d) = Rev(d)
    BY <2>1, <2>2, TurnedReverses
  <2> QED BY <2>3, <2>4
<1> QED BY <1>1, <1>2

\* A conversion that is known prints what it stands for.
LEMMA ConvertedMeant ==
  ASSUME NEW f, NEW c, NEW a, O!Fits(c, a),
         c \in {100, 120, 115} \/ (c = 99 /\ f \notin {"sprintf", "printf"})
  PROVE  O!Converted(f, c, a) = O!Meant(c, a)
<1>1. CASE c = 100
  <2>1. a \in Nat
    BY <1>1 DEF O!Fits
  <2>2. O!s32_itoa(a, 10) = O!Numeral(10)[a]
    BY <2>1, ItoaNumeral
  <2> QED BY <1>1, <2>2 DEF O!Converted, O!Meant
<1>2. CASE c = 120
  <2>1. a \in Nat
    BY <1>2 DEF O!Fits
  <2>2. O!s32_itoa(a, 16) = O!Numeral(16)[a]
    BY <2>1, ItoaNumeral
  <2> QED BY <1>2, <2>2 DEF O!Converted, O!Meant
<1>3. CASE c = 115
  BY <1>3 DEF O!Converted, O!Meant
<1>4. CASE c = 99 /\ f \notin {"sprintf", "printf"}
  BY <1>4 DEF O!Converted, O!Meant
<1> QED BY <1>1, <1>2, <1>3, <1>4

\* So a call whose conversions are known is written to print what its format says.
LEMMA WroteMessage ==
  ASSUME o_call \in Call, O!Known(o_call)
  PROVE  Wrote = O!Message
<1> DEFINE items == o_call.items
           as == o_call.args
           M(k) == IF items[k].conv THEN O!Meant(items[k].ch, as[O!ArgOf(items, k)]) ELSE <<items[k].ch>>
<1>1. O!Fitting(items, as)
  BY CallFits
<1>2. items \in Seq(Item) /\ DOMAIN items = 1..Len(items)
  <2>1. items \in Seq(Item)
    BY <1>1 DEF O!Fitting, Item
  <2> QED BY <2>1
<1>3. ASSUME NEW k \in 1..Len(items) PROVE Said(o_call.fn, items, as, k) = M(k)
  <2>1. CASE items[k].conv
    <3>1. O!Fits(items[k].ch, as[O!ArgOf(items, k)])
      BY <1>1, <1>2, <2>1 DEF O!Fitting
    <3>2. items[k].ch \in {100, 120, 115} \/ (items[k].ch = 99 /\ o_call.fn \notin {"sprintf", "printf"})
      BY <2>1 DEF O!Known
    <3> QED BY <2>1, <3>1, <3>2, ConvertedMeant DEF Said
  <2>2. CASE ~ items[k].conv
    BY <2>2 DEF Said
  <2> QED BY <2>1, <2>2
<1>4. Texts(o_call.fn, items, as) = [k \in 1..Len(items) |-> M(k)]
  <2> HIDE DEF M
  <2> QED BY <1>3 DEF Texts
<1>5. O!Message = O!JoinedUpTo([k \in 1..Len(items) |-> M(k)])[Len(items)]
  BY DEF O!Message, O!Expected
<1>6. Wrote = O!JoinedUpTo(Texts(o_call.fn, items, as))[Len(items)]
  BY DEF Wrote, Written, WrittenUpTo
<1> QED BY <1>4, <1>5, <1>6, Zenon

(***************************************************************************)
(* Formatted output prints what its format says of its arguments, for any  *)
(* format of implemented conversions whose arguments fit them, and for     *)
(* buffers of any size: a number comes out as its numeral, the three       *)
(* copies of the loop print item by item, a panic shows its message        *)
(* whatever characters it contains, an assertion that does not halt prints *)
(* its message first, and the loop runs over the buffer only with a text   *)
(* that does not fit.  For any format at all, it runs past the end only    *)
(* behind a '%', and the screen is full before the system halts.           *)
(***************************************************************************)
THEOREM MessagesFormatted == SequentialSpec => []FormatsMessage
<1>1. SequentialInit => FormatInv
  BY OutputAndDelayInit, FormatInvInit
<1>2. FormatInv /\ [SequentialNext]_allvars => FormatInv'
  <2> SUFFICES ASSUME FormatInv, [SequentialNext]_allvars PROVE FormatInv'
    OBVIOUS
  <2>1. O!Next \/ UNCHANGED ovars
    BY OutputAndDelayStep
  <2>2. CASE O!Next
    <3>1. CASE O!Literal \/ O!Conversion
      BY <3>1, ItemKeepsInv
    <3>2. CASE O!PercentAtEnd
      BY <3>2, PercentKeepsInv
    <3>3. CASE O!NoRoomForNul
      BY <3>3, NulKeepsInv
    <3>4. CASE O!Return
      BY <3>4, ReturnKeepsInv
    <3>5. CASE O!panic
      BY <3>5, PanicKeepsInv
    <3>6. CASE O!printx
      BY <3>6, PrintxKeepsInv
    <3>7. CASE O!Screen
      BY <3>7, ScreenKeepsInv
    <3>8. CASE O!PrintNumber
      BY <3>8, NumberKeepsInv
    <3> QED BY <2>2, <3>1, <3>2, <3>3, <3>4, <3>5, <3>6, <3>7, <3>8 DEF O!Next
  <2>3. CASE UNCHANGED ovars
    <3>1. /\ o_call' = o_call /\ o_fn' = o_fn /\ o_fmt' = o_fmt /\ o_args' = o_args /\ o_i' = o_i
          /\ o_arg' = o_arg /\ o_p' = o_p /\ o_printed' = o_printed /\ o_v' = o_v /\ o_pc' = o_pc
      BY <2>3 DEF ovars
    <3>2. Wrote' = Wrote
      BY <3>1 DEF Wrote
    <3>3. OnScreen' = OnScreen /\ FormatsWritten' = FormatsWritten
      BY <3>1, <3>2 DEF OnScreen, FormatsWritten
    <3>4. RunsFirst' = RunsFirst /\ RunsPanic' = RunsPanic /\ RunsSpin' = RunsSpin
      BY <3>1, <3>2, Zenon DEF RunsFirst, RunsPanic, RunsSpin, Inside
    <3> QED BY <3>1, <3>3, <3>4 DEF FormatInv, Ended
  <2> QED
    BY <2>1, <2>2, <2>3
<1>3. FormatInv => FormatsMessage
  <2> SUFFICES ASSUME FormatInv PROVE O!FormatsMessage
    BY DEF FormatsMessage
  <2>1. FormatsWritten
    BY FormatInvHolds
  <2>2. O!Known(o_call) => Wrote = O!Message
    BY WroteMessage DEF FormatInv
  <2> QED BY <2>1, <2>2 DEF FormatsWritten, O!FormatsMessage
<1> QED
  BY <1>1, <1>2, <1>3, PTL DEF SequentialSpec

----------------------------------------------------------------------------
(* Delays                                                                  *)

\* What the argument needs of the constants; that a delay fits below the wrap
\* is not part of it.
Numbers ==
  /\ {Width, Second, HZ} \subseteq Nat \ {0}
  /\ Delay \subseteq Nat /\ Start \subseteq 0..(Width - 1)

\* The unsigned difference of two values of ticks.
LEMMA UnsignedDifference ==
  ASSUME Numbers, NEW a \in 0..(Width - 1), NEW b \in 0..(Width - 1)
  PROVE  (a - b) % Width = IF b =< a THEN a - b ELSE a - b + Width
<1>1. Width \in Nat /\ Width > 0
  BY DEF Numbers
<1> QED
  BY <1>1

\* One more tick, unsigned.
LEMMA UnsignedIncrement ==
  ASSUME Numbers, NEW a \in 0..(Width - 1)
  PROVE  (a + 1) % Width = IF a + 1 = Width THEN 0 ELSE a + 1
<1>1. Width \in Nat /\ Width > 0
  BY DEF Numbers
<1> QED
  BY <1>1

\* A quotient rounded down times its divisor, and a remainder, do not exceed the number.
LEMMA RoundedDown ==
  ASSUME NEW n \in Nat, NEW m \in Nat \ {0}, NEW w \in Nat \ {0}, NEW q \in Nat,
         (n % w) \div m >= q
  PROVE  n >= q * m
<1>1. n % w \in Nat /\ n % w =< n
  OBVIOUS
<1> DEFINE r == n % w
           d == r \div m
<1>2. r \in Nat /\ r =< n
  BY <1>1
<1> HIDE DEF r
<1>3. d \in Nat /\ d * m =< r
  BY <1>2
<1>4. d >= q
  BY DEF r
<1> HIDE DEF d
<1>5. d * m >= q * m
  BY <1>3, <1>4
<1>6. d * m \in Nat /\ q * m \in Nat
  BY <1>3
<1> QED
  BY <1>2, <1>3, <1>5, <1>6

----------------------------------------------------------------------------
(* The inductive invariant.                                                *)

TicksTypeOK ==
  /\ d_ticks \in 0..(Width - 1) /\ d_t \in 0..(Width - 1) /\ d_t2 \in 0..(Width - 1)
  /\ d_milli_sec \in Nat /\ d_elapsed \in 0..Width
  /\ d_pc \in {"start", "read", "compare", "done"}

\* The difference of the clock to t is the time that passed, until ticks comes
\* round to t; what milli_delay read since is at most that.
ElapsedInv ==
  /\ IF d_pc = "start" THEN d_elapsed = 0
     ELSE d_elapsed < Width => d_elapsed = (d_ticks - d_t) % Width
  /\ d_pc \in {"compare", "done"} => (d_t2 - d_t) % Width =< d_elapsed
  /\ D!NeverEarly

TicksInv == TicksTypeOK /\ ElapsedInv

\* Before the first delay the invariant holds.
LEMMA TicksInvInit == Numbers /\ D!Init => TicksInv
BY DEF Numbers, D!Init, TicksInv, TicksTypeOK, ElapsedInv, D!NeverEarly

\* The clock ticks: at the wrap, and when the time that passed fills the word.
LEMMA TickKeepsInv ==
  ASSUME Numbers, TicksInv, D!Tick
  PROVE  TicksInv'
<1>1. Width \in Nat /\ Width > 0 /\ d_ticks \in 0..(Width - 1) /\ d_t \in 0..(Width - 1)
      /\ d_t2 \in 0..(Width - 1)
  BY DEF Numbers, TicksInv, TicksTypeOK
<1>2. d_ticks' = IF d_ticks + 1 = Width THEN 0 ELSE d_ticks + 1
  BY <1>1, UnsignedIncrement DEF D!Tick
<1>3. d_ticks' \in 0..(Width - 1)
  BY <1>1, <1>2
<1>4. TicksTypeOK'
  BY <1>1, <1>3 DEF D!Tick, TicksInv, TicksTypeOK
<1>5. (d_ticks - d_t) % Width = IF d_t =< d_ticks THEN d_ticks - d_t ELSE d_ticks - d_t + Width
  BY <1>1, UnsignedDifference
<1>6. (d_ticks' - d_t) % Width = IF d_t =< d_ticks' THEN d_ticks' - d_t ELSE d_ticks' - d_t + Width
  BY <1>1, <1>3, UnsignedDifference
<1>7. d_pc # "start" /\ d_elapsed' < Width => d_elapsed' = (d_ticks' - d_t) % Width
  BY <1>1, <1>2, <1>5, <1>6 DEF D!Tick, TicksInv, TicksTypeOK, ElapsedInv
<1>8. d_elapsed =< d_elapsed' \/ d_pc = "start"
  BY DEF D!Tick, TicksInv, TicksTypeOK
<1>9. d_pc = "compare" => (d_t2 - d_t) % Width =< d_elapsed'
  <2>1. (d_t2 - d_t) % Width \in Int
    BY <1>1, UnsignedDifference
  <2> QED
    BY <1>1, <1>4, <1>8, <2>1 DEF TicksInv, TicksTypeOK, ElapsedInv
<1> QED
  BY <1>4, <1>7, <1>9 DEF D!Tick, TicksInv, ElapsedInv, D!NeverEarly

\* The process reads the clock, for the first time and in the loop.
LEMMA ReadKeepsInv ==
  ASSUME Numbers, TicksInv, D!ReadStart \/ D!Read
  PROVE  TicksInv'
<1>1. Width \in Nat /\ Width > 0 /\ d_ticks \in 0..(Width - 1) /\ d_t \in 0..(Width - 1)
  BY DEF Numbers, TicksInv, TicksTypeOK
<1>2. TicksTypeOK'
  BY DEF TicksInv, TicksTypeOK, D!ReadStart, D!Read
<1>3. CASE D!ReadStart
  <2>1. (d_ticks - d_ticks) % Width = 0
    BY <1>1, UnsignedDifference
  <2> QED
    BY <1>2, <1>3, <2>1 DEF TicksInv, ElapsedInv, D!NeverEarly, D!ReadStart
<1>4. CASE D!Read
  <2>1. (d_ticks - d_t) % Width < Width
    BY <1>1, UnsignedDifference
  <2>2. (d_ticks - d_t) % Width =< d_elapsed
    BY <1>1, <1>4, <2>1, UnsignedDifference DEF TicksInv, TicksTypeOK, ElapsedInv, D!Read
  <2> QED
    BY <1>2, <1>4, <2>2 DEF TicksInv, ElapsedInv, D!NeverEarly, D!Read
<1> QED
  BY <1>3, <1>4

\* The comparison: the time it computes is never more than the time that passed.
LEMMA CompareKeepsInv ==
  ASSUME Numbers, TicksInv, D!Compare
  PROVE  TicksInv'
<1> DEFINE d == (d_t2 - d_t) % Width
<1>1. {Width, Second, HZ} \subseteq Nat \ {0} /\ d_elapsed \in Nat /\ d_milli_sec \in Nat
      /\ d_t \in 0..(Width - 1) /\ d_t2 \in 0..(Width - 1)
  BY DEF Numbers, TicksInv, TicksTypeOK
<1>2. d \in Nat
  BY <1>1, UnsignedDifference
<1>3. d =< d_elapsed
  BY DEF TicksInv, ElapsedInv, D!Compare
<1>4. TicksTypeOK'
  BY DEF TicksInv, TicksTypeOK, D!Compare
<1>5. D!Enough => d_elapsed * Second >= d_milli_sec * HZ
  <2> SUFFICES ASSUME D!Enough PROVE d_elapsed * Second >= d_milli_sec * HZ
    OBVIOUS
  <2>1. ((d * Second) % Width) \div HZ >= d_milli_sec
    BY DEF D!Enough
  <2> HIDE DEF d
  <2>2. d * Second \in Nat
    BY <1>1, <1>2
  <2>3. d * Second >= d_milli_sec * HZ
    BY <1>1, <2>1, <2>2, RoundedDown
  <2>4. d * Second =< d_elapsed * Second
    BY <1>1, <1>2, <1>3
  <2>5. d_elapsed * Second \in Nat /\ d_milli_sec * HZ \in Nat
    BY <1>1
  <2> QED
    BY <2>2, <2>3, <2>4, <2>5
<1> QED
  BY <1>3, <1>4, <1>5 DEF TicksInv, ElapsedInv, D!NeverEarly, D!Compare

(***************************************************************************)
(* milli_delay does not return before the time asked for has passed: its   *)
(* loop only ever underestimates the ticks since it began, for any word    *)
(* length and clock rate, a start anywhere before the wrap, and any delay. *)
(***************************************************************************)
THEOREM NeverReturnsEarly == SequentialSpec => []NeverEarly
<1>1. Numbers
  BY InstancesAssumption DEF Numbers, D!TicksAssumption
<1>2. SequentialInit => TicksInv
  BY <1>1, OutputAndDelayInit, TicksInvInit
<1>3. TicksInv /\ [SequentialNext]_allvars => TicksInv'
  <2> SUFFICES ASSUME TicksInv, [SequentialNext]_allvars PROVE TicksInv'
    OBVIOUS
  <2>1. D!Next \/ UNCHANGED dvars
    BY OutputAndDelayStep
  <2>2. CASE D!Next
    BY <1>1, <2>2, TickKeepsInv, ReadKeepsInv, CompareKeepsInv DEF D!Next
  <2>3. CASE UNCHANGED dvars
    BY <2>3 DEF TicksInv, TicksTypeOK, ElapsedInv, D!NeverEarly, dvars
  <2> QED
    BY <2>1, <2>2, <2>3
<1>4. TicksInv => NeverEarly
  BY DEF TicksInv, ElapsedInv, NeverEarly
<1> QED
  BY <1>2, <1>3, <1>4, PTL DEF SequentialSpec
=============================================================================
