--------------------------- MODULE ConsoleProofs ---------------------------
(***************************************************************************)
(* Proofs about Console, for consoles of any number and size and any       *)
(* banner: whatever the system calls of other processes do to cur_x and    *)
(* cur_y between two steps of task_tty, what is written lands in the video *)
(* memory of its own console.                                              *)
(***************************************************************************)
EXTENDS Console, TLAPS

----------------------------------------------------------------------------
(* Positions.                                                              *)

\* The constants as the proofs use them.
LEMMA Sizes ==
  /\ CON_W \in Nat /\ CON_W > 0 /\ ROWS \in Nat /\ VM \in Nat /\ CONSOLES \in Nat /\ CONSOLES > 0
  /\ CON_W * (ROWS + 2) =< VM /\ FIRST_ROW \in 0..ROWS
BY ConsoleAssumption

\* A column in the line, or right behind it in a row that is not the last, is in the console.
LEMMA PositionInConsole ==
  ASSUME NEW c \in Con, NEW x \in 0..CON_W, NEW y \in 0..(ROWS + 1), x < CON_W \/ y =< ROWS
  PROVE  InConsole(c, vm_start(c) + x + y * CON_W)
<1> USE Sizes
<1>1. c \in Int /\ c * VM \in Int /\ y \in Int /\ x \in Int
  BY DEF Con
<1>2. y * CON_W \in Int /\ 0 =< y * CON_W
  BY <1>1
<1>3. CON_W * (ROWS + 2) = ROWS * CON_W + CON_W + CON_W
  OBVIOUS
<1>4. y =< ROWS => y * CON_W =< ROWS * CON_W
  BY <1>1
<1>5. y = ROWS + 1 => y * CON_W = ROWS * CON_W + CON_W
  BY <1>1
<1>6. ROWS * CON_W \in Int
  OBVIOUS
<1>7. x + y * CON_W < CON_W * (ROWS + 2)
  BY <1>1, <1>2, <1>3, <1>4, <1>5, <1>6
<1> QED
  BY <1>1, <1>2, <1>7 DEF InConsole, vm_start

----------------------------------------------------------------------------
(* The inductive invariant.                                                *)

\* The cursor of each console: a row too far at most, and in the line but when it wraps.
PositionInv ==
  /\ cur_tty_index \in Con
  /\ cur_x \in [Con -> 0..CON_W] /\ cur_y \in [Con -> 0..(ROWS + 1)]
  /\ \A c \in Con : cur_x[c] = CON_W => c = con /\ pc = "wrap"

\* The row that Check saw is not full, and others can only have filled it since;
\* the increments that task_tty holds in a register start from such a row and column.
RegisterInv ==
  /\ pc \in {"put", "load_x", "store_x", "wrap", "load_y"} => cur_y[con] =< ROWS
  /\ pc = "store_x" => reg \in 0..(CON_W - 1)
  /\ pc = "store_y" => reg \in 0..ROWS

\* The position select_tty puts back was a position of the console.
OrgInv ==
  /\ org = NoXY \/ org \in (0..(CON_W - 1)) \X (0..(ROWS + 1))
  /\ pc \in {"zero_x", "zero_y", "back_x", "back_y", "start", "place"} => org # NoXY

WrittenInv ==
  /\ InConsole(cell.con, cell.at)
  /\ \E c \in Con : InConsole(c, cursor)

ConInv == PositionInv /\ RegisterInv /\ OrgInv /\ WrittenInv

\* con_init (src/tty/console.c) gives every console its own window of video memory.
LEMMA ConInvInit == Init => ConInv
<1> SUFFICES ASSUME Init PROVE ConInv
  OBVIOUS
<1> USE Sizes
<1>1. 0 \in Con /\ 0 \in 0..CON_W /\ 0 \in 0..(ROWS + 1) /\ 0 < CON_W
  BY DEF Con
<1>2. InConsole(0, vm_start(0) + 0 + 0 * CON_W)
  BY <1>1, PositionInConsole
<1>3. InConsole(0, 0)
  BY <1>2 DEF vm_start
<1>4. WrittenInv
  BY <1>1, <1>3 DEF Init, WrittenInv
<1>5. PositionInv /\ RegisterInv /\ OrgInv
  BY <1>1 DEF Init, PositionInv, RegisterInv, OrgInv, con
<1> QED
  BY <1>4, <1>5 DEF ConInv

\* A system call prints a character, whatever task_tty is about to do.
LEMMA SysPrintKeepsInv ==
  ASSUME ConInv, NEW c \in Con, NEW ch \in Ch, SysPrint(c, ch)
  PROVE  ConInv'
<1> USE Sizes
<1> DEFINE x == cur_x[c]
           y == cur_y[c]
           nx == After(x, y, ch)[1]
           ny == After(x, y, ch)[2]
<1>1. x \in 0..CON_W /\ y \in 0..(ROWS - 1) /\ y \in 0..(ROWS + 1)
  BY DEF ConInv, PositionInv, SysPrint, Full
<1>2. After(x, y, ch) \in {<<0, y>>, <<x, y + 1>>, <<0, y + 1>>, <<x, y>>}
         \cup {<<x + 1, y>> : i \in IF x + 1 < CON_W THEN {0} ELSE {}}
  BY <1>1 DEF After
<1>3. nx \in 0..CON_W /\ ny \in 0..ROWS /\ (nx = CON_W => x = CON_W)
  BY <1>1, <1>2
<1>4. /\ cur_x' = [cur_x EXCEPT ![c] = nx] /\ cur_y' = [cur_y EXCEPT ![c] = ny]
      /\ cell' = [con |-> c, at |-> vm_start(c) + x + y * CON_W] \/ cell' = cell
      /\ cursor' = vm_start(c) + nx + ny * CON_W
      /\ UNCHANGED <<cur_tty_index, pc, todo, reg, org>>
  BY DEF SysPrint, PutCell, Cursor, task
<1> HIDE DEF nx, ny
<1>5. PositionInv'
  BY <1>3, <1>4 DEF ConInv, PositionInv, con
<1>6. RegisterInv'
  BY <1>3, <1>4 DEF ConInv, PositionInv, RegisterInv, con
<1>7. OrgInv'
  BY <1>4 DEF ConInv, OrgInv
<1>8. InConsole(c, vm_start(c) + x + y * CON_W)
  <2>1. y =< ROWS
    BY <1>1
  <2> QED
    BY <1>1, <2>1, PositionInConsole
<1>9. InConsole(c, vm_start(c) + nx + ny * CON_W)
  BY <1>3, PositionInConsole
<1>10. WrittenInv'
  BY <1>4, <1>8, <1>9 DEF ConInv, WrittenInv, InConsole, vm_start
<1> QED
  BY <1>5, <1>6, <1>7, <1>10 DEF ConInv

\* The steps of task_tty that put a character or the cursor on the screen.
LEMMA WriteKeepsInv ==
  ASSUME ConInv, PutCh \/ MoveCursor \/ Place
  PROVE  ConInv'
<1> USE Sizes
<1> USE DEF Goto, con, screen
<1>1. /\ cur_tty_index \in Con /\ cur_x[con] \in 0..CON_W /\ cur_y[con] \in 0..(ROWS + 1)
      /\ pc # "wrap" => cur_x[con] < CON_W
  BY DEF ConInv, PositionInv
<1>2. CASE PutCh
  <2>1. /\ pc = "put" /\ pc' \in {"load_x", "load_y", "show"}
        /\ cur_x' \in {cur_x, [cur_x EXCEPT ![con] = 0]}
        /\ UNCHANGED <<cur_y, cur_tty_index, cursor, reg, org>>
        /\ cell' = cell \/ cell' = [con |-> con, at |-> vm_start(con) + cur_x[con] + cur_y[con] * CON_W]
    BY <1>2 DEF PutCh, PutCell
  <2>2. InConsole(con, vm_start(con) + cur_x[con] + cur_y[con] * CON_W)
    BY <1>1, <2>1, PositionInConsole
  <2>3. WrittenInv'
    BY <2>1, <2>2 DEF ConInv, WrittenInv, InConsole, vm_start
  <2>4. PositionInv' /\ RegisterInv' /\ OrgInv'
    BY <1>1, <2>1 DEF ConInv, PositionInv, RegisterInv, OrgInv
  <2> QED
    BY <2>3, <2>4 DEF ConInv
<1>3. CASE MoveCursor
  <2>1. /\ pc = "cursor" /\ pc' = "check" /\ UNCHANGED <<cur_x, cur_y, cur_tty_index, cell, reg, org>>
        /\ cursor' = vm_start(con) + cur_x[con] + cur_y[con] * CON_W
    BY <1>3 DEF MoveCursor, Cursor
  <2>2. InConsole(con, vm_start(con) + cur_x[con] + cur_y[con] * CON_W)
    BY <1>1, <2>1, PositionInConsole
  <2>3. WrittenInv'
    BY <1>1, <2>1, <2>2 DEF ConInv, WrittenInv, InConsole, vm_start
  <2>4. PositionInv' /\ RegisterInv' /\ OrgInv'
    BY <1>1, <2>1 DEF ConInv, PositionInv, RegisterInv, OrgInv
  <2> QED
    BY <2>3, <2>4 DEF ConInv
<1>4. CASE Place
  <2>1. /\ pc = "place" /\ pc' = "idle" /\ UNCHANGED <<cur_x, cur_y, cur_tty_index, cell, reg>>
        /\ org' = NoXY /\ cursor' = vm_start(con) + org[1] + org[2] * CON_W
    BY <1>4 DEF Place, Cursor
  <2>2. org[1] \in 0..(CON_W - 1) /\ org[2] \in 0..(ROWS + 1)
    BY <2>1 DEF ConInv, OrgInv
  <2>3. InConsole(con, vm_start(con) + org[1] + org[2] * CON_W)
    <3>1. org[1] \in 0..CON_W /\ org[1] < CON_W
      BY <2>2
    <3> QED
      BY <1>1, <2>2, <3>1, PositionInConsole
  <2>4. WrittenInv'
    BY <1>1, <2>1, <2>3 DEF ConInv, WrittenInv, InConsole, vm_start
  <2>5. PositionInv' /\ RegisterInv' /\ OrgInv'
    BY <1>1, <2>1 DEF ConInv, PositionInv, RegisterInv, OrgInv
  <2> QED
    BY <2>4, <2>5 DEF ConInv
<1> QED
  BY <1>2, <1>3, <1>4

\* The increments of cur_x and cur_y.
LEMMA IncrementKeepsInv ==
  ASSUME ConInv, LoadX \/ StoreX \/ WrapX \/ LoadY \/ StoreY
  PROVE  ConInv'
<1> USE Sizes
<1> USE DEF Goto, con, screen
<1>1. WrittenInv' /\ OrgInv'
  BY DEF ConInv, WrittenInv, OrgInv, InConsole, vm_start, LoadX, StoreX, WrapX, LoadY, StoreY
<1>2. CASE LoadX \/ LoadY
  BY <1>1, <1>2 DEF ConInv, PositionInv, RegisterInv, LoadX, LoadY
<1>3. CASE StoreX
  <2>1. pc = "store_x" /\ pc' = "wrap" /\ cur_x' = [cur_x EXCEPT ![con] = reg + 1]
        /\ reg + 1 \in 0..CON_W /\ UNCHANGED <<cur_y, cur_tty_index>>
    BY <1>3 DEF StoreX, ConInv, RegisterInv
  <2> QED
    BY <1>1, <2>1 DEF ConInv, PositionInv, RegisterInv
<1>4. CASE WrapX
  BY <1>1, <1>4 DEF ConInv, PositionInv, RegisterInv, WrapX
<1>5. CASE StoreY
  <2>1. pc = "store_y" /\ pc' = "show" /\ cur_y' = [cur_y EXCEPT ![con] = reg + 1]
        /\ reg + 1 \in 0..(ROWS + 1) /\ UNCHANGED <<cur_x, cur_tty_index>>
    BY <1>5 DEF StoreY, ConInv, RegisterInv
  <2> QED
    BY <1>1, <2>1 DEF ConInv, PositionInv, RegisterInv
<1> QED
  BY <1>2, <1>3, <1>4, <1>5

\* select_tty around the banner.
LEMMA SelectKeepsInv ==
  ASSUME ConInv, (\E c \in Con : Select(c)) \/ GetXY \/ ZeroX \/ ZeroY \/ BackX \/ BackY \/ SetStart
  PROVE  ConInv'
<1> USE Sizes
<1> USE DEF Goto, con, screen
<1>1. WrittenInv'
  BY DEF ConInv, WrittenInv, InConsole, vm_start, Select, GetXY, ZeroX, ZeroY, BackX, BackY, SetStart
<1>2. CASE (\E c \in Con : Select(c)) \/ SetStart
  BY <1>1, <1>2 DEF ConInv, PositionInv, RegisterInv, OrgInv, Select, SetStart
<1>3. CASE GetXY
  <2>1. pc = "get_xy" /\ pc' = "zero_x" /\ org' = <<cur_x[con], cur_y[con]>>
        /\ UNCHANGED <<cur_x, cur_y, cur_tty_index>>
    BY <1>3 DEF GetXY
  <2>2. cur_x[con] \in 0..(CON_W - 1) /\ cur_y[con] \in 0..(ROWS + 1)
    BY <2>1 DEF ConInv, PositionInv
  <2>3. OrgInv'
    BY <2>1, <2>2 DEF OrgInv, NoXY
  <2> QED
    BY <1>1, <2>1, <2>3 DEF ConInv, PositionInv, RegisterInv
<1>4. CASE ZeroX \/ ZeroY
  BY <1>1, <1>4 DEF ConInv, PositionInv, RegisterInv, OrgInv, ZeroX, ZeroY
<1>5. CASE BackX \/ BackY
  <2>1. org[1] \in 0..(CON_W - 1) /\ org[2] \in 0..(ROWS + 1)
    BY <1>5 DEF BackX, BackY, ConInv, OrgInv
  <2>2. OrgInv'
    BY <1>5 DEF BackX, BackY, ConInv, OrgInv
  <2> QED
    BY <1>1, <1>5, <2>1, <2>2 DEF ConInv, PositionInv, RegisterInv, BackX, BackY
<1> QED
  BY <1>2, <1>3, <1>4, <1>5

\* The rest of task_tty: the loop over the characters.
LEMMA LoopKeepsInv ==
  ASSUME ConInv, (\E chars : Echo(chars)) \/ AllPrinted \/ Check \/ Show
  PROVE  ConInv'
<1> USE Sizes
<1> USE DEF Goto, con, screen
<1>1. WrittenInv'
  BY DEF ConInv, WrittenInv, InConsole, vm_start, Echo, AllPrinted, Check, Show
<1>2. OrgInv'
  BY DEF ConInv, OrgInv, Echo, AllPrinted, Check, Show
<1>3. PositionInv' /\ RegisterInv'
  BY DEF ConInv, PositionInv, RegisterInv, Echo, AllPrinted, Check, Show, Full
<1> QED
  BY <1>1, <1>2, <1>3 DEF ConInv

\* Every step keeps the invariant.
LEMMA ConInvNext == ConInv /\ [Next]_vars => ConInv'
<1> SUFFICES ASSUME ConInv, [Next]_vars PROVE ConInv'
  OBVIOUS
<1>1. CASE TtyStep
  BY <1>1, WriteKeepsInv, IncrementKeepsInv, SelectKeepsInv, LoopKeepsInv DEF TtyStep
<1>2. CASE \E c \in Con, ch \in Ch : SysPrint(c, ch)
  BY <1>2, SysPrintKeepsInv
<1>3. CASE UNCHANGED vars
  BY <1>3 DEF ConInv, PositionInv, RegisterInv, OrgInv, WrittenInv, InConsole, vm_start, con,
              vars, screen, task
<1> QED
  BY <1>1, <1>2, <1>3 DEF Next

(***************************************************************************)
(* A character lands in the video memory of its own console, and the       *)
(* cursor in that of one, however system calls and the steps of task_tty   *)
(* interleave; for consoles of any number and size that are two rows       *)
(* larger than what is printed on.                                         *)
(***************************************************************************)
THEOREM WritesStayInConsole == Spec => []WritesInOwnConsole
<1>1. ConInv => WritesInOwnConsole
  BY Sizes DEF ConInv, PositionInv, WrittenInv, WritesInOwnConsole
<1> QED
  BY <1>1, ConInvInit, ConInvNext, PTL DEF Spec
=============================================================================
