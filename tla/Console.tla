------------------------------- MODULE Console -------------------------------
(***************************************************************************)
(* The text consoles: s32_console_print_char of tty/console.c, called by   *)
(* task_tty (tty_do_write and select_tty of tty/tty.c), which the clock    *)
(* may preempt at any point, and by the system calls sys_write and         *)
(* sys_printk of the other processes, which it may not.                    *)
(*                                                                         *)
(* Video memory is counted in cells of a character and its attribute.  The *)
(* task's increments of cur_x and cur_y are a load and a store.            *)
(***************************************************************************)
EXTENDS Integers, Sequences

CONSTANTS
  CONSOLES,    \* CONSOLE_NUM - 1, the text consoles
  CON_W,       \* 80
  CON_H,       \* 25
  ROWS,        \* 50, the rows a console prints on
  FIRST_ROW,   \* 2, where init_console puts the cursor
  VM,          \* VIDEO_RAM_SIZE / 2, the cells of a console
  Banner       \* what select_tty prints

ASSUME ConsoleAssumption ==
  /\ CONSOLES \in Nat \ {0} /\ CON_W \in Nat \ {0} /\ CON_H \in Nat \ {0}
  /\ ROWS \in Nat /\ CON_H =< ROWS /\ FIRST_ROW \in 0..ROWS
  /\ VM \in Nat /\ CON_W * (ROWS + 2) =< VM
  /\ Banner \in Seq({"cr", "nl", "print", "other"})

Con == 0..(CONSOLES - 1)
Ch == {"cr", "nl", "print", "other"}
vm_start(c) == c * VM
NoXY == <<-1, -1>>

VARIABLES
  cur_x, cur_y,
  cur_tty_index,
  start_addr, cursor,    \* the registers of the CRT controller
  cell,                  \* the last cell written, and the console it was meant for
  pc, todo, reg, org     \* task_tty: where it is, the characters left, a register,
                         \* org_x and org_y of select_tty

screen == <<start_addr, cursor>>
task == <<pc, todo, reg, org>>
vars == <<cur_x, cur_y, cur_tty_index, screen, cell, task>>

-----------------------------------------------------------------------------
(* s32_console_print_char, all at once                                      *)

\* Where a character leaves the cursor.
After(x, y, ch) ==
  CASE ch = "cr"    -> <<0, y>>
    [] ch = "nl"    -> <<x, y + 1>>
    [] ch = "print" -> IF x + 1 >= CON_W THEN <<0, y + 1>> ELSE <<x + 1, y>>
    [] OTHER        -> <<x, y>>

\* Variant: a full console prints on.
Full_Never(y) == FALSE

\* "if (console->cur_y >= 50) return"
Full(y) == y >= ROWS

\* set_video_start_addr, when the console has scrolled
Scroll(y) ==
  start_addr' = IF y >= CON_H THEN CON_W * (y - (CON_H - 1)) ELSE start_addr

\* set_cursor
Cursor(c, x, y) == cursor' = vm_start(c) + x + y * CON_W

PutCell(c) == cell' = [con |-> c, at |-> vm_start(c) + cur_x[c] + cur_y[c] * CON_W]

\* sys_write or sys_printk of a process whose terminal has console c.
SysPrint(c, ch) ==
  LET xy == After(cur_x[c], cur_y[c], ch) IN
  /\ ~ Full(cur_y[c])
  /\ cur_x' = [cur_x EXCEPT ![c] = xy[1]]
  /\ cur_y' = [cur_y EXCEPT ![c] = xy[2]]
  /\ IF ch = "print" THEN PutCell(c) ELSE UNCHANGED cell
  /\ Scroll(xy[2])
  /\ Cursor(c, xy[1], xy[2])
  /\ UNCHANGED <<cur_tty_index, task>>

-----------------------------------------------------------------------------
(* task_tty: the same, step by step, on the current console                 *)

con == cur_tty_index
Goto(l) == pc' = l

\* tty_do_write: a key, or "\r\n" for KEY_ENTER
Echo(chars) ==
  /\ pc = "idle"
  /\ todo' = chars
  /\ Goto("check")
  /\ UNCHANGED <<cur_x, cur_y, cur_tty_index, screen, cell, reg, org>>

\* select_tty: get_xy, then set_xy(0, 0), and the banner is printed there ...
Select(c) ==
  /\ pc = "idle"
  /\ cur_tty_index' = c
  /\ Goto("get_xy")
  /\ UNCHANGED <<cur_x, cur_y, screen, cell, todo, reg, org>>

GetXY ==
  /\ pc = "get_xy"
  /\ org' = <<cur_x[con], cur_y[con]>>
  /\ Goto("zero_x")
  /\ UNCHANGED <<cur_x, cur_y, cur_tty_index, screen, cell, todo, reg>>

ZeroX ==
  /\ pc = "zero_x"
  /\ cur_x' = [cur_x EXCEPT ![con] = 0]
  /\ Goto("zero_y")
  /\ UNCHANGED <<cur_y, cur_tty_index, screen, cell, todo, reg, org>>

ZeroY ==
  /\ pc = "zero_y"
  /\ cur_y' = [cur_y EXCEPT ![con] = 0]
  /\ todo' = Banner
  /\ Goto("check")
  /\ UNCHANGED <<cur_x, cur_tty_index, screen, cell, reg, org>>

\* ... set_xy back, set_video_start_addr and set_cursor.
BackX ==
  /\ pc = "back_x"
  /\ cur_x' = [cur_x EXCEPT ![con] = org[1]]
  /\ Goto("back_y")
  /\ UNCHANGED <<cur_y, cur_tty_index, screen, cell, todo, reg, org>>

BackY ==
  /\ pc = "back_y"
  /\ cur_y' = [cur_y EXCEPT ![con] = org[2]]
  /\ Goto("start")
  /\ UNCHANGED <<cur_x, cur_tty_index, screen, cell, todo, reg, org>>

SetStart ==
  /\ pc = "start"
  /\ start_addr' = vm_start(con)
  /\ Goto("place")
  /\ UNCHANGED <<cur_x, cur_y, cur_tty_index, cursor, cell, todo, reg, org>>

Place ==
  /\ pc = "place"
  /\ Cursor(con, org[1], org[2])
  /\ org' = NoXY
  /\ Goto("idle")
  /\ UNCHANGED <<cur_x, cur_y, cur_tty_index, start_addr, cell, todo, reg>>

\* The last character was printed: the echo or the banner is done.
AllPrinted ==
  /\ pc = "check" /\ todo = << >>
  /\ Goto(IF org = NoXY THEN "idle" ELSE "back_x")
  /\ UNCHANGED <<cur_x, cur_y, cur_tty_index, screen, cell, todo, reg, org>>

Check ==
  /\ pc = "check" /\ todo # << >>
  /\ IF Full(cur_y[con]) THEN todo' = Tail(todo) /\ UNCHANGED pc
                         ELSE Goto("put") /\ UNCHANGED todo
  /\ UNCHANGED <<cur_x, cur_y, cur_tty_index, screen, cell, reg, org>>

\* The switch on the character
PutCh ==
  /\ pc = "put"
  /\ Goto(CASE Head(todo) = "print" -> "load_x" [] Head(todo) = "nl" -> "load_y"
            [] OTHER -> "show")
  /\ IF Head(todo) = "print" THEN PutCell(con) ELSE UNCHANGED cell
  /\ cur_x' = IF Head(todo) = "cr" THEN [cur_x EXCEPT ![con] = 0] ELSE cur_x
  /\ UNCHANGED <<cur_y, cur_tty_index, screen, todo, reg, org>>

\* ++console->cur_x
LoadX ==
  /\ pc = "load_x"
  /\ reg' = cur_x[con]
  /\ Goto("store_x")
  /\ UNCHANGED <<cur_x, cur_y, cur_tty_index, screen, cell, todo, org>>

StoreX ==
  /\ pc = "store_x"
  /\ cur_x' = [cur_x EXCEPT ![con] = reg + 1]
  /\ reg' = 0
  /\ Goto("wrap")
  /\ UNCHANGED <<cur_y, cur_tty_index, screen, cell, todo, org>>

\* "if (console->cur_x >= 80)"
WrapX ==
  /\ pc = "wrap"
  /\ IF cur_x[con] >= CON_W
     THEN cur_x' = [cur_x EXCEPT ![con] = 0] /\ Goto("load_y")
     ELSE Goto("show") /\ UNCHANGED cur_x
  /\ UNCHANGED <<cur_y, cur_tty_index, screen, cell, todo, reg, org>>

\* ++console->cur_y
LoadY ==
  /\ pc = "load_y"
  /\ reg' = cur_y[con]
  /\ Goto("store_y")
  /\ UNCHANGED <<cur_x, cur_y, cur_tty_index, screen, cell, todo, org>>

StoreY ==
  /\ pc = "store_y"
  /\ cur_y' = [cur_y EXCEPT ![con] = reg + 1]
  /\ reg' = 0
  /\ Goto("show")
  /\ UNCHANGED <<cur_x, cur_tty_index, screen, cell, todo, org>>

Show ==
  /\ pc = "show"
  /\ Scroll(cur_y[con])
  /\ Goto("cursor")
  /\ UNCHANGED <<cur_x, cur_y, cur_tty_index, cursor, cell, todo, reg, org>>

MoveCursor ==
  /\ pc = "cursor"
  /\ Cursor(con, cur_x[con], cur_y[con])
  /\ todo' = Tail(todo)
  /\ Goto("check")
  /\ UNCHANGED <<cur_x, cur_y, cur_tty_index, start_addr, cell, reg, org>>

-----------------------------------------------------------------------------
\* init_console
Init ==
  /\ cur_x = [c \in Con |-> 0] /\ cur_y = [c \in Con |-> FIRST_ROW]
  /\ cur_tty_index = 0
  /\ start_addr = 0 /\ cursor = 0
  /\ cell = [con |-> 0, at |-> 0]
  /\ pc = "idle" /\ todo = << >> /\ reg = 0 /\ org = NoXY

TtyStep ==
  \/ Echo(<<"print">>) \/ Echo(<<"other">>) \/ Echo(<<"cr", "nl">>)
  \/ \E c \in Con : Select(c)
  \/ GetXY \/ ZeroX \/ ZeroY \/ BackX \/ BackY \/ SetStart \/ Place
  \/ AllPrinted \/ Check \/ PutCh \/ LoadX \/ StoreX \/ WrapX
  \/ LoadY \/ StoreY \/ Show \/ MoveCursor

Next == TtyStep \/ \E c \in Con, ch \in Ch : SysPrint(c, ch)

Spec == Init /\ [][Next]_vars

-----------------------------------------------------------------------------
(* Properties                                                               *)

InConsole(c, n) == vm_start(c) =< n /\ n < vm_start(c) + VM

\* Whatever the task and the system calls do to cur_x and cur_y between the
\* test for the last row and the store, a character lands in the video memory
\* of its own console, and so does the cursor; and the column stays in the
\* line, but for the moment the task wraps it.
WritesInOwnConsole ==
  /\ InConsole(cell.con, cell.at)
  /\ \E c \in Con : InConsole(c, cursor)
  /\ \A c \in Con : cur_x[c] >= CON_W => c = con /\ pc = "wrap" /\ cur_x[c] = CON_W

\* The terminal that was selected is the one the screen shows.
DisplayShowsCurrent == pc = "idle" => InConsole(cur_tty_index, start_addr)
=============================================================================
