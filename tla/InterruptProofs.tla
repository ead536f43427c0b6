-------------------------- MODULE InterruptProofs --------------------------
(***************************************************************************)
(* Proofs about Interrupt, for any lines and any processes: k_reenter      *)
(* counts the activations of kernel code however they nest, and every      *)
(* process is resumed with its own registers.                              *)
(***************************************************************************)
EXTENDS Interrupt, SequenceTheorems, TLAPS

----------------------------------------------------------------------------
(* The inductive invariant.                                                *)

Act == [what : Irq \cup {"boot", "sys", "printk"},
        pc : BootStage \cup {"entry", "body", "exit"},
        p : Slot,
        link : {"restart", "restart_reenter"}]

InterruptTypeOK ==
  /\ stack \in Seq(Act)
  /\ k_reenter \in Int
  /\ ready_process \in Slot /\ sp0 \in Slot /\ running \in Slot \cup {Junk}
  /\ saved \in [Slot -> Slot \cup {Junk}]

\* Only the outermost activation returns to a process; it alone is the boot or
\* a system call of a process; and the boot that left its own activation was
\* not interrupted yet.
ShapeInv ==
  /\ \A j \in 1..Len(stack) :
       /\ stack[j].link = "restart" <=> j = 1
       /\ stack[j].what \in {"boot", "sys"} => j = 1
  /\ BootLeft => Len(stack) = 1

NestInv == InterruptTypeOK /\ ShapeInv /\ NestingCounted

\* The boot after init_proc, and everything that follows it.
ContextsSet ==
  \/ stack[1].what # "boot"
  \/ stack[1].pc \in {"cursor", "restart", "esp", "dec", "pop"}

\* In kernel code every slot holds the registers of its process, from
\* init_proc on; restart of the boot has loaded the process it starts.
ContextInv ==
  /\ ~ User /\ ContextsSet => \A p \in Slot : saved[p] = p
  /\ ~ User /\ stack[1].what = "boot" /\ stack[1].pc \in {"esp", "dec", "pop"} =>
       sp0 = ready_process
  /\ CallerStays
  /\ ResumesOwnContext

IrqInv == NestInv /\ ContextInv

----------------------------------------------------------------------------
(* The nesting of activations.                                             *)

\* The innermost activation goes on to q, with the process r.
Moves(q, r) ==
  /\ ~ User
  /\ stack' = [stack EXCEPT ![Len(stack)] = [@ EXCEPT !.pc = q, !.p = r]]

\* What such a step leaves alone.
LEMMA MovedStack ==
  ASSUME NestInv, NEW q \in BootStage \cup {"entry", "body", "exit"}, NEW r \in Slot, Moves(q, r)
  PROVE  /\ stack' \in Seq(Act) /\ Len(stack') = Len(stack) /\ Len(stack) \in Nat \ {0}
         /\ \A j \in 1..Len(stack) :
              stack'[j].what = stack[j].what /\ stack'[j].link = stack[j].link
         /\ \A j \in 1..(Len(stack) - 1) : stack'[j] = stack[j]
         /\ stack'[Len(stack)].pc = q /\ stack'[Len(stack)].p = r
<1> DEFINE n == Len(stack)
           a == [stack[n] EXCEPT !.pc = q, !.p = r]
<1>1. stack \in Seq(Act) /\ stack # << >> /\ stack' = [stack EXCEPT ![n] = a]
  BY DEF NestInv, InterruptTypeOK, Moves, User
<1>2. n \in Nat \ {0} /\ n \in 1..n /\ \A j \in 1..n : stack[j] \in Act
  BY <1>1
<1>3. a \in Act /\ a.what = stack[n].what /\ a.link = stack[n].link /\ a.pc = q /\ a.p = r
  BY <1>2 DEF Act
<1> HIDE DEF a
<1>4. /\ stack' \in Seq(Act) /\ Len(stack') = n
      /\ \A j \in 1..n : stack'[j] = IF j = n THEN a ELSE stack[j]
  BY <1>1, <1>2, <1>3, ExceptSeq
<1> QED
  BY <1>2, <1>3, <1>4

\* A step of an activation other than the boot.
LEMMA MoveKeepsNest ==
  ASSUME NestInv, NEW q \in BootStage \cup {"entry", "body", "exit"}, NEW r \in Slot, Moves(q, r),
         Top.what # "boot",
         k_reenter' = k_reenter, InterruptTypeOK'
  PROVE  NestInv'
<1> DEFINE n == Len(stack)
<1>1. /\ n \in Nat \ {0} /\ Len(stack') = n /\ n \in 1..n /\ 1 \in 1..n
      /\ \A j \in 1..n : stack'[j].what = stack[j].what /\ stack'[j].link = stack[j].link
      /\ n # 1 => stack'[1] = stack[1]
  <2>1. /\ n \in Nat \ {0} /\ Len(stack') = n
        /\ \A j \in 1..n : stack'[j].what = stack[j].what /\ stack'[j].link = stack[j].link
        /\ \A j \in 1..(n - 1) : stack'[j] = stack[j]
    BY MovedStack
  <2> HIDE DEF n
  <2>2. n # 1 => 1 \in 1..(n - 1)
    BY <2>1
  <2> QED
    BY <2>1, <2>2
<1>2. stack # << >> /\ stack' # << >>
  BY <1>1, MovedStack DEF NestInv, InterruptTypeOK, Moves, User
<1>3. BootLeft' <=> BootLeft
  <2>1. CASE n = 1
    <3>1. stack[1].what # "boot" /\ stack'[1].what # "boot"
      BY <1>1, <2>1 DEF Top
    <3> QED
      BY <3>1 DEF BootLeft
  <2>2. CASE n # 1
    BY <1>1, <1>2, <2>2 DEF BootLeft, User
  <2> QED
    BY <2>1, <2>2
<1>4. ShapeInv'
  BY <1>1, <1>3 DEF NestInv, ShapeInv
<1>5. NestingCounted'
  BY <1>1, <1>3 DEF NestInv, NestingCounted
<1> QED
  BY <1>4, <1>5 DEF NestInv

\* A step of the boot before it leaves its own activation, or after.
LEMMA BootMoveKeepsNest ==
  ASSUME NestInv, NEW q \in BootStage, NEW r \in Slot, Moves(q, r), Top.what = "boot",
         k_reenter' = IF Top.pc = "esp" THEN k_reenter - 1 ELSE k_reenter,
         q \in {"dec", "pop"} <=> Top.pc \in {"esp", "dec", "pop"},
         InterruptTypeOK'
  PROVE  NestInv' /\ Len(stack) = 1 /\ stack'[1].what = "boot" /\ stack'[1].pc = q
<1>1. Len(stack) = 1 /\ ~ User /\ Top = stack[1]
  <2>1. Len(stack) \in Nat \ {0} /\ Len(stack) \in 1..Len(stack)
    BY MovedStack
  <2>2. stack[Len(stack)].what = "boot" => Len(stack) = 1
    BY <2>1 DEF NestInv, ShapeInv
  <2> QED
    BY <2>1, <2>2 DEF Top, Moves
<1>2. Len(stack') = 1 /\ stack'[1].what = "boot" /\ stack'[1].pc = q
      /\ stack'[1].link = stack[1].link /\ ~ User'
  BY <1>1, MovedStack DEF User
<1>3. ShapeInv' /\ NestingCounted'
  BY <1>1, <1>2 DEF NestInv, InterruptTypeOK, ShapeInv, NestingCounted, BootLeft, User
<1> QED
  BY <1>1, <1>2, <1>3 DEF NestInv

\* An entry into the kernel: save replaces the stack or adds an activation to it.
LEMMA SaveStack ==
  ASSUME NestInv, NEW w \in Irq \cup {"sys", "printk"}, save(w)
  PROVE  /\ k_reenter' = k_reenter + 1 /\ k_reenter' \in Int /\ Len(stack) \in Nat
         /\ saved' \in [Slot -> Slot \cup {Junk}]
         /\ stack' \in Seq(Act) /\ stack'[Len(stack')].what = w
         /\ stack'[Len(stack')].pc = "entry" /\ stack'[Len(stack')].p = ready_process
         /\ IF User \/ BootLeft
            THEN Len(stack') = 1 /\ k_reenter' = 0 /\ stack'[1].link = "restart"
            ELSE /\ Len(stack') = Len(stack) + 1 /\ k_reenter' > 0
                 /\ \A j \in 1..Len(stack) : stack'[j] = stack[j]
                 /\ stack'[Len(stack')].link = "restart_reenter"
<1> DEFINE k == k_reenter + 1
           act == [what |-> w, pc |-> "entry", p |-> ready_process,
                   link |-> IF k = 0 THEN "restart" ELSE "restart_reenter"]
<1>1. /\ k_reenter' = k
      /\ stack' = IF k = 0 THEN <<act>> ELSE Append(stack, act)
      /\ saved' = IF User THEN [saved EXCEPT ![sp0] = running]
                  ELSE IF At("boot", "pop") THEN [saved EXCEPT ![sp0] = Junk]
                  ELSE saved
  BY DEF save
<1>2. stack \in Seq(Act) /\ Len(stack) \in Nat /\ k \in Int
  BY DEF NestInv, InterruptTypeOK
<1>3. act \in Act
  BY DEF Act, NestInv, InterruptTypeOK
<1>4. k = 0 <=> (User \/ BootLeft)
  BY <1>2 DEF NestInv, ShapeInv, NestingCounted, BootLeft, User
<1>5. k > 0 \/ k = 0
  BY <1>2 DEF NestInv, ShapeInv, NestingCounted, BootLeft, User
<1>6. saved' \in [Slot -> Slot \cup {Junk}]
  BY <1>1 DEF NestInv, InterruptTypeOK
<1>7. act.what = w /\ act.pc = "entry" /\ act.p = ready_process
      /\ act.link = IF k = 0 THEN "restart" ELSE "restart_reenter"
  OBVIOUS
<1> HIDE DEF act
<1>8. CASE k = 0
  BY <1>1, <1>2, <1>3, <1>4, <1>6, <1>7, <1>8
<1>9. CASE k # 0
  BY <1>1, <1>2, <1>3, <1>4, <1>5, <1>6, <1>7, <1>9
<1> QED
  BY <1>8, <1>9

\* save keeps the count: a system call of a process is entered from a process.
LEMMA SaveKeepsNest ==
  ASSUME NestInv, NEW w \in Irq \cup {"sys", "printk"}, save(w), w = "sys" => User,
         UNCHANGED <<ready_process, sp0, running>>
  PROVE  NestInv'
<1>1. InterruptTypeOK'
  BY SaveStack DEF NestInv, InterruptTypeOK
<1>2. w # "boot"
  BY InterruptAssumption
<1>3. CASE User \/ BootLeft
  <2>1. /\ Len(stack') = 1 /\ k_reenter' = 0 /\ stack'[1].what = w
        /\ stack'[1].link = "restart"
    BY <1>3, SaveStack
  <2>2. ~ BootLeft'
    BY <1>2, <2>1 DEF BootLeft
  <2> QED
    BY <1>1, <2>1, <2>2 DEF NestInv, ShapeInv, NestingCounted
<1>4. CASE ~ (User \/ BootLeft)
  <2> DEFINE n == Len(stack)
  <2>1. /\ n \in Nat /\ Len(stack') = n + 1 /\ k_reenter' = k_reenter + 1
        /\ \A j \in 1..n : stack'[j] = stack[j]
        /\ stack'[n + 1].what = w /\ stack'[n + 1].link = "restart_reenter"
    BY <1>4, SaveStack
  <2>2. n # 0
    BY <1>4 DEF NestInv, InterruptTypeOK, User
  <2>3. ~ BootLeft'
    BY <1>4, <2>1, <2>2 DEF BootLeft
  <2>4. \A j \in 1..n : /\ stack[j].link = "restart" <=> j = 1
                        /\ stack[j].what \in {"boot", "sys"} => j = 1
    BY DEF NestInv, ShapeInv
  <2>5. k_reenter = n - 1
    BY <1>4 DEF NestInv, NestingCounted
  <2> HIDE DEF n
  <2>6. \A j \in 1..(n + 1) : /\ stack'[j].link = "restart" <=> j = 1
                              /\ stack'[j].what \in {"boot", "sys"} => j = 1
    BY <1>2, <1>4, <2>1, <2>2, <2>4
  <2>7. k_reenter' = Len(stack') - 1
    BY <2>1, <2>5
  <2> QED
    BY <1>1, <2>1, <2>3, <2>6, <2>7 DEF NestInv, ShapeInv, NestingCounted
<1> QED
  BY <1>3, <1>4

\* What Return leaves of the stack: nothing when it is the outermost activation.
LEMMA ReturnStack ==
  ASSUME NestInv, ~ User, Top.what # "boot", Return
  PROVE  /\ Len(stack) \in Nat \ {0} /\ k_reenter' = k_reenter - 1 /\ ~ BootLeft
         /\ Top.link = "restart" <=> Len(stack) = 1
         /\ Len(stack) = 1 => stack' = << >>
         /\ Len(stack) # 1 =>
              /\ stack' \in Seq(Act) /\ Len(stack') = Len(stack) - 1
              /\ \A j \in 1..Len(stack') : stack'[j] = stack[j]
              /\ stack' # << >>
<1> DEFINE n == Len(stack)
<1>1. stack \in Seq(Act) /\ n \in Nat \ {0} /\ n \in 1..n
  BY DEF NestInv, InterruptTypeOK, User
<1>2. Top.link = "restart" <=> n = 1
  BY <1>1 DEF NestInv, ShapeInv, Top
<1>3. ~ BootLeft
  BY <1>1 DEF NestInv, ShapeInv, Top, BootLeft
<1>4. CASE n = 1
  BY <1>1, <1>2, <1>3, <1>4 DEF Return
<1>5. CASE n # 1
  <2>1. stack' = SubSeq(stack, 1, n - 1)
    BY <1>2, <1>5 DEF Return
  <2>2. \A j \in 1..(n - 1) : stack[j] \in Act
    BY <1>1
  <2> HIDE DEF n
  <2>3. n - 1 \in Nat /\ 1 <= n - 1
    BY <1>1, <1>5
  <2>4. /\ stack' \in Seq(Act) /\ Len(stack') = n - 1
        /\ \A j \in 1..(n - 1) : stack'[j] = stack[1 + j - 1]
    BY <2>1, <2>2, <2>3, SubSeqProperties
  <2> QED
    BY <1>1, <1>2, <1>3, <1>5, <2>3, <2>4 DEF Return, n
<1> QED
  BY <1>4, <1>5

\* Return keeps the count.
LEMMA ReturnKeepsNest ==
  ASSUME NestInv, ~ User, Top.what # "boot", Return, UNCHANGED <<ready_process, saved>>
  PROVE  NestInv'
<1> DEFINE n == Len(stack)
<1>1. n \in Nat \ {0} /\ k_reenter' = k_reenter - 1 /\ ~ BootLeft
  BY ReturnStack
<1>2. k_reenter = n - 1
  BY <1>1 DEF NestInv, NestingCounted
<1>3. InterruptTypeOK'
  <2>1. stack' \in Seq(Act)
    <3>1. << >> \in Seq(Act)
      OBVIOUS
    <3> QED
      BY <3>1, ReturnStack
  <2>2. sp0' \in Slot /\ running' \in Slot \cup {Junk} /\ k_reenter' \in Int
    BY DEF Return, NestInv, InterruptTypeOK
  <2> QED
    BY <2>1, <2>2 DEF NestInv, InterruptTypeOK
<1>4. CASE n = 1
  <2>1. stack' = << >> /\ Len(stack') = 0
    BY <1>4, ReturnStack
  <2> QED
    BY <1>1, <1>2, <1>3, <1>4, <2>1 DEF NestInv, ShapeInv, NestingCounted, BootLeft, User
<1>5. CASE n # 1
  <2>1. /\ Len(stack') = n - 1 /\ \A j \in 1..Len(stack') : stack'[j] = stack[j]
        /\ stack # << >>
    BY <1>5, ReturnStack DEF User
  <2>2. 1 \in 1..Len(stack')
    BY <1>1, <1>5, <2>1
  <2>3. ~ BootLeft'
    BY <1>1, <2>1, <2>2 DEF BootLeft, User
  <2>4. \A j \in 1..Len(stack') : j \in 1..n
    BY <1>1, <2>1
  <2>5. ShapeInv'
    BY <2>1, <2>3, <2>4 DEF NestInv, ShapeInv
  <2>6. NestingCounted'
    BY <1>1, <1>2, <2>1, <2>3 DEF NestingCounted
  <2> QED
    BY <1>3, <2>5, <2>6 DEF NestInv
<1> QED
  BY <1>4, <1>5

\* The outermost activation is the innermost one when it is the boot or a system call.
LEMMA OnlyOne ==
  ASSUME NestInv, ~ User
  PROVE  /\ Len(stack) \in Nat \ {0}
         /\ Top.what \in {"boot", "sys"} => Len(stack) = 1
         /\ Len(stack) = 1 => Top = stack[1]
         /\ Top \in Act
<1>1. Len(stack) \in Nat \ {0} /\ Len(stack) \in 1..Len(stack) /\ stack \in Seq(Act)
  BY DEF NestInv, InterruptTypeOK, User
<1>2. Top \in Act
  BY <1>1 DEF Top
<1>3. Top.what \in {"boot", "sys"} => Len(stack) = 1
  BY <1>1 DEF NestInv, ShapeInv, Top
<1> QED
  BY <1>1, <1>2, <1>3 DEF Top

\* Goto keeps the process of the activation.
LEMMA GotoMoves ==
  ASSUME NestInv, ~ User, NEW q, Goto(q)
  PROVE  Moves(q, Top.p) /\ Top.p \in Slot
<1>1. Top \in Act /\ Top = stack[Len(stack)]
  BY OnlyOne DEF Top
<1>2. [Top EXCEPT !.pc = q] = [Top EXCEPT !.pc = q, !.p = Top.p]
  BY <1>1 DEF Act
<1>3. stack' = [stack EXCEPT ![Len(stack)] = [stack[Len(stack)] EXCEPT !.pc = q]]
  BY DEF Goto
<1>4. stack' = [stack EXCEPT ![Len(stack)] = [stack[Len(stack)] EXCEPT !.pc = q, !.p = Top.p]]
  BY <1>1, <1>2, <1>3
<1> QED
  BY <1>1, <1>4 DEF Moves, Act

\* The boot keeps the count, decl (k_reenter) of restart included.
LEMMA BootKeepsNest ==
  ASSUME NestInv, Boot
  PROVE  NestInv'
<1> USE DEF At, BootStage
<1>1. ASSUME NEW q \in BootStage, Goto(q), ~ User, Top.what = "boot",
             k_reenter' = IF Top.pc = "esp" THEN k_reenter - 1 ELSE k_reenter,
             q \in {"dec", "pop"} <=> Top.pc \in {"esp", "dec", "pop"},
             ready_process' \in Slot, sp0' \in Slot, running' = running,
             saved' \in [Slot -> Slot \cup {Junk}]
      PROVE  NestInv'
  <2>1. Moves(q, Top.p) /\ Top.p \in Slot
    BY <1>1, GotoMoves
  <2>2. stack' \in Seq(Act)
    BY <1>1, <2>1, MovedStack
  <2>3. InterruptTypeOK'
    BY <1>1, <2>2 DEF NestInv, InterruptTypeOK
  <2> QED
    BY <1>1, <2>1, <2>3, BootMoveKeepsNest
<1>2. ready_process \in Slot /\ sp0 \in Slot /\ saved \in [Slot -> Slot \cup {Junk}] /\ FirstSlot \in Slot
  BY InterruptAssumption DEF NestInv, InterruptTypeOK
<1>3. CASE BootKeyboard \/ BootCursor \/ BootClock
  BY <1>1, <1>2, <1>3 DEF BootKeyboard, BootCursor, BootClock, procvars
<1>4. CASE BootProc
  <2>1. saved' \in [Slot -> Slot \cup {Junk}]
    BY <1>4 DEF BootProc
  <2> QED
    BY <1>1, <1>2, <1>4, <2>1 DEF BootProc
<1>5. CASE RestartEsp \/ RestartDec \/ RestartPop
  BY <1>1, <1>2, <1>5 DEF RestartEsp, RestartDec, RestartPop, procvars
<1>6. CASE RestartIret
  <2>1. Len(stack) = 1 /\ BootLeft /\ Len(stack') = 0 /\ stack' = << >> /\ << >> \in Seq(Act)
    BY <1>6, OnlyOne DEF RestartIret, BootLeft
  <2>2. k_reenter = -1
    BY <2>1 DEF NestInv, NestingCounted
  <2>3. InterruptTypeOK'
    BY <1>2, <1>6, <2>1 DEF NestInv, InterruptTypeOK, RestartIret
  <2>4. ~ BootLeft'
    BY <2>1 DEF BootLeft, User
  <2> QED
    BY <1>6, <2>1, <2>2, <2>3, <2>4 DEF NestInv, ShapeInv, NestingCounted, RestartIret
<1> QED
  BY <1>3, <1>4, <1>5, <1>6 DEF Boot

\* A handler or a system call at work.
LEMMA WorkKeepsNest ==
  ASSUME NestInv, ~ User, NEW q \in {"body", "exit"}, NEW r \in Slot, Moves(q, r), Top.what # "boot",
         k_reenter' = k_reenter, ready_process' \in Slot, UNCHANGED <<sp0, running, saved>>
  PROVE  NestInv'
<1>1. stack' \in Seq(Act)
  BY MovedStack
<1>2. InterruptTypeOK'
  BY <1>1 DEF NestInv, InterruptTypeOK
<1> QED
  BY <1>2, MoveKeepsNest

\* Where a handler or a system call goes, and what it does on the way.
LEMMA WorkMoves ==
  ASSUME NestInv,
         \/ \E i \in Irq : Handle(i)
         \/ \E w \in {"sys", "printk"} : SysArg(w)
         \/ SysBody \/ PrintkBody
  PROVE  /\ ~ User /\ Top.what # "boot" /\ ready_process' \in Slot
         /\ UNCHANGED <<k_reenter, sp0, running, saved>>
         /\ \E q \in {"body", "exit"}, r \in Slot : Moves(q, r)
<1>1. ready_process \in Slot /\ "boot" \notin Irq
  BY InterruptAssumption DEF NestInv, InterruptTypeOK
<1>2. ASSUME NEW i \in Irq, Handle(i)
      PROVE  /\ ~ User /\ Top.what # "boot" /\ ready_process' \in Slot
             /\ UNCHANGED <<k_reenter, sp0, running, saved>> /\ Goto("exit")
  BY <1>1, <1>2 DEF Handle, clock_handler, At
<1>3. ASSUME NEW w \in {"sys", "printk"}, SysArg(w)
      PROVE  /\ ~ User /\ Top.what # "boot" /\ ready_process' \in Slot
             /\ UNCHANGED <<k_reenter, sp0, running, saved>> /\ Moves("body", ready_process)
  BY <1>1, <1>3 DEF SysArg, At, Moves, procvars
<1>4. ASSUME SysBody \/ PrintkBody
      PROVE  /\ ~ User /\ Top.what # "boot" /\ ready_process' \in Slot
             /\ UNCHANGED <<k_reenter, sp0, running, saved>> /\ Goto("exit")
  BY <1>1, <1>4 DEF SysBody, PrintkBody, At, procvars
<1> QED
  BY <1>1, <1>2, <1>3, <1>4, GotoMoves

\* Every step keeps the count.
LEMMA NestInvNext == NestInv /\ [Next]_vars => NestInv'
<1> SUFFICES ASSUME NestInv, [Next]_vars PROVE NestInv'
  OBVIOUS
<1>1. "boot" \notin Irq /\ "sys" \notin Irq
  BY InterruptAssumption
<1>2. CASE Boot
  BY <1>2, BootKeepsNest
<1>3. CASE \/ \E i \in Irq : Handle(i)
           \/ \E w \in {"sys", "printk"} : SysArg(w)
           \/ SysBody \/ PrintkBody
  <2>1. /\ ~ User /\ Top.what # "boot" /\ ready_process' \in Slot
        /\ UNCHANGED <<k_reenter, sp0, running, saved>>
        /\ \E q \in {"body", "exit"}, r \in Slot : Moves(q, r)
    BY <1>3, WorkMoves
  <2> QED
    BY <2>1, WorkKeepsNest
<1>4. CASE \E i \in Irq : Enter(i)
  BY <1>1, <1>4, SaveKeepsNest DEF Enter
<1>5. CASE SysEnter \/ Printk
  BY <1>5, SaveKeepsNest DEF SysEnter, Printk
<1>6. CASE \E i \in Irq : Leave(i)
  BY <1>1, <1>6, ReturnKeepsNest DEF Leave, At
<1>7. CASE \E w \in {"sys", "printk"} : SysLeave(w)
  BY <1>7, ReturnKeepsNest DEF SysLeave, At
<1>8. CASE UNCHANGED <<kernelvars, procvars>>
  BY <1>8 DEF NestInv, InterruptTypeOK, ShapeInv, NestingCounted, BootLeft, User, kernelvars, procvars
<1> QED
  BY <1>2, <1>3, <1>4, <1>5, <1>6, <1>7, <1>8 DEF Next, Kernel, Raise, vars

\* The boot starts with an activation of its own.
LEMMA NestInvInit == Init => NestInv
<1> SUFFICES ASSUME Init PROVE NestInv
  OBVIOUS
<1> DEFINE a == [what |-> "boot", pc |-> "keyboard", link |-> "restart", p |-> FirstSlot]
<1>1. a \in Act /\ a.what = "boot" /\ a.pc = "keyboard" /\ a.link = "restart"
  BY InterruptAssumption DEF Act, BootStage
<1>2. stack = <<a>> /\ k_reenter = 0
  BY DEF Init
<1> HIDE DEF a
<1>3. stack \in Seq(Act) /\ Len(stack) = 1 /\ stack[1] = a
  BY <1>1, <1>2
<1>4. InterruptTypeOK
  BY <1>3, InterruptAssumption DEF Init, InterruptTypeOK
<1> QED
  BY <1>1, <1>2, <1>3, <1>4 DEF NestInv, ShapeInv, NestingCounted, BootLeft

(***************************************************************************)
(* The inductive invariant of the nesting holds in every reachable state,  *)
(* whatever interrupts what.                                               *)
(***************************************************************************)
THEOREM NestInvHolds == Spec => []NestInv
BY NestInvInit, NestInvNext, PTL DEF Spec

(***************************************************************************)
(* k_reenter counts the activations of kernel code, so clock_handler and   *)
(* sys_printk read from it what they were entered from; for any lines, any *)
(* depth of nesting, and an interrupt at any point of the boot.            *)
(***************************************************************************)
THEOREM ReenterCounts == Spec => []NestingCounted
<1>1. NestInv => NestingCounted
  BY DEF NestInv
<1> QED
  BY <1>1, NestInvHolds, PTL

----------------------------------------------------------------------------
(* The contexts.                                                           *)

\* A step that leaves the outermost activation and the slots alone.
LEMMA ContextFrame ==
  ASSUME ContextInv, ~ User, ~ User', stack'[1] = stack[1],
         UNCHANGED <<ready_process, sp0, running, saved>>
  PROVE  ContextInv'
BY DEF ContextInv, ContextsSet, CallerStays, ResumesOwnContext

\* An interrupt is taken: from a process, whose registers go to its own slot;
\* from the boot between decl and the pops; or from kernel code.
LEMMA EnterKeepsContext ==
  ASSUME IrqInv, "pop" \in NoIrq, NEW i \in Irq, Enter(i), NestInv'
  PROVE  ContextInv'
<1>1. i \notin {"boot", "sys"}
  BY InterruptAssumption
<1>2. NestInv /\ ContextInv /\ save(i) /\ UNCHANGED <<ready_process, sp0, running>>
  BY DEF IrqInv, Enter
<1>3. ~ User'
  BY <1>2, SaveStack DEF User, NestInv, InterruptTypeOK, ShapeInv
<1>4. ~ At("boot", "pop")
  BY DEF Enter, Takes, At
<1>5. ASSUME stack'[1].what = i, \A p \in Slot : saved'[p] = p
      PROVE  ContextInv'
  BY <1>1, <1>3, <1>5 DEF ContextInv, ContextsSet, CallerStays, ResumesOwnContext
<1>6. CASE User
  <2>1. stack'[1].what = i
    BY <1>2, <1>6, SaveStack
  <2>2. running = sp0 /\ \A p \in Slot \ {running} : saved[p] = p
    BY <1>2, <1>6 DEF ContextInv, ResumesOwnContext
  <2>3. saved' = [saved EXCEPT ![sp0] = running] /\ saved \in [Slot -> Slot \cup {Junk}]
    BY <1>2, <1>6 DEF save, NestInv, InterruptTypeOK
  <2>4. \A p \in Slot : saved'[p] = p
    BY <2>2, <2>3
  <2> QED
    BY <1>5, <2>1, <2>4
<1>7. saved' = saved \/ User
  BY <1>2, <1>4 DEF save
<1>8. CASE ~ User /\ BootLeft
  <2>1. stack'[1].what = i
    BY <1>2, <1>8, SaveStack
  <2>2. \A p \in Slot : saved[p] = p
    BY <1>2, <1>8 DEF ContextInv, ContextsSet, BootLeft
  <2> QED
    BY <1>5, <1>7, <1>8, <2>1, <2>2
<1>9. CASE ~ User /\ ~ BootLeft
  <2>1. 1 \in 1..Len(stack)
    BY <1>2, <1>9, OnlyOne
  <2>2. stack'[1] = stack[1]
    BY <1>2, <1>9, <2>1, SaveStack
  <2> QED
    BY <1>2, <1>3, <1>7, <1>9, <2>2, ContextFrame
<1> QED
  BY <1>6, <1>8, <1>9

\* A system call of a process, and a printk of one.
LEMMA SysEnterKeepsContext ==
  ASSUME IrqInv, SysEnter \/ Printk, NestInv'
  PROVE  ContextInv'
<1>1. NestInv /\ ContextInv
  BY DEF IrqInv
<1>2. CASE SysEnter
  <2>1. User /\ save("sys") /\ UNCHANGED <<ready_process, sp0, running>>
    BY <1>2 DEF SysEnter
  <2>2. stack'[1].what = "sys" /\ stack'[1].pc = "entry" /\ stack' # << >>
    BY <1>1, <2>1, SaveStack
  <2>3. /\ running = sp0 /\ running = ready_process /\ sp0 \in Slot
        /\ \A p \in Slot \ {running} : saved[p] = p
        /\ saved' = [saved EXCEPT ![sp0] = running] /\ saved \in [Slot -> Slot \cup {Junk}]
    BY <1>1, <2>1 DEF ContextInv, ResumesOwnContext, save, NestInv, InterruptTypeOK
  <2>4. \A p \in Slot : saved'[p] = p
    BY <2>3
  <2> QED
    BY <2>1, <2>2, <2>3, <2>4 DEF ContextInv, ContextsSet, CallerStays, ResumesOwnContext, User
<1>3. CASE Printk
  <2>1. /\ ~ User /\ Top.what = "sys" /\ save("printk")
        /\ UNCHANGED <<ready_process, sp0, running>>
    BY <1>3 DEF Printk, At
  <2>2. Len(stack) = 1 /\ Top = stack[1] /\ ~ BootLeft
    BY <1>1, <2>1, OnlyOne DEF BootLeft
  <2>3. stack'[1] = stack[1] /\ Len(stack') = 2 /\ saved' = saved
    BY <1>1, <2>1, <2>2, SaveStack DEF save, At
  <2>4. ~ User'
    BY <2>3 DEF User
  <2> QED
    BY <1>1, <2>1, <2>3, <2>4, ContextFrame
<1> QED
  BY <1>2, <1>3

\* The way back: the outermost activation resumes ready_process from its slot.
LEMMA ReturnKeepsContext ==
  ASSUME IrqInv, ~ User, Top.what # "boot", Return, UNCHANGED <<ready_process, saved>>
  PROVE  ContextInv'
<1>1. NestInv /\ ContextInv
  BY DEF IrqInv
<1>2. CASE Len(stack) = 1
  <2>1. /\ Top.link = "restart" /\ stack' = << >> /\ Top = stack[1]
    BY <1>1, <1>2, ReturnStack, OnlyOne
  <2>2. \A p \in Slot : saved[p] = p
    BY <1>1, <2>1 DEF ContextInv, ContextsSet
  <2>3. sp0' = ready_process /\ running' = ready_process
    BY <1>1, <2>1, <2>2 DEF Return, NestInv, InterruptTypeOK
  <2> QED
    BY <2>1, <2>2, <2>3 DEF ContextInv, CallerStays, ResumesOwnContext, User
<1>3. CASE Len(stack) # 1
  <2>1. stack' # << >> /\ Top.link # "restart" /\ Len(stack') = Len(stack) - 1
        /\ Len(stack) \in Nat \ {0} /\ \A j \in 1..Len(stack') : stack'[j] = stack[j]
    BY <1>1, <1>3, ReturnStack
  <2>2. 1 \in 1..Len(stack')
    BY <1>3, <2>1
  <2> QED
    BY <1>1, <2>1, <2>2, ContextFrame DEF Return, User
<1> QED
  BY <1>2, <1>3

\* A handler: the clock picks another process only as the outermost activation.
LEMMA HandleKeepsContext ==
  ASSUME IrqInv, NEW i \in Irq, Handle(i)
  PROVE  ContextInv'
<1>1. NestInv /\ ContextInv /\ i \notin {"boot", "sys"}
  BY InterruptAssumption DEF IrqInv
<1>2. ~ User /\ Top.what = i /\ Goto("exit") /\ clock_handler(i) /\ UNCHANGED <<sp0, running, saved>>
  BY DEF Handle, At
<1>3. Moves("exit", Top.p) /\ Top.p \in Slot
  BY <1>1, <1>2, GotoMoves
<1>4. /\ Len(stack') = Len(stack) /\ Len(stack) \in Nat \ {0} /\ stack' \in Seq(Act)
      /\ stack'[1].what = stack[1].what
      /\ Len(stack) # 1 => stack'[1] = stack[1]
  <2>1. /\ stack' \in Seq(Act) /\ Len(stack') = Len(stack) /\ Len(stack) \in Nat \ {0}
        /\ \A j \in 1..Len(stack) : stack'[j].what = stack[j].what
        /\ \A j \in 1..(Len(stack) - 1) : stack'[j] = stack[j]
    BY <1>1, <1>3, MovedStack
  <2>2. 1 \in 1..Len(stack) /\ (Len(stack) # 1 => 1 \in 1..(Len(stack) - 1))
    BY <2>1
  <2> QED
    BY <2>1, <2>2
<1>5. ~ User'
  BY <1>4 DEF User
<1>6. CASE Len(stack) = 1
  <2>1. stack[1].what = i /\ stack'[1].what = i
    BY <1>1, <1>2, <1>4, <1>6, OnlyOne
  <2> QED
    BY <1>1, <1>2, <1>5, <2>1 DEF ContextInv, ContextsSet, CallerStays, ResumesOwnContext
<1>7. CASE Len(stack) # 1
  <2>1. k_reenter # 0
    BY <1>1, <1>4, <1>7 DEF NestInv, ShapeInv, NestingCounted
  <2>2. ready_process' = ready_process
    BY <1>2, <2>1 DEF clock_handler
  <2> QED
    BY <1>1, <1>2, <1>4, <1>5, <1>7, <2>2, ContextFrame
<1> QED
  BY <1>6, <1>7

\* A system call takes its argument and runs; the first is not preempted before.
LEMMA SysKeepsContext ==
  ASSUME IrqInv, SysArg("sys") \/ SysBody
  PROVE  ContextInv'
<1>1. NestInv /\ ContextInv
  BY DEF IrqInv
<1>2. ~ User /\ Top.what = "sys" /\ UNCHANGED <<sp0, running, saved>>
  BY DEF SysArg, SysBody, At, procvars
<1>3. Len(stack) = 1 /\ Top = stack[1] /\ Top \in Act
  BY <1>1, <1>2, OnlyOne
<1>4. CASE SysArg("sys")
  <2>1. Moves("body", ready_process) /\ ready_process \in Slot /\ UNCHANGED ready_process
    BY <1>1, <1>2, <1>4 DEF SysArg, Moves, NestInv, InterruptTypeOK, procvars
  <2>2. /\ stack' \in Seq(Act) /\ Len(stack') = 1 /\ stack'[1].what = "sys"
        /\ stack'[1].pc = "body" /\ stack'[1].p = ready_process
    <3>1. PICK r \in Slot : r = ready_process /\ Moves("body", r)
      BY <2>1
    <3>2. /\ stack' \in Seq(Act) /\ Len(stack') = Len(stack)
          /\ \A j \in 1..Len(stack) : stack'[j].what = stack[j].what
          /\ stack'[Len(stack)].pc = "body" /\ stack'[Len(stack)].p = r
      BY <1>1, <3>1, MovedStack
    <3> QED
      BY <1>2, <1>3, <3>1, <3>2
  <2>3. ~ User' /\ stack[1].pc = "entry"
    BY <1>3, <1>4, <2>2 DEF User, SysArg, At
  <2> QED
    BY <1>1, <1>2, <1>3, <2>1, <2>2, <2>3
       DEF ContextInv, ContextsSet, CallerStays, ResumesOwnContext
<1>5. CASE SysBody
  <2>1. Moves("exit", Top.p) /\ Top.p \in Slot
    BY <1>1, <1>2, <1>5, GotoMoves DEF SysBody
  <2>2. /\ stack' \in Seq(Act) /\ Len(stack') = 1 /\ stack'[1].what = "sys"
        /\ stack'[1].pc = "exit"
    BY <1>1, <1>2, <1>3, <2>1, MovedStack
  <2>3. ~ User'
    BY <2>2, SMTT(30) DEF User
  <2> QED
    BY <1>1, <1>2, <1>3, <2>2, <2>3
       DEF ContextInv, ContextsSet, CallerStays, ResumesOwnContext
<1> QED
  BY <1>4, <1>5

\* A printk in a system call is not the outermost activation.
LEMMA PrintkKeepsContext ==
  ASSUME IrqInv, SysArg("printk") \/ PrintkBody
  PROVE  ContextInv'
<1>1. NestInv /\ ContextInv
  BY DEF IrqInv
<1>2. ~ User /\ Top.what = "printk" /\ UNCHANGED <<ready_process, sp0, running, saved>>
  BY DEF SysArg, PrintkBody, At, procvars
<1>3. \E q \in {"body", "exit"}, r \in Slot : Moves(q, r)
  BY <1>1, WorkMoves
<1>4. PICK q \in {"body", "exit"}, r \in Slot : Moves(q, r)
  BY <1>3
<1>5. /\ stack' \in Seq(Act) /\ Len(stack') = Len(stack) /\ Len(stack) \in Nat \ {0}
      /\ \A j \in 1..Len(stack) : stack'[j].what = stack[j].what
      /\ \A j \in 1..(Len(stack) - 1) : stack'[j] = stack[j]
  BY <1>1, <1>4, MovedStack
<1>6. ~ User'
  BY <1>5 DEF User
<1>7. CASE Len(stack) = 1
  <2>1. stack[1].what = "printk" /\ stack'[1].what = "printk"
    BY <1>1, <1>2, <1>5, <1>7, OnlyOne
  <2> QED
    BY <1>1, <1>2, <1>6, <2>1 DEF ContextInv, ContextsSet, CallerStays, ResumesOwnContext
<1>8. CASE Len(stack) # 1
  <2>1. 1 \in 1..(Len(stack) - 1)
    BY <1>5, <1>8
  <2> QED
    BY <1>1, <1>2, <1>5, <1>6, <2>1, ContextFrame
<1> QED
  BY <1>7, <1>8

\* The boot: init_proc fills every slot, and restart loads the one it starts.
LEMMA BootKeepsContext ==
  ASSUME IrqInv, Boot
  PROVE  ContextInv'
<1> USE DEF At
<1>1. NestInv /\ ContextInv /\ ~ User /\ Top.what = "boot"
  BY DEF IrqInv, Boot, BootKeyboard, BootClock, BootProc, BootCursor, RestartEsp,
         RestartDec, RestartPop, RestartIret
<1>2. Len(stack) = 1 /\ Top = stack[1]
  BY <1>1, OnlyOne
<1>3. ASSUME NEW q \in BootStage, Goto(q)
      PROVE  ~ User' /\ stack'[1].what = "boot" /\ stack'[1].pc = q
  <2>1. Moves(q, Top.p) /\ Top.p \in Slot
    BY <1>1, <1>3, GotoMoves
  <2>2. /\ stack' \in Seq(Act) /\ Len(stack') = 1
        /\ stack'[1].what = "boot" /\ stack'[1].pc = q
    BY <1>1, <1>2, <2>1, MovedStack
  <2> QED
    BY <2>2 DEF User
<1> USE DEF BootStage
<1> USE DEF ContextInv, ContextsSet, CallerStays, ResumesOwnContext
<1>4. CASE BootKeyboard \/ BootClock
  <2>1. ~ User' /\ stack'[1].what = "boot" /\ stack'[1].pc \in {"clock", "proc"}
    BY <1>3, <1>4 DEF BootKeyboard, BootClock
  <2> QED
    BY <2>1
<1>5. CASE BootProc
  <2>1. ~ User' /\ stack'[1].what = "boot" /\ stack'[1].pc = "cursor"
        /\ saved' = [p \in Slot |-> p]
    BY <1>3, <1>5 DEF BootProc
  <2> QED
    BY <2>1
<1>6. CASE BootCursor
  <2>1. ~ User' /\ stack'[1].what = "boot" /\ stack'[1].pc = "restart"
        /\ stack[1].pc = "cursor" /\ saved' = saved
    BY <1>2, <1>3, <1>6 DEF BootCursor, procvars
  <2> QED
    BY <1>1, <2>1
<1>7. CASE RestartEsp
  <2>1. ~ User' /\ stack'[1].what = "boot" /\ stack'[1].pc = "esp"
        /\ stack[1].pc = "restart" /\ saved' = saved /\ sp0' = ready_process
        /\ ready_process' = ready_process
    BY <1>2, <1>3, <1>7 DEF RestartEsp
  <2> QED
    BY <1>1, <2>1
<1>8. CASE RestartDec \/ RestartPop
  <2>1. ~ User' /\ stack'[1].what = "boot" /\ stack'[1].pc \in {"dec", "pop"}
        /\ stack[1].pc \in {"esp", "dec"} /\ UNCHANGED <<saved, sp0, ready_process>>
    BY <1>2, <1>3, <1>8 DEF RestartDec, RestartPop, procvars
  <2> QED
    BY <1>1, <1>2, <2>1
<1>9. CASE RestartIret
  <2>1. stack' = << >> /\ stack[1].pc = "pop" /\ running' = saved[sp0]
        /\ UNCHANGED <<saved, sp0, ready_process>>
    BY <1>2, <1>9 DEF RestartIret
  <2>2. sp0 = ready_process /\ \A p \in Slot : saved[p] = p
    BY <1>1, <1>2, <2>1
  <2>3. running' = ready_process
    BY <1>1, <2>1, <2>2 DEF NestInv, InterruptTypeOK
  <2> QED
    BY <2>1, <2>2, <2>3 DEF User
<1> QED
  BY <1>4, <1>5, <1>6, <1>7, <1>8, <1>9 DEF Boot

\* Every step keeps the contexts.
LEMMA IrqInvNext == "pop" \in NoIrq /\ IrqInv /\ [Next]_vars => IrqInv'
<1> SUFFICES ASSUME "pop" \in NoIrq, IrqInv, [Next]_vars PROVE IrqInv'
  OBVIOUS
<1>1. NestInv /\ NestInv' /\ "boot" \notin Irq
  BY NestInvNext, InterruptAssumption DEF IrqInv
<1>2. CASE Boot
  BY <1>1, <1>2, BootKeepsContext DEF IrqInv
<1>3. CASE \E i \in Irq : Enter(i) \/ Handle(i)
  BY <1>1, <1>3, EnterKeepsContext, HandleKeepsContext DEF IrqInv
<1>4. CASE SysEnter \/ Printk
  BY <1>1, <1>4, SysEnterKeepsContext DEF IrqInv
<1>5. CASE \E i \in Irq : Leave(i)
  BY <1>1, <1>5, ReturnKeepsContext DEF IrqInv, Leave, At
<1>6. CASE \E w \in {"sys", "printk"} : SysLeave(w)
  BY <1>1, <1>6, ReturnKeepsContext DEF IrqInv, SysLeave, At
<1>7. CASE (\E w \in {"sys", "printk"} : SysArg(w)) \/ SysBody \/ PrintkBody
  BY <1>1, <1>7, SysKeepsContext, PrintkKeepsContext DEF IrqInv
<1>8. CASE UNCHANGED <<kernelvars, procvars>>
  BY <1>1, <1>8 DEF IrqInv, ContextInv, ContextsSet, CallerStays, ResumesOwnContext, User,
                    kernelvars, procvars
<1> QED
  BY <1>2, <1>3, <1>4, <1>5, <1>6, <1>7, <1>8 DEF Next, Kernel, Raise, vars

\* No slot holds a context before init_proc.
LEMMA IrqInvInit == Init => IrqInv
<1> SUFFICES ASSUME Init PROVE IrqInv
  OBVIOUS
<1>1. ~ User /\ stack[1].what = "boot" /\ stack[1].pc = "keyboard"
  BY DEF Init, User
<1> QED
  BY <1>1, NestInvInit DEF IrqInv, ContextInv, ContextsSet, CallerStays, ResumesOwnContext

(***************************************************************************)
(* What runs is the process ready_process points to, with its own          *)
(* registers, whatever interrupts and system calls came before; for any    *)
(* lines and processes, provided no interrupt comes in the boot's restart  *)
(* between the last pop and iret, the window the run v_boot_irq shows.     *)
(***************************************************************************)
THEOREM ContextsResumed == "pop" \in NoIrq => (Spec => []ResumesOwnContext)
<1> SUFFICES ASSUME "pop" \in NoIrq PROVE Spec => []ResumesOwnContext
  OBVIOUS
<1>1. IrqInv /\ [Next]_vars => IrqInv'
  BY IrqInvNext
<1>2. IrqInv => ResumesOwnContext
  BY DEF IrqInv, ContextInv
<1> QED
  BY <1>1, <1>2, IrqInvInit, PTL DEF Spec

(***************************************************************************)
(* A system call is not preempted: until it blocks by itself,              *)
(* ready_process and the argument it pushed are the process that made it,  *)
(* however many interrupts come between.  The hypothesis is the same.      *)
(***************************************************************************)
THEOREM CallersStay == "pop" \in NoIrq => (Spec => []CallerStays)
<1> SUFFICES ASSUME "pop" \in NoIrq PROVE Spec => []CallerStays
  OBVIOUS
<1>1. IrqInv /\ [Next]_vars => IrqInv'
  BY IrqInvNext
<1>2. IrqInv => CallerStays
  BY DEF IrqInv, ContextInv
<1> QED
  BY <1>1, <1>2, IrqInvInit, PTL DEF Spec
=============================================================================
