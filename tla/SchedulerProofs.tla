--------------------------- MODULE SchedulerProofs --------------------------
(* Proofs that the scheduler keeps IInv, for any number of stacks, any     *)
(* counter width, any tick rate and any interrupt depth.                   *)
EXTENDS Scheduler, SequenceTheorems, TLAPS

USE StacksAssumption, CounterAssumption, TicksAssumption, DepthAssumption

\* What a step leaves alone when it only moves the pc and works the lock.
Quiet == UNCHANGED <<current_task, all_tasks, esp, frames, memory>>

\* The parts of IInv that speak of tasks and stacks only.
TaskInv == SavedContexts /\ OwnStack /\ StacksOwnedOnce /\ FramesLive

\* A quiet step cannot disturb the tasks and their stacks.
LEMMA QuietKeepsTasks ==
  ASSUME TaskInv, Quiet
  PROVE  TaskInv'
  BY DEF TaskInv, Quiet, SavedContexts, OwnStack, StacksOwnedOnce, FramesLive,
         Runnable

\* The initial state satisfies the invariant.
LEMMA InitIInv == Init => IInv
<1> SUFFICES ASSUME Init PROVE IInv
  OBVIOUS
<1> USE DEF Init, SpinlockInit, create_new_task
<1>1. TypeOK
  <2>1. current_task \in Task
    BY DEF Task, AllStacks, ReturnAddresses
  <2>2. frames \in [AllStacks -> Seq(PC)] /\ all_tasks \in Seq(Task)
    OBVIOUS
  <2>3. pc \in PC /\ esp \in AllStacks /\ SpinlockTypeOK
    BY DEF PC, AllStacks, SpinlockTypeOK
  <2>4. memory \in SUBSET Stacks /\ cursor \in Nat \ {0} /\ ticks \in Nat
    OBVIOUS
  <2> QED
    BY <2>1, <2>2, <2>3, <2>4 DEF TypeOK
<1>2. /\ InterruptState
      /\ FrameShape
  BY DEF InterruptState, FrameShape, InTick, Critical, AllStacks
<1>3. TaskInv
  BY DEF TaskInv, SavedContexts, OwnStack, StacksOwnedOnce, FramesLive, Runnable,
         AllStacks
<1>4. DeafTaskHasInterruptedPeer /\ NeverUnreachable /\ NeverHaltedDeaf
  BY DEF DeafTaskHasInterruptedPeer, NeverUnreachable, NeverHaltedDeaf,
         IrqAfterRelease, Critical
<1> QED
  BY <1>1, <1>2, <1>3, <1>4 DEF IInv, TaskInv

-----------------------------------------------------------------------------
(* Helpers.                                                                *)

\* erase keeps a sequence of the same type, one shorter: entries before the
\* erased one stay, later ones move down.
LEMMA EraseType ==
  ASSUME NEW S, NEW s \in Seq(S), NEW c \in DOMAIN s
  PROVE  /\ erase(s, c) \in Seq(S)
         /\ Len(erase(s, c)) = Len(s) - 1
         /\ DOMAIN erase(s, c) = 1 .. (Len(s) - 1)
         /\ \A j \in 1 .. (Len(s) - 1) :
               erase(s, c)[j] = IF j < c THEN s[j] ELSE s[j + 1]
  BY DEF erase

\* Every entry but the erased one is still there.
LEMMA EraseKeeps ==
  ASSUME NEW S, NEW s \in Seq(S), NEW c \in DOMAIN s,
         NEW k \in DOMAIN s, k # c
  PROVE  \E j \in DOMAIN erase(s, c) : erase(s, c)[j] = s[k]
<1> DEFINE e == erase(s, c)
<1>0. /\ c \in 1 .. Len(s) /\ k \in 1 .. Len(s) /\ Len(s) \in Nat
      /\ DOMAIN e = 1 .. (Len(s) - 1)
      /\ \A j \in 1 .. (Len(s) - 1) : e[j] = IF j < c THEN s[j] ELSE s[j + 1]
  BY EraseType
<1> HIDE DEF e
<1>1. CASE k < c
  <2>1. k \in DOMAIN e /\ e[k] = s[k]
    BY <1>0, <1>1
  <2> QED BY <2>1 DEF e
<1>2. CASE k > c
  <2>1. k - 1 \in 1 .. (Len(s) - 1) /\ ~(k - 1 < c) /\ (k - 1) + 1 = k
    BY <1>0, <1>2
  <2>2. e[k - 1] = s[k]
    BY <1>0, <2>1
  <2> QED BY <1>0, <2>1, <2>2 DEF e
<1> QED BY <1>0, <1>1, <1>2

\* The scheduling counter stays in range when it wraps.
LEMMA WrapType ==
  ASSUME NEW x \in Nat
  PROVE  x % CounterMod \in 0 .. (CounterMod - 1)
  BY SMT

\* The fields of a queued task.
LEMMA TaskFields ==
  ASSUME TypeOK, NEW i \in DOMAIN all_tasks
  PROVE  /\ all_tasks[i] \in Task
         /\ all_tasks[i].esp \in AllStacks
         /\ all_tasks[i].allocation \in Stacks
         /\ all_tasks[i].state \in {"runnable", "finished"}
         /\ all_tasks[i].eip \in ReturnAddresses
<1>1. all_tasks[i] \in Task
  BY DEF TypeOK
<1> QED
  BY <1>1 DEF Task

\* A sequence without its last element.
LEMMA FrontFacts ==
  ASSUME NEW S, NEW f \in Seq(S), f # << >>
  PROVE  /\ Len(f) \in Nat \ {0}
         /\ Len(f) \in DOMAIN f
         /\ DOMAIN SubSeq(f, 1, Len(f) - 1) = 1 .. (Len(f) - 1)
         /\ \A k \in 1 .. (Len(f) - 1) : k \in DOMAIN f /\ SubSeq(f, 1, Len(f) - 1)[k] = f[k]
         /\ SubSeq(f, 1, Len(f) - 1) = << >> <=> Len(f) = 1
<1>1. Len(f) \in Nat \ {0} /\ Len(f) \in DOMAIN f
  OBVIOUS
<1> DEFINE g == SubSeq(f, 1, Len(f) - 1)
<1>2. g \in Seq(S) /\ Len(g) = Len(f) - 1
  <2>1. \A i \in 1 .. (Len(f) - 1) : f[i] \in S
    BY <1>1
  <2>2. Len(f) - 1 \in Int /\ 1 \in Int
    BY <1>1
  <2>3. g \in Seq(S) /\ Len(g) = IF 1 <= Len(f) - 1 THEN (Len(f) - 1) - 1 + 1 ELSE 0
    BY <2>1, <2>2, SubSeqProperties
  <2> HIDE DEF g
  <2> QED
    BY <1>1, <2>3
<1>3. \A k \in 1 .. (Len(f) - 1) : k \in DOMAIN f /\ g[k] = f[k]
  BY <1>1
<1>4. DOMAIN g = 1 .. (Len(f) - 1)
  BY <1>1, <1>2
<1>5. g = << >> <=> Len(f) = 1
  <2>1. g = << >> => Len(g) = 0
    BY EmptySeq
  <2>2. g # << >> => Len(g) # 0
    BY <1>2, EmptySeq
  <2> HIDE DEF g
  <2> QED
    BY <1>1, <1>2, <2>1, <2>2
<1> QED
  BY <1>1, <1>3, <1>4, <1>5

\* A task switch keeps every variable's type.
LEMMA SwapType ==
  ASSUME TypeOK, NEW old \in Task, NEW next \in DOMAIN all_tasks,
         NEW ret \in ReturnAddresses, swap_task_registers(old, next, ret)
  PROVE  TypeOK'
<1> USE DEF TypeOK, swap_task_registers
<1>0. all_tasks[next] \in Task
  OBVIOUS
<1>1. current_task' \in Task
  <2>0. all_tasks[next].num_times_scheduled \in 0 .. (CounterMod - 1)
    BY <1>0 DEF Task
  <2>1. (all_tasks[next].num_times_scheduled + 1) % CounterMod \in 0 .. (CounterMod - 1)
    BY <2>0, WrapType
  <2> QED
    BY <1>0, <2>1 DEF Task
<1>2. [old EXCEPT !.esp = esp, !.eip = ret, !.eflags = irq_on] \in Task
  BY DEF Task, SpinlockTypeOK
<1>3. all_tasks' \in Seq(Task)
  BY <1>2
<1>4. esp' \in AllStacks /\ pc' \in PC /\ SpinlockTypeOK'
  BY <1>0 DEF Task, PC, SpinlockTypeOK
<1> QED
  BY <1>1, <1>3, <1>4

-----------------------------------------------------------------------------
(* Types.                                                                  *)

\* The places the code can jump to.
LEMMA PCs ==
  /\ "task" \in PC /\ "halt" \in PC /\ "abort" \in PC /\ "sched" \in PC
  /\ "add" \in PC /\ "add_release" \in PC /\ "end" \in PC /\ "tick" \in PC
  /\ "cleanup" \in PC /\ "tick_time" \in PC /\ "tick_sched" \in PC
  /\ "tick_tail" \in PC /\ ReturnAddresses \subseteq PC
  BY DEF PC

\* The lock's member functions keep the lock's types.
LEMMA LockType ==
  ASSUME SpinlockTypeOK,
         acquire_lock \/ release_lock \/ \E got \in BOOLEAN : try_acquire_lock(got)
  PROVE  SpinlockTypeOK'
  BY DEF SpinlockTypeOK, acquire_lock, release_lock, try_acquire_lock,
         test_and_set, disable_interrupts, restore_interrupts

\* Each step keeps every variable's type.
LEMMA TypeStep == IInv /\ Next => TypeOK'
<1> SUFFICES ASSUME IInv, Next PROVE TypeOK'
  OBVIOUS
<1>0. TypeOK
  BY DEF IInv
<1>1. CASE SchedTry \/ SchedStay \/ SchedReturn \/ exit_scheduler_stub
  <2>1. SpinlockTypeOK'
    BY <1>0, <1>1, LockType DEF TypeOK, SchedTry, SchedStay, SchedReturn,
       exit_scheduler_stub
  <2>2. pc' \in PC
    BY <1>1, PCs DEF SchedTry, SchedStay, SchedReturn, exit_scheduler_stub, ReturnTo
  <2>3. UNCHANGED <<current_task, all_tasks, esp, frames, memory, cursor, ticks>>
    BY <1>1 DEF SchedTry, SchedStay, SchedReturn, exit_scheduler_stub
  <2> QED
    BY <1>0, <2>1, <2>2, <2>3 DEF TypeOK
<1>2. CASE SchedSwitch
  <2>1. PICK next \in DOMAIN all_tasks :
           swap_task_registers(current_task, next, "resched")
    BY <1>2 DEF SchedSwitch
  <2> QED
    BY <1>0, <2>1, SwapType DEF TypeOK, ReturnAddresses
<1>3. CASE EndSwitch
  <2>1. PICK next \in DOMAIN all_tasks :
           swap_task_registers([current_task EXCEPT !.state = "finished"],
                               next, "unreachable")
    BY <1>3 DEF EndSwitch
  <2>2. [current_task EXCEPT !.state = "finished"] \in Task
    BY <1>0 DEF TypeOK, Task
  <2> QED
    BY <1>0, <2>1, <2>2, SwapType DEF ReturnAddresses
<1>4. CASE AddCall \/ EndCall \/ TickNewSecond
  <2>1. SpinlockTypeOK'
    BY <1>0, <1>4, LockType DEF TypeOK, AddCall, EndCall, TickNewSecond
  <2>2. pc' \in PC /\ ticks' \in Nat
    BY <1>0, <1>4, PCs DEF TypeOK, AddCall, EndCall, TickNewSecond
  <2>3. UNCHANGED <<current_task, all_tasks, esp, frames, memory, cursor>>
    BY <1>4 DEF AddCall, EndCall, TickNewSecond
  <2> QED
    BY <1>0, <2>1, <2>2, <2>3 DEF TypeOK
<1>5. CASE AddPush
  <2>1. CASE memory = Stacks /\ pc' = "abort" /\ UNCHANGED <<all_tasks, memory>>
    BY <1>0, <1>5, <2>1 DEF TypeOK, SpinlockTypeOK, AddPush, PC, spinlock_vars
  <2>2. CASE \E stack \in Stacks \ memory :
                /\ all_tasks' = Append(all_tasks, create_new_task(stack, "stub"))
                /\ memory' = memory \cup {stack}
                /\ pc' = "add_release"
    <3>1. PICK stack \in Stacks \ memory :
                /\ all_tasks' = Append(all_tasks, create_new_task(stack, "stub"))
                /\ memory' = memory \cup {stack}
                /\ pc' = "add_release"
      BY <2>2
    <3>2. create_new_task(stack, "stub") \in Task
      BY <1>0 DEF create_new_task, Task, TypeOK, SpinlockTypeOK, AllStacks,
         ReturnAddresses
    <3>3. all_tasks' \in Seq(Task) /\ memory' \in SUBSET Stacks
      BY <1>0, <3>1, <3>2 DEF TypeOK
    <3> QED
      BY <1>0, <1>5, <3>1, <3>3 DEF TypeOK, SpinlockTypeOK, AddPush, PC,
         spinlock_vars
  <2> QED
    BY <1>5, <2>1, <2>2 DEF AddPush
<1>6. CASE AddRelease \/ EndHalt \/ CleanupDone
  <2>1. SpinlockTypeOK'
    BY <1>0, <1>6, LockType DEF TypeOK, AddRelease, EndHalt, CleanupDone
  <2>2. pc' \in PC /\ cursor' \in Nat \ {0}
    BY <1>0, <1>6, PCs DEF TypeOK, AddRelease, EndHalt, CleanupDone, ReturnTo
  <2>3. UNCHANGED <<current_task, all_tasks, esp, frames, memory, ticks>>
    BY <1>6 DEF AddRelease, EndHalt, CleanupDone
  <2> QED
    BY <1>0, <2>1, <2>2, <2>3 DEF TypeOK
<1>7. CASE Tick
  <2>1. frames' \in [AllStacks -> Seq(PC)]
    BY <1>0, <1>7 DEF TypeOK, Tick
  <2>2. SpinlockTypeOK'
    BY <1>0, <1>7 DEF TypeOK, SpinlockTypeOK, Tick
  <2>4. ticks' \in Nat /\ pc' \in PC
    BY <1>0, <1>7, PCs DEF TypeOK, Tick
  <2>3. UNCHANGED <<current_task, all_tasks, esp, memory, cursor>>
    BY <1>7 DEF Tick
  <2> QED
    BY <1>0, <2>1, <2>2, <2>3, <2>4 DEF TypeOK
<1>8. CASE CleanupTry
  <2>1. SpinlockTypeOK'
    BY <1>0, <1>8, LockType DEF TypeOK, CleanupTry
  <2>2. pc' \in PC /\ cursor' \in Nat \ {0}
    BY <1>8, PCs DEF CleanupTry
  <2>3. UNCHANGED <<current_task, all_tasks, esp, frames, memory, ticks>>
    BY <1>8 DEF CleanupTry
  <2> QED
    BY <1>0, <2>1, <2>2, <2>3 DEF TypeOK
<1>9. CASE CleanupErase
  <2>1. all_tasks' \in Seq(Task)
    BY <1>0, <1>9, EraseType DEF TypeOK, CleanupErase
  <2>2. SpinlockTypeOK' /\ memory' \in SUBSET Stacks
    BY <1>0, <1>9 DEF TypeOK, CleanupErase, SpinlockTypeOK, spinlock_vars
  <2> QED
    BY <1>0, <1>9, <2>1, <2>2 DEF TypeOK, CleanupErase
<1>10. CASE CleanupSkip \/ TickSameSecond
  <2>1. SpinlockTypeOK' /\ pc' \in PC /\ cursor' \in Nat \ {0}
    BY <1>0, <1>10 DEF TypeOK, SpinlockTypeOK, CleanupSkip, TickSameSecond,
       spinlock_vars, PC
  <2>2. UNCHANGED <<current_task, all_tasks, esp, frames, memory, ticks>>
    BY <1>10 DEF CleanupSkip, TickSameSecond
  <2> QED
    BY <1>0, <2>1, <2>2 DEF TypeOK
<1>11. CASE Iret
  <2>1. frames[esp] \in Seq(PC) /\ frames[esp] # << >>
    BY <1>0, <1>11 DEF TypeOK, Iret, IInv, FrameShape, InTick
  <2>2. frames[esp][Len(frames[esp])] \in PC
    BY <2>1
  <2>3. SubSeq(frames[esp], 1, Len(frames[esp]) - 1) \in Seq(PC)
    BY <2>1
  <2> QED
    BY <1>0, <1>11, <2>2, <2>3 DEF TypeOK, SpinlockTypeOK, Iret
<1>12. CASE Abort
  BY <1>0, <1>12 DEF TypeOK, SpinlockTypeOK, Abort, vars, spinlock_vars, sched_vars
<1> QED
  BY <1>1, <1>2, <1>3, <1>4, <1>5, <1>6, <1>7, <1>8, <1>9, <1>10, <1>11, <1>12
     DEF Next, Sched, AddNewTask, EndCurTask, HandleTick

-----------------------------------------------------------------------------
(* Steps that move the pc and work the lock only.                          *)

\* The existential of DeafTaskHasInterruptedPeer.
Peer == \E i \in DOMAIN all_tasks : Runnable(i) /\ frames[all_tasks[i].esp] # << >>

\* The parts of IInv that speak of the pc and of interrupts.
ControlInv ==
    /\ InterruptState
    /\ FrameShape
    /\ DeafTaskHasInterruptedPeer
    /\ NeverUnreachable
    /\ NeverHaltedDeaf

\* What a quiet step leaves alone, in the words of the invariant.
LEMMA QuietFacts ==
  ASSUME Quiet
  PROVE  /\ InTick' = InTick
         /\ Peer' = Peer
  BY DEF Quiet, InTick, Peer, Runnable

\* Lock attempts keep the control part.
LEMMA TryControl ==
  ASSUME IInv, SchedTry \/ CleanupTry
  PROVE  ControlInv'
<1>1. Quiet
  BY DEF Quiet, SchedTry, CleanupTry
<1>2. InTick' = InTick /\ Peer' = Peer
  BY <1>1, QuietFacts
<1>3. /\ flag' = TRUE
      /\ \/ flag /\ irq_on' = FALSE /\ stored_flags' = irq_on
         \/ ~flag /\ irq_on' = irq_on /\ stored_flags' = stored_flags
  BY DEF SchedTry, CleanupTry, try_acquire_lock, test_and_set,
     disable_interrupts, restore_interrupts
<1>4. InterruptState'
  BY <1>2, <1>3 DEF IInv, InterruptState, FrameShape, SchedTry, CleanupTry,
     try_acquire_lock, test_and_set, ReturnTo, Critical
<1>5. FrameShape'
  BY <1>1, <1>2 DEF IInv, FrameShape, SchedTry, CleanupTry, ReturnTo, Quiet
<1>6. DeafTaskHasInterruptedPeer'
  BY <1>2, <1>3 DEF IInv, InterruptState, FrameShape, DeafTaskHasInterruptedPeer,
     Peer, IrqAfterRelease, SchedTry, CleanupTry, try_acquire_lock, test_and_set,
     ReturnTo, Critical
<1>7. NeverUnreachable' /\ NeverHaltedDeaf'
  BY DEF NeverUnreachable, NeverHaltedDeaf, SchedTry, CleanupTry, ReturnTo
<1> QED
  BY <1>4, <1>5, <1>6, <1>7 DEF ControlInv

\* Taking the lock keeps the control part.
LEMMA AcquireControl ==
  ASSUME IInv, AddCall \/ EndCall \/ TickNewSecond
  PROVE  ControlInv'
<1>1. Quiet
  BY DEF Quiet, AddCall, EndCall, TickNewSecond
<1>2. InTick' = InTick /\ Peer' = Peer
  BY <1>1, QuietFacts
<1>3. flag' = TRUE /\ irq_on' = FALSE /\ stored_flags' = irq_on
  BY DEF AddCall, EndCall, TickNewSecond, acquire_lock, disable_interrupts
<1>4. InterruptState'
  BY <1>2, <1>3 DEF IInv, InterruptState, FrameShape, AddCall, EndCall,
     TickNewSecond, Critical
<1>5. FrameShape'
  BY <1>1, <1>2 DEF IInv, FrameShape, AddCall, EndCall, TickNewSecond, Quiet
<1>6. DeafTaskHasInterruptedPeer'
  BY <1>2, <1>3 DEF IInv, FrameShape, DeafTaskHasInterruptedPeer, Peer,
     IrqAfterRelease, AddCall, EndCall, TickNewSecond, Critical
<1>7. NeverUnreachable' /\ NeverHaltedDeaf'
  BY DEF NeverUnreachable, NeverHaltedDeaf, AddCall, EndCall, TickNewSecond
<1> QED
  BY <1>4, <1>5, <1>6, <1>7 DEF ControlInv

\* Releasing the lock keeps the control part: the idle loop is entered deaf only
\* if no task is left that a tick suspended, and then interrupts come back on.
LEMMA ReleaseControl ==
  ASSUME IInv,
         \/ SchedStay \/ SchedReturn \/ exit_scheduler_stub
         \/ AddRelease \/ EndHalt \/ CleanupDone
  PROVE  ControlInv'
<1> USE DEF SchedStay, SchedReturn, exit_scheduler_stub, AddRelease, EndHalt,
            CleanupDone
<1>1. Quiet
  BY DEF Quiet
<1>2. InTick' = InTick /\ Peer' = Peer
  BY <1>1, QuietFacts
<1>3. flag' = FALSE /\ irq_on' = stored_flags /\ stored_flags' = stored_flags
  BY DEF release_lock, restore_interrupts
<1>4. InterruptState'
  BY <1>2, <1>3 DEF IInv, InterruptState, FrameShape, ReturnTo, Critical
<1>5. FrameShape'
  BY <1>1, <1>2 DEF IInv, FrameShape, ReturnTo, Quiet
<1>6. DeafTaskHasInterruptedPeer'
  BY <1>2, <1>3 DEF IInv, FrameShape, DeafTaskHasInterruptedPeer, Peer,
     IrqAfterRelease, ReturnTo, Critical
<1>7. NeverUnreachable'
  BY DEF NeverUnreachable, ReturnTo
<1>8. NeverHaltedDeaf'
  <2>1. CASE EndHalt
    BY <1>3, <2>1 DEF IInv, FrameShape, DeafTaskHasInterruptedPeer, NoNextTask,
       IrqAfterRelease, Critical, NeverHaltedDeaf
  <2>2. CASE ~EndHalt
    BY <2>2 DEF NeverHaltedDeaf, ReturnTo
  <2> QED BY <2>1, <2>2
<1> QED
  BY <1>4, <1>5, <1>6, <1>7, <1>8 DEF ControlInv

\* So do the steps that do not touch the lock.
LEMMA IdleControl ==
  ASSUME IInv, CleanupSkip \/ TickSameSecond \/ Abort
  PROVE  ControlInv'
<1> USE DEF CleanupSkip, TickSameSecond, Abort, vars, spinlock_vars, sched_vars
<1>1. Quiet
  BY DEF Quiet
<1>2. InTick' = InTick /\ Peer' = Peer
  BY <1>1, QuietFacts
<1>3. UNCHANGED <<flag, irq_on, stored_flags>>
  OBVIOUS
<1>4. InterruptState'
  BY <1>2, <1>3 DEF IInv, InterruptState, FrameShape, Critical
<1>5. FrameShape'
  BY <1>1, <1>2 DEF IInv, FrameShape, Quiet
<1>6. DeafTaskHasInterruptedPeer'
  BY <1>2, <1>3 DEF IInv, FrameShape, DeafTaskHasInterruptedPeer, Peer,
     IrqAfterRelease, Critical
<1>7. NeverUnreachable' /\ NeverHaltedDeaf'
  BY <1>3 DEF IInv, NeverUnreachable, NeverHaltedDeaf
<1> QED
  BY <1>4, <1>5, <1>6, <1>7 DEF ControlInv

-----------------------------------------------------------------------------
(* The interrupt and its return.                                           *)

\* Pushing an interrupt frame keeps the invariant.
LEMMA TickStep ==
  ASSUME IInv, Tick
  PROVE  TaskInv' /\ ControlInv'
<1> USE DEF Tick
<1>0. /\ TypeOK
      /\ frames \in [AllStacks -> Seq(PC)] /\ esp \in AllStacks
      /\ irq_on = TRUE
  BY DEF IInv, TypeOK, SpinlockTypeOK
<1>1. pc \in {"task", "halt", "tick_tail"}
  BY <1>0 DEF IInv, InterruptState
<1>2. /\ frames'[esp] = Append(frames[esp], pc)
      /\ frames'[esp] # << >>
      /\ \A s \in AllStacks : s # esp => frames'[s] = frames[s]
      /\ \A s \in AllStacks : frames[s] # << >> => frames'[s] # << >>
  BY <1>0
<1>3. \A i \in DOMAIN all_tasks : all_tasks[i].esp \in AllStacks
  BY <1>0, TaskFields
<1>4. SavedContexts'
  BY <1>2, <1>3 DEF IInv, SavedContexts, Runnable, StacksOwnedOnce
<1>5. OwnStack' /\ StacksOwnedOnce'
  BY DEF IInv, OwnStack, StacksOwnedOnce, Runnable
<1>6. FramesLive'
  BY <1>2 DEF IInv, FramesLive, Runnable
<1>7. InterruptState'
  BY DEF InterruptState, Critical
<1>8. FrameShape'
  <2>1. ASSUME NEW s \in AllStacks, NEW k \in DOMAIN frames'[s]
        PROVE  frames'[s][k] \in (IF k = 1 THEN {"task", "halt"} ELSE {"tick_tail"})
    <3>1. CASE s # esp
      BY <1>2, <3>1, <2>1 DEF IInv, FrameShape
    <3>2. CASE s = esp /\ k \in DOMAIN frames[esp]
      <4>1. frames'[s][k] = frames[esp][k]
        BY <1>0, <1>2, <3>2
      <4> QED
        BY <1>0, <3>2, <4>1 DEF IInv, FrameShape
    <3>3. CASE s = esp /\ k \notin DOMAIN frames[esp]
      <4>1. frames[esp] \in Seq(PC)
        BY <1>0
      <4>2. k = Len(frames[esp]) + 1 /\ frames'[s][k] = pc
        BY <1>2, <2>1, <3>3, <4>1
      <4>3. CASE frames[esp] = << >>
        BY <1>1, <4>2, <4>3 DEF IInv, FrameShape, InTick
      <4>4. CASE frames[esp] # << >>
        <5>1. k # 1
          BY <4>1, <4>2, <4>4
        <5> QED
          BY <1>1, <4>2, <4>4, <5>1 DEF IInv, FrameShape, InTick
      <4> QED
        BY <4>3, <4>4
    <3> QED
      BY <3>1, <3>2, <3>3
  <2> QED
    BY <1>2, <2>1 DEF FrameShape, InTick
<1>9. DeafTaskHasInterruptedPeer'
  BY <1>2 DEF DeafTaskHasInterruptedPeer, InTick
<1>10. NeverUnreachable' /\ NeverHaltedDeaf'
  BY DEF NeverUnreachable, NeverHaltedDeaf
<1> QED
  BY <1>4, <1>5, <1>6, <1>7, <1>8, <1>9, <1>10 DEF TaskInv, ControlInv

\* Popping one keeps it: the outermost frame returns to a task or to the idle
\* loop, an inner one to the end of the handler it interrupted.
LEMMA IretStep ==
  ASSUME IInv, Iret
  PROVE  TaskInv' /\ ControlInv'
<1> USE DEF Iret
<1>0. /\ TypeOK
      /\ frames \in [AllStacks -> Seq(PC)] /\ esp \in AllStacks
      /\ frames[esp] # << >>
  BY DEF IInv, TypeOK, FrameShape, InTick
<1> DEFINE f == frames[esp]
<1>1. f \in Seq(PC) /\ Len(f) \in Nat \ {0}
  BY <1>0
<1>2. /\ frames'[esp] = SubSeq(f, 1, Len(f) - 1)
      /\ \A s \in AllStacks : s # esp => frames'[s] = frames[s]
  BY <1>0
<1>3. /\ frames'[esp] = << >> <=> Len(f) = 1
      /\ DOMAIN frames'[esp] = 1 .. (Len(f) - 1)
      /\ \A k \in 1 .. (Len(f) - 1) : frames'[esp][k] = f[k]
  BY <1>0, <1>1, <1>2, FrontFacts
<1>4. /\ Len(f) = 1 => pc' \in {"task", "halt"}
      /\ Len(f) # 1 => pc' = "tick_tail"
  <2>1. pc' = f[Len(f)] /\ Len(f) \in DOMAIN f
    BY <1>0, <1>1, FrontFacts
  <2>2. \A k \in DOMAIN f : f[k] \in (IF k = 1 THEN {"task", "halt"} ELSE {"tick_tail"})
    BY <1>0 DEF IInv, FrameShape
  <2> QED
    BY <2>1, <2>2
<1>5. \A i \in DOMAIN all_tasks : all_tasks[i].esp \in AllStacks
  BY <1>0, TaskFields
<1>6. SavedContexts'
  BY <1>2, <1>5 DEF IInv, SavedContexts, Runnable, StacksOwnedOnce
<1>7. OwnStack' /\ StacksOwnedOnce'
  BY DEF IInv, OwnStack, StacksOwnedOnce, Runnable
<1>8. FramesLive'
  BY <1>2 DEF IInv, FramesLive, Runnable
<1>9. InterruptState'
  BY <1>4 DEF InterruptState, Critical
<1>10. FrameShape'
  <2>1. ASSUME NEW s \in AllStacks, NEW k \in DOMAIN frames'[s]
        PROVE  frames'[s][k] \in (IF k = 1 THEN {"task", "halt"} ELSE {"tick_tail"})
    <3>1. CASE s # esp
      BY <1>2, <3>1, <2>1 DEF IInv, FrameShape
    <3>2. CASE s = esp
      <4>1. k \in DOMAIN f /\ frames'[s][k] = f[k]
        BY <1>1, <1>3, <2>1, <3>2
      <4> QED
        BY <1>0, <4>1 DEF IInv, FrameShape
    <3> QED BY <3>1, <3>2
  <2>2. esp' = esp /\ (InTick' <=> Len(f) # 1)
    BY <1>3 DEF InTick
  <2> QED
    BY <1>4, <2>1, <2>2 DEF FrameShape
<1>11. DeafTaskHasInterruptedPeer'
  BY <1>4 DEF DeafTaskHasInterruptedPeer, IrqAfterRelease, Critical
<1>12. NeverUnreachable' /\ NeverHaltedDeaf'
  BY <1>4 DEF NeverUnreachable, NeverHaltedDeaf
<1> QED
  BY <1>6, <1>7, <1>8, <1>9, <1>10, <1>11, <1>12 DEF TaskInv, ControlInv

-----------------------------------------------------------------------------
(* The task switch.                                                        *)

\* A switch, from sched (the old task stays runnable) or from end_cur_task (it
\* does not, and no tick is open on its stack), keeps the invariant.
LEMMA SwitchStep ==
  ASSUME IInv, pc \in {"sched", "end"},
         NEW old \in Task, old.allocation = current_task.allocation,
         NEW ret \in ReturnAddresses,
         \/ old.state = "runnable" /\ ret = "resched"
         \/ old.state = "finished" /\ ~InTick,
         NEW next \in DOMAIN all_tasks, find_next_task(next),
         swap_task_registers(old, next, ret)
  PROVE  TaskInv' /\ ControlInv'
<1> DEFINE n == all_tasks[next]
           o == [old EXCEPT !.esp = esp, !.eip = ret, !.eflags = irq_on]
<1>0. /\ TypeOK
      /\ all_tasks \in Seq(Task) /\ esp \in AllStacks
      /\ flag = TRUE /\ irq_on = FALSE
  BY DEF IInv, TypeOK, SpinlockTypeOK, InterruptState, Critical
<1>1. /\ n \in Task /\ n.esp \in AllStacks /\ n.state = "runnable"
      /\ n.eflags = FALSE /\ n.eip \in {"stub", "resched"}
      /\ n.eip = "stub" => frames[n.esp] = << >>
      /\ n.esp # esp
      /\ n.esp \in {n.allocation, BootStack}
  <2>1. n \in Task /\ n.esp \in AllStacks /\ n.eflags \in BOOLEAN
    BY <1>0, TaskFields DEF Task
  <2>2. n.state = "runnable"
    BY DEF find_next_task, Runnable
  <2> QED
    BY <2>1, <2>2 DEF IInv, SavedContexts, Runnable, StacksOwnedOnce, OwnStack
<1>2. /\ o \in Task
      /\ o.esp = esp /\ o.eip = ret /\ o.eflags = FALSE
      /\ o.state = old.state /\ o.allocation = current_task.allocation
  BY <1>0 DEF Task
<1>3. /\ DOMAIN all_tasks' = DOMAIN all_tasks
      /\ all_tasks'[next] = o
      /\ \A i \in DOMAIN all_tasks : i # next => all_tasks'[i] = all_tasks[i]
  BY <1>0 DEF swap_task_registers
<1>4. current_task'.allocation = n.allocation /\ current_task'.state = "runnable"
  BY <1>1 DEF swap_task_registers, Task
<1>5. /\ esp' = n.esp /\ pc' = n.eip /\ irq_on' = FALSE
      /\ UNCHANGED <<flag, stored_flags, frames, memory>>
  BY <1>1 DEF swap_task_registers
<1> HIDE DEF n, o
<1>6. SavedContexts'
  BY <1>2, <1>3, <1>5 DEF IInv, SavedContexts, Runnable
<1>7. OwnStack'
  BY <1>1, <1>2, <1>3, <1>4, <1>5 DEF IInv, OwnStack, Runnable
<1>8. StacksOwnedOnce'
  <2>1. memory' = {current_task'.allocation}
                    \cup {all_tasks'[i].allocation : i \in DOMAIN all_tasks'}
    BY <1>2, <1>3, <1>4, <1>5 DEF IInv, StacksOwnedOnce, n
  <2>2. \A i \in DOMAIN all_tasks' :
          /\ all_tasks'[i].allocation # current_task'.allocation
          /\ Runnable(i)' => all_tasks'[i].esp # esp'
    BY <1>1, <1>2, <1>3, <1>4, <1>5 DEF IInv, StacksOwnedOnce, Runnable, n
  <2>3. \A i, j \in DOMAIN all_tasks' : i # j =>
          /\ all_tasks'[i].allocation # all_tasks'[j].allocation
          /\ (Runnable(i)' /\ Runnable(j)') => all_tasks'[i].esp # all_tasks'[j].esp
    BY <1>1, <1>2, <1>3, <1>5 DEF IInv, StacksOwnedOnce, Runnable
  <2> QED
    BY <2>1, <2>2, <2>3 DEF StacksOwnedOnce, Runnable
<1>9. FramesLive'
  <2> SUFFICES ASSUME NEW s \in AllStacks, frames[s] # << >>, s # n.esp
               PROVE  \E i \in DOMAIN all_tasks' :
                         Runnable(i)' /\ all_tasks'[i].esp = s
    BY <1>5 DEF FramesLive, Runnable
  <2>1. CASE s = esp
    BY <2>1, <1>2, <1>3 DEF InTick, Runnable
  <2>2. CASE s # esp
    <3>1. PICK i \in DOMAIN all_tasks : Runnable(i) /\ all_tasks[i].esp = s
      BY <2>2 DEF IInv, FramesLive
    <3>2. i # next
      BY <3>1 DEF n
    <3> QED
      BY <3>1, <3>2, <1>3 DEF Runnable
  <2> QED BY <2>1, <2>2
<1>10. InterruptState'
  BY <1>0, <1>1, <1>5 DEF InterruptState, Critical
<1>11. FrameShape'
  BY <1>1, <1>5 DEF IInv, FrameShape, InTick
<1>12. DeafTaskHasInterruptedPeer'
  <2> SUFFICES ASSUME frames[n.esp] = << >>, ~stored_flags
               PROVE  \E i \in DOMAIN all_tasks' :
                         Runnable(i)' /\ frames[all_tasks'[i].esp] # << >>
    BY <1>1, <1>5 DEF DeafTaskHasInterruptedPeer, InTick, IrqAfterRelease,
       Critical, Runnable
  <2>1. CASE InTick
    BY <2>1, <1>2, <1>3 DEF InTick, Runnable
  <2>2. CASE ~InTick
    <3>1. PICK i \in DOMAIN all_tasks :
             Runnable(i) /\ frames[all_tasks[i].esp] # << >>
      BY <2>2 DEF IInv, DeafTaskHasInterruptedPeer, IrqAfterRelease, Critical
    <3>2. i # next
      BY <3>1 DEF n
    <3> QED
      BY <3>1, <3>2, <1>3 DEF Runnable
  <2> QED BY <2>1, <2>2
<1>13. NeverUnreachable' /\ NeverHaltedDeaf'
  BY <1>1, <1>5 DEF NeverUnreachable, NeverHaltedDeaf
<1> QED
  BY <1>6, <1>7, <1>8, <1>9, <1>10, <1>11, <1>12, <1>13 DEF TaskInv, ControlInv

-----------------------------------------------------------------------------
(* Adding and erasing tasks.                                               *)

\* Appending a task on a free stack keeps the invariant, and so does aborting.
LEMMA AddStep ==
  ASSUME IInv, AddPush
  PROVE  TaskInv' /\ ControlInv'
<1>0. /\ TypeOK
      /\ all_tasks \in Seq(Task) /\ esp \in AllStacks /\ memory \subseteq Stacks
      /\ pc = "add" /\ flag = TRUE /\ irq_on = FALSE
      /\ UNCHANGED <<flag, stored_flags, irq_on, current_task, esp, frames>>
  BY DEF IInv, TypeOK, SpinlockTypeOK, InterruptState, Critical, AddPush,
     spinlock_vars
<1>1. CASE memory = Stacks /\ pc' = "abort" /\ UNCHANGED <<all_tasks, memory>>
  <2>1. Quiet
    BY <1>0, <1>1 DEF Quiet
  <2>2. TaskInv'
    BY <2>1, QuietKeepsTasks DEF IInv, TaskInv
  <2>3. InterruptState' /\ NeverUnreachable' /\ NeverHaltedDeaf'
        /\ DeafTaskHasInterruptedPeer'
    BY <1>0, <1>1 DEF InterruptState, NeverUnreachable, NeverHaltedDeaf,
       DeafTaskHasInterruptedPeer, Critical
  <2>4. FrameShape'
    BY <1>0, <1>1 DEF IInv, FrameShape, InTick
  <2> QED
    BY <2>2, <2>3, <2>4 DEF ControlInv
<1>2. CASE \E stack \in Stacks \ memory :
              /\ all_tasks' = Append(all_tasks, create_new_task(stack, "stub"))
              /\ memory' = memory \cup {stack}
              /\ pc' = "add_release"
  <2>1. PICK stack \in Stacks \ memory :
              /\ all_tasks' = Append(all_tasks, create_new_task(stack, "stub"))
              /\ memory' = memory \cup {stack}
              /\ pc' = "add_release"
    BY <1>2
  <2> DEFINE t == create_new_task(stack, "stub")
             L == Len(all_tasks)
  <2>2. /\ t.state = "runnable" /\ t.allocation = stack /\ t.esp = stack
        /\ t.eip = "stub" /\ t.eflags = FALSE
    BY <1>0 DEF create_new_task
  <2>3. /\ L \in Nat
        /\ DOMAIN all_tasks = 1 .. L
        /\ DOMAIN all_tasks' = 1 .. (L + 1)
        /\ all_tasks'[L + 1] = t
        /\ \A i \in 1 .. L : all_tasks'[i] = all_tasks[i]
    BY <1>0, <2>1
  <2> HIDE DEF t, L
  <2>4. \A i \in DOMAIN all_tasks' : i \in DOMAIN all_tasks \/ i = L + 1
    BY <2>3
  <2>5. \A i \in DOMAIN all_tasks :
           /\ i \in DOMAIN all_tasks' /\ i # L + 1 /\ all_tasks'[i] = all_tasks[i]
           /\ all_tasks[i].allocation \in memory
    BY <2>3 DEF IInv, StacksOwnedOnce
  <2>6. L + 1 \in DOMAIN all_tasks'
    BY <2>3
  <2>7. /\ stack \in Stacks /\ stack \notin memory /\ stack # BootStack
        /\ current_task.allocation \in memory
        /\ esp # stack
        /\ \A i \in DOMAIN all_tasks : Runnable(i) => all_tasks[i].esp # stack
    BY <2>1, <2>5 DEF IInv, StacksOwnedOnce, OwnStack
  <2>8. frames[stack] = << >>
    BY <2>7 DEF IInv, FramesLive, AllStacks
  <2>9. SavedContexts'
    BY <1>0, <2>2, <2>3, <2>4, <2>5, <2>8 DEF IInv, SavedContexts, Runnable
  <2>10. OwnStack'
    BY <1>0, <2>2, <2>3, <2>4, <2>5 DEF IInv, OwnStack, Runnable
  <2>11. StacksOwnedOnce'
    <3>1. memory' = {current_task'.allocation}
                     \cup {all_tasks'[i].allocation : i \in DOMAIN all_tasks'}
      BY <1>0, <2>1, <2>2, <2>3, <2>4, <2>5, <2>6 DEF IInv, StacksOwnedOnce
    <3>2. \A i \in DOMAIN all_tasks' :
            /\ all_tasks'[i].allocation # current_task'.allocation
            /\ Runnable(i)' => all_tasks'[i].esp # esp'
      BY <1>0, <2>2, <2>3, <2>4, <2>5, <2>7 DEF IInv, StacksOwnedOnce, Runnable
    <3>3. \A i, j \in DOMAIN all_tasks' : i # j =>
            /\ all_tasks'[i].allocation # all_tasks'[j].allocation
            /\ (Runnable(i)' /\ Runnable(j)') => all_tasks'[i].esp # all_tasks'[j].esp
      BY <2>2, <2>3, <2>4, <2>5, <2>7 DEF IInv, StacksOwnedOnce, Runnable
    <3> QED
      BY <3>1, <3>2, <3>3 DEF StacksOwnedOnce, Runnable
  <2>12. FramesLive'
    BY <1>0, <2>5 DEF IInv, FramesLive, Runnable
  <2>13. InterruptState' /\ FrameShape'
    BY <1>0, <2>1 DEF IInv, InterruptState, FrameShape, InTick, Critical
  <2>14. DeafTaskHasInterruptedPeer'
    BY <1>0, <2>1, <2>5 DEF IInv, DeafTaskHasInterruptedPeer, InTick,
       IrqAfterRelease, Critical, Runnable
  <2>15. NeverUnreachable' /\ NeverHaltedDeaf'
    BY <2>1 DEF NeverUnreachable, NeverHaltedDeaf
  <2> QED
    BY <2>9, <2>10, <2>11, <2>12, <2>13, <2>14, <2>15 DEF TaskInv, ControlInv
<1> QED
  BY <1>1, <1>2 DEF AddPush

\* Freeing a finished task's stack and erasing the task keeps the invariant:
\* nobody runs on that stack or will, and no interrupt frame lies on it.
LEMMA EraseStep ==
  ASSUME IInv, CleanupErase
  PROVE  TaskInv' /\ ControlInv'
<1> DEFINE c == cursor
           a == all_tasks[cursor].allocation
           L == Len(all_tasks)
           From(j) == IF j < c THEN j ELSE j + 1
<1>0. /\ TypeOK
      /\ all_tasks \in Seq(Task) /\ pc = "cleanup"
      /\ c \in DOMAIN all_tasks /\ ~Runnable(c)
      /\ memory' = memory \ {a}
      /\ all_tasks' = erase(all_tasks, c)
      /\ UNCHANGED <<flag, stored_flags, irq_on, current_task, pc, esp, frames>>
  BY DEF IInv, TypeOK, CleanupErase, spinlock_vars
<1>1. /\ L \in Nat /\ DOMAIN all_tasks = 1 .. L
      /\ DOMAIN all_tasks' = 1 .. (L - 1)
      /\ \A j \in 1 .. (L - 1) :
            all_tasks'[j] = IF j < c THEN all_tasks[j] ELSE all_tasks[j + 1]
  <2>1. L \in Nat /\ DOMAIN all_tasks = 1 .. L
    BY <1>0
  <2>2. /\ DOMAIN erase(all_tasks, c) = 1 .. (L - 1)
        /\ \A j \in 1 .. (L - 1) :
             erase(all_tasks, c)[j] = IF j < c THEN all_tasks[j] ELSE all_tasks[j + 1]
    <3> HIDE DEF c
    <3> QED BY <1>0, EraseType
  <2> HIDE DEF c, L
  <2> QED
    BY <1>0, <2>1, <2>2
<1>2. \A j \in DOMAIN all_tasks' :
         From(j) \in DOMAIN all_tasks /\ From(j) # c
         /\ all_tasks'[j] = all_tasks[From(j)]
  BY <1>0, <1>1
<1>3. \A i, j \in DOMAIN all_tasks' : i # j => From(i) # From(j)
  BY <1>0, <1>1
<1>4. \A k \in DOMAIN all_tasks : k # c =>
         \E j \in DOMAIN all_tasks' : all_tasks'[j] = all_tasks[k]
  BY <1>0, EraseKeeps
<1> HIDE DEF From, L, a, c
<1>5. SavedContexts'
  BY <1>0, <1>2 DEF IInv, SavedContexts, Runnable
<1>6. OwnStack'
  BY <1>0, <1>2 DEF IInv, OwnStack, Runnable
<1>7. StacksOwnedOnce'
  <2>1. memory' = {current_task'.allocation}
                   \cup {all_tasks'[i].allocation : i \in DOMAIN all_tasks'}
    <3>1. \A k \in DOMAIN all_tasks : k # c => all_tasks[k].allocation # a
      BY <1>0 DEF IInv, StacksOwnedOnce, a, c
    <3>2. current_task.allocation # a
      BY <1>0 DEF IInv, StacksOwnedOnce, a, c
    <3>3. memory = {current_task.allocation}
                     \cup {all_tasks[i].allocation : i \in DOMAIN all_tasks}
      BY DEF IInv, StacksOwnedOnce
    <3>4. a = all_tasks[c].allocation
      BY DEF a, c
    <3> QED
      BY <1>0, <1>2, <1>4, <3>1, <3>2, <3>3, <3>4
  <2>2. \A i \in DOMAIN all_tasks' :
          /\ all_tasks'[i].allocation # current_task'.allocation
          /\ Runnable(i)' => all_tasks'[i].esp # esp'
    BY <1>0, <1>2 DEF IInv, StacksOwnedOnce, Runnable
  <2>3. \A i, j \in DOMAIN all_tasks' : i # j =>
          /\ all_tasks'[i].allocation # all_tasks'[j].allocation
          /\ (Runnable(i)' /\ Runnable(j)') => all_tasks'[i].esp # all_tasks'[j].esp
    BY <1>2, <1>3 DEF IInv, StacksOwnedOnce, Runnable
  <2> QED
    BY <2>1, <2>2, <2>3 DEF StacksOwnedOnce, Runnable
<1>8. FramesLive'
  <2> SUFFICES ASSUME NEW s \in AllStacks, frames[s] # << >>, s # esp
               PROVE  \E j \in DOMAIN all_tasks' :
                         Runnable(j)' /\ all_tasks'[j].esp = s
    BY <1>0 DEF FramesLive, Runnable
  <2>1. PICK k \in DOMAIN all_tasks : Runnable(k) /\ all_tasks[k].esp = s
    BY DEF IInv, FramesLive
  <2>2. PICK j \in DOMAIN all_tasks' : all_tasks'[j] = all_tasks[k]
    BY <1>0, <1>4, <2>1
  <2> QED
    BY <2>1, <2>2 DEF Runnable
<1>9. InterruptState' /\ FrameShape' /\ NeverUnreachable' /\ NeverHaltedDeaf'
  BY <1>0 DEF IInv, InterruptState, FrameShape, NeverUnreachable,
     NeverHaltedDeaf, InTick
<1>10. DeafTaskHasInterruptedPeer'
  BY <1>0 DEF IInv, FrameShape, DeafTaskHasInterruptedPeer, InTick
<1> QED
  BY <1>5, <1>6, <1>7, <1>8, <1>9, <1>10 DEF TaskInv, ControlInv

-----------------------------------------------------------------------------
(* The theorems.                                                           *)

\* IInv is inductive: one case per action of the scheduler.
LEMMA IInvStep == IInv /\ [Next]_vars => IInv'
<1> SUFFICES ASSUME IInv, [Next]_vars PROVE IInv'
  OBVIOUS
<1> USE DEF TaskInv, ControlInv
<1>1. CASE UNCHANGED vars
  BY <1>1 DEF IInv, vars, spinlock_vars, sched_vars, TypeOK, SpinlockTypeOK,
     InterruptState, FrameShape, SavedContexts, OwnStack, StacksOwnedOnce,
     FramesLive, DeafTaskHasInterruptedPeer, NeverUnreachable, NeverHaltedDeaf,
     InTick, Runnable, IrqAfterRelease
<1>2. CASE Next
  <2>0. TypeOK'
    BY <1>2, TypeStep
  <2>1. SUFFICES TaskInv' /\ ControlInv'
    BY <2>0 DEF IInv
  <2>2. CASE \/ SchedTry \/ CleanupTry \/ AddCall \/ EndCall \/ TickNewSecond
             \/ SchedStay \/ SchedReturn \/ exit_scheduler_stub \/ AddRelease
             \/ EndHalt \/ CleanupDone \/ CleanupSkip \/ TickSameSecond \/ Abort
    <3>1. Quiet
      BY <2>2 DEF Quiet, SchedTry, CleanupTry, AddCall, EndCall, TickNewSecond,
         SchedStay, SchedReturn, exit_scheduler_stub, AddRelease, EndHalt,
         CleanupDone, CleanupSkip, TickSameSecond, Abort, vars, sched_vars
    <3>2. TaskInv'
      BY <3>1, QuietKeepsTasks DEF IInv
    <3>3. ControlInv'
      BY <2>2, TryControl, AcquireControl, ReleaseControl, IdleControl
    <3> QED
      BY <3>2, <3>3
  <2>3. CASE SchedSwitch
    <3>1. PICK next \in DOMAIN all_tasks :
             /\ find_next_task(next)
             /\ swap_task_registers(current_task, next, "resched")
      BY <2>3 DEF SchedSwitch
    <3>2. /\ pc \in {"sched", "end"} /\ current_task \in Task
          /\ current_task.state = "runnable" /\ "resched" \in ReturnAddresses
      BY <2>3 DEF SchedSwitch, IInv, TypeOK, OwnStack, ReturnAddresses
    <3> QED
      BY <3>1, <3>2, SwitchStep
  <2>4. CASE EndSwitch
    <3> DEFINE old == [current_task EXCEPT !.state = "finished"]
    <3>1. PICK next \in DOMAIN all_tasks :
             /\ find_next_task(next)
             /\ swap_task_registers(old, next, "unreachable")
      BY <2>4 DEF EndSwitch
    <3>2. old \in Task /\ old.state = "finished"
          /\ old.allocation = current_task.allocation
      BY DEF IInv, TypeOK, Task
    <3>3. pc \in {"sched", "end"} /\ ~InTick /\ "unreachable" \in ReturnAddresses
      BY <2>4 DEF EndSwitch, IInv, FrameShape, ReturnAddresses
    <3> HIDE DEF old
    <3> QED
      BY <3>1, <3>2, <3>3, SwitchStep
  <2>5. CASE Tick
    BY <2>5, TickStep
  <2>6. CASE Iret
    BY <2>6, IretStep
  <2>7. CASE AddPush
    BY <2>7, AddStep
  <2>8. CASE CleanupErase
    BY <2>8, EraseStep
  <2> QED
    BY <1>2, <2>2, <2>3, <2>4, <2>5, <2>6, <2>7, <2>8
       DEF Next, Sched, AddNewTask, EndCurTask, HandleTick
<1> QED
  BY <1>1, <1>2

\* The scheduler keeps its inductive invariant.
THEOREM SchedulerInvariant == Spec => []IInv
  BY InitIInv, IInvStep, PTL DEF Spec

\* Every variable keeps its type.
THEOREM SchedulerTypeCorrect == Spec => []TypeOK
<1>1. IInv => TypeOK
  BY DEF IInv
<1> QED
  BY <1>1, SchedulerInvariant, PTL

\* editing_task_list excludes: no tick interrupts its critical section.
THEOREM SchedulerMutualExclusion == Spec => []MutualExclusion
<1>1. IInv => MutualExclusion
  <2> SUFFICES ASSUME IInv, NEW s \in AllStacks, NEW k \in DOMAIN frames[s]
               PROVE  frames[s][k] \notin Critical
    BY DEF MutualExclusion
  <2>1. frames[s][k] \in {"task", "halt", "tick_tail"}
    BY DEF IInv, FrameShape
  <2> QED
    BY <2>1 DEF Critical
<1> QED
  BY <1>1, SchedulerInvariant, PTL

\* Whoever is inside the critical section holds the lock, interrupts off.
THEOREM SchedulerLockHeld == Spec => []LockHeldWhenCritical
<1>1. IInv => LockHeldWhenCritical
  BY DEF IInv, InterruptState, LockHeldWhenCritical, Critical
<1> QED
  BY <1>1, SchedulerInvariant, PTL

\* No stack in use, or to be used again, is ever freed.
THEOREM SchedulerNoFreedStack == Spec => []NoFreedStackInUse
<1>1. IInv => NoFreedStackInUse
  <2> SUFFICES ASSUME IInv PROVE NoFreedStackInUse
    OBVIOUS
  <2>1. /\ esp \in memory \cup {BootStack}
        /\ \A i \in DOMAIN all_tasks :
              Runnable(i) => all_tasks[i].esp \in memory \cup {BootStack}
    BY DEF IInv, OwnStack, StacksOwnedOnce
  <2>2. \A s \in Stacks \ memory : frames[s] = << >>
    BY <2>1 DEF IInv, FramesLive, AllStacks
  <2> QED
    BY <2>1, <2>2 DEF NoFreedStackInUse
<1> QED
  BY <1>1, SchedulerInvariant, PTL

\* No stack is leaked or owned twice.
THEOREM SchedulerStacksOwnedOnce == Spec => []StacksOwnedOnce
<1>1. IInv => StacksOwnedOnce
  BY DEF IInv
<1> QED
  BY <1>1, SchedulerInvariant, PTL

\* The idle loop is never entered with interrupts off.
THEOREM SchedulerNeverHaltedDeaf == Spec => []NeverHaltedDeaf
<1>1. IInv => NeverHaltedDeaf
  BY DEF IInv
<1> QED
  BY <1>1, SchedulerInvariant, PTL

\* The two places the code declares impossible are never reached.
THEOREM SchedulerNeverUnreachable == Spec => []NeverUnreachable
<1>1. IInv => NeverUnreachable
  BY DEF IInv
<1> QED
  BY <1>1, SchedulerInvariant, PTL

=============================================================================
