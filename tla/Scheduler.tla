------------------------------ MODULE Scheduler -----------------------------
(***************************************************************************)
(* The kernel's task scheduler (kernel/kernel/scheduler.cpp) on one i386   *)
(* CPU, with the timer interrupt that preempts it.                         *)
(*                                                                         *)
(* One thread of control executes: `pc' is where it is and `esp' the stack *)
(* it runs on.  A timer interrupt can arrive at any step whose interrupts  *)
(* are enabled; it pushes the interrupted pc on the running stack (frames) *)
(* and runs scheduler_handle_tick.  sched and end_cur_task switch stacks.  *)
(* A section between taking and releasing editing_task_list is cut into    *)
(* several steps, so that nothing but the interrupt flag keeps a tick out. *)
(*                                                                         *)
(* A task's body is whatever its function does: at "task" it may compute,  *)
(* call sched, add_new_task or end_cur_task, in any order.                 *)
(***************************************************************************)
EXTENDS Spinlock, Naturals, Sequences, FiniteSets

CONSTANTS
    Stacks,          \* the 16 KiB areas get_mem can hand out as task stacks
    BootStack,       \* the stack kernel_main was entered on
    InitialStack,    \* the (never used) stack init_scheduler allocates
    CounterMod,      \* num_times_scheduled is a size_t: it wraps at this value
    TicksPerSecond,  \* timer ticks between two "It has been" tasks
    StackDepth       \* bound: interrupt frames one stack can hold

ASSUME StacksAssumption == InitialStack \in Stacks /\ BootStack \notin Stacks
ASSUME CounterAssumption == CounterMod \in Nat \ {0}
ASSUME TicksAssumption == TicksPerSecond \in Nat \ {0}
ASSUME DepthAssumption == StackDepth \in Nat

VARIABLES
    current_task,    \* the static Task describing the running task
    all_tasks,       \* the KVector of every other task
    pc,              \* where the CPU executes
    esp,             \* the stack it executes on
    frames,          \* per stack, the pcs interrupted on it, outermost first
    memory,          \* the stacks that are allocated
    cursor,          \* cleanup_finished_tasks' iterator
    ticks            \* ticks since scheduler_handle_tick last saw a new second

sched_vars == <<current_task, all_tasks, pc, esp, frames, memory, cursor, ticks>>
vars == <<spinlock_vars, sched_vars>>

-----------------------------------------------------------------------------
(* Types.                                                                  *)

AllStacks == Stacks \cup {BootStack}

\* Return addresses a saved context can hold: exit_scheduler_stub for a task
\* that never ran, the function init_scheduler installs for the initial task,
\* the instruction after sched's swap_task_registers, and the one after
\* end_cur_task's, which the code declares unreachable.
ReturnAddresses == {"stub", "initial", "resched", "unreachable"}

Task == [state : {"runnable", "finished"},
         num_times_scheduled : 0 .. (CounterMod - 1),
         allocation : Stacks,
         esp : AllStacks, eip : ReturnAddresses, eflags : BOOLEAN]

\* Where a timer interrupt can find the CPU.
PC == {"task", "halt", "abort",
       "sched", "add", "add_release", "end",
       "tick", "cleanup", "tick_time", "tick_sched", "tick_tail"}
      \cup ReturnAddresses

\* The code between taking editing_task_list and releasing it.
Critical == {"sched", "add", "add_release", "end", "cleanup", "stub",
             "resched"}

-----------------------------------------------------------------------------

\* Bug: new tasks start with interrupts on, before the lock is released.
create_new_task_enabled(stack, start) ==
    [state |-> "runnable", num_times_scheduled |-> 0, allocation |-> stack,
     esp |-> stack, eip |-> start, eflags |-> TRUE]

\* create_new_task: a context that enters exit_scheduler_stub on its own stack
\* with the creator's interrupt flag.
create_new_task(stack, start) ==
    [state |-> "runnable", num_times_scheduled |-> 0, allocation |-> stack,
     esp |-> stack, eip |-> start, eflags |-> irq_on]

\* After init_scheduler and init_timers, kernel_main goes on as a task.
Init ==
    /\ SpinlockInit
    /\ irq_on = TRUE
    /\ current_task = create_new_task(InitialStack, "initial")
    /\ all_tasks = << >>
    /\ pc = "task"
    /\ esp = BootStack
    /\ frames = [s \in AllStacks |-> << >>]
    /\ memory = {InitialStack}
    /\ cursor = 1
    /\ ticks = 0

-----------------------------------------------------------------------------
(* Helpers.                                                                *)

Runnable(i) == all_tasks[i].state = "runnable"

\* find_next_task walks the vector and keeps the first of the runnable tasks
\* that were scheduled least; it returns nullptr when there is none.
find_next_task(next) ==
    /\ next \in DOMAIN all_tasks
    /\ Runnable(next)
    /\ \A j \in DOMAIN all_tasks :
          Runnable(j) =>
             \/ all_tasks[next].num_times_scheduled
                   < all_tasks[j].num_times_scheduled
             \/ /\ all_tasks[next].num_times_scheduled
                      = all_tasks[j].num_times_scheduled
                /\ next <= j

NoNextTask == \A i \in DOMAIN all_tasks : ~Runnable(i)

\* Bug: the element behind i is dropped instead.
erase_behind(s, i) ==
    [j \in 1 .. (Len(s) - 1) |-> IF j <= i THEN s[j] ELSE s[j + 1]]

\* KVector::erase: drop element i and close the gap.
erase(s, i) == [j \in 1 .. (Len(s) - 1) |-> IF j < i THEN s[j] ELSE s[j + 1]]

\* Code reached both from a task and from the tick handler returns to its
\* caller: the handler's code is what runs on a stack with interrupt frames.
InTick == frames[esp] # << >>
ReturnTo(task, tick) == pc' = IF InTick THEN tick ELSE task

\* std::swap(current_task, *next_task), the count, then swap_task_registers:
\* save the old context in the slot the next task leaves, load the next one.
swap_task_registers(old, next, return_address) ==
    /\ current_task' = [all_tasks[next] EXCEPT
                          !.num_times_scheduled = (@ + 1) % CounterMod]
    /\ all_tasks' = [all_tasks EXCEPT
                       ![next] = [old EXCEPT !.esp = esp,
                                             !.eip = return_address,
                                             !.eflags = irq_on]]
    /\ esp' = all_tasks[next].esp
    /\ pc' = all_tasks[next].eip
    /\ irq_on' = all_tasks[next].eflags
    /\ UNCHANGED <<flag, stored_flags, frames, memory, cursor, ticks>>

-----------------------------------------------------------------------------
(* sched                                                                   *)

\* The lock attempt at the head of sched, from a task or from the tick.
SchedTry ==
    /\ pc \in {"task", "tick_sched"}
    /\ \E got \in BOOLEAN :
          /\ try_acquire_lock(got)
          /\ IF got THEN pc' = "sched" ELSE ReturnTo("task", "tick_tail")
    /\ UNCHANGED <<current_task, all_tasks, esp, frames, memory, cursor, ticks>>

SchedSwitch ==
    /\ pc = "sched"
    /\ \E next \in DOMAIN all_tasks :
          /\ find_next_task(next)
          /\ swap_task_registers(current_task, next, "resched")

\* Nobody else can run: release and keep running this task.
SchedStay ==
    /\ pc = "sched"
    /\ NoNextTask
    /\ release_lock
    /\ ReturnTo("task", "tick_tail")
    /\ UNCHANGED <<current_task, all_tasks, esp, frames, memory, cursor, ticks>>

\* Rescheduled: release the lock that the task before us took.
SchedReturn ==
    /\ pc = "resched"
    /\ release_lock
    /\ ReturnTo("task", "tick_tail")
    /\ UNCHANGED <<current_task, all_tasks, esp, frames, memory, cursor, ticks>>

\* First run of a task: exit_scheduler_stub releases, then calls its function.
exit_scheduler_stub ==
    /\ pc = "stub"
    /\ release_lock
    /\ pc' = "task"
    /\ UNCHANGED <<current_task, all_tasks, esp, frames, memory, cursor, ticks>>

-----------------------------------------------------------------------------
(* add_new_task                                                            *)

\* Called by a task's own code; the tick calls it too (TickNewSecond).
AddCall ==
    /\ pc = "task"
    /\ acquire_lock
    /\ pc' = "add"
    /\ UNCHANGED <<current_task, all_tasks, esp, frames, memory, cursor, ticks>>

\* create_new_task and push_back; create_new_stack aborts without memory.
AddPush ==
    /\ pc = "add"
    /\ \/ /\ \E stack \in Stacks \ memory :
                /\ all_tasks' = Append(all_tasks, create_new_task(stack, "stub"))
                /\ memory' = memory \cup {stack}
          /\ pc' = "add_release"
       \/ /\ memory = Stacks
          /\ pc' = "abort"
          /\ UNCHANGED <<all_tasks, memory>>
    /\ UNCHANGED <<spinlock_vars, current_task, esp, frames, cursor, ticks>>

AddRelease ==
    /\ pc = "add_release"
    /\ release_lock
    /\ ReturnTo("task", "tick_sched")
    /\ UNCHANGED <<current_task, all_tasks, esp, frames, memory, cursor, ticks>>

-----------------------------------------------------------------------------
(* end_cur_task                                                            *)

EndCall ==
    /\ pc = "task"
    /\ acquire_lock
    /\ pc' = "end"
    /\ UNCHANGED <<current_task, all_tasks, esp, frames, memory, cursor, ticks>>

\* Bug: the task that ends is not marked finished.
EndSwitchRunnable ==
    /\ pc = "end"
    /\ \E next \in DOMAIN all_tasks :
          /\ find_next_task(next)
          /\ swap_task_registers(current_task, next, "unreachable")

EndSwitch ==
    /\ pc = "end"
    /\ \E next \in DOMAIN all_tasks :
          /\ find_next_task(next)
          /\ swap_task_registers([current_task EXCEPT !.state = "finished"],
                                 next, "unreachable")

\* Bug: the idle loop is entered without releasing the lock.
EndHaltLocked ==
    /\ pc = "end"
    /\ NoNextTask
    /\ pc' = "halt"
    /\ UNCHANGED <<spinlock_vars, current_task, all_tasks, esp, frames, memory,
                   cursor, ticks>>

\* No other task: this one stays runnable and becomes the idle loop in halt().
EndHalt ==
    /\ pc = "end"
    /\ NoNextTask
    /\ release_lock
    /\ pc' = "halt"
    /\ UNCHANGED <<current_task, all_tasks, esp, frames, memory, cursor, ticks>>

-----------------------------------------------------------------------------
(* The timer interrupt: isr_stub_32, PIT_isr_handler, scheduler_handle_tick *)

\* An interrupt gate: the interrupted context is pushed, interrupts go off.
Tick ==
    /\ irq_on
    /\ Len(frames[esp]) < StackDepth
    /\ frames' = [frames EXCEPT ![esp] = Append(@, pc)]
    /\ irq_on' = FALSE
    /\ ticks' = ticks + 1
    /\ pc' = "tick"
    /\ UNCHANGED <<flag, stored_flags, current_task, all_tasks, esp, memory,
                   cursor>>

\* cleanup_finished_tasks: give up unless the lock is got.
CleanupTry ==
    /\ pc = "tick"
    /\ \E got \in BOOLEAN :
          /\ try_acquire_lock(got)
          /\ pc' = IF got THEN "cleanup" ELSE "tick_time"
    /\ cursor' = 1
    /\ UNCHANGED <<current_task, all_tasks, esp, frames, memory, ticks>>

\* Bug: the finished task is erased, its stack is not freed.
CleanupEraseLeaks ==
    /\ pc = "cleanup"
    /\ cursor \in DOMAIN all_tasks
    /\ ~Runnable(cursor)
    /\ all_tasks' = erase(all_tasks, cursor)
    /\ UNCHANGED <<spinlock_vars, current_task, pc, esp, frames, memory, cursor,
                   ticks>>

\* Bug: erase(task--), as a loop that also counts up in its head would need.
CleanupEraseStepsBack ==
    /\ pc = "cleanup"
    /\ cursor \in DOMAIN all_tasks
    /\ ~Runnable(cursor)
    /\ memory' = memory \ {all_tasks[cursor].allocation}
    /\ all_tasks' = erase(all_tasks, cursor)
    /\ cursor' = cursor - 1
    /\ UNCHANGED <<spinlock_vars, current_task, pc, esp, frames, ticks>>

\* A finished task: free its stack and erase it; the iterator stays.
CleanupErase ==
    /\ pc = "cleanup"
    /\ cursor \in DOMAIN all_tasks
    /\ ~Runnable(cursor)
    /\ memory' = memory \ {all_tasks[cursor].allocation}
    /\ all_tasks' = erase(all_tasks, cursor)
    /\ UNCHANGED <<spinlock_vars, current_task, pc, esp, frames, cursor, ticks>>

\* Bug: the stack of a task that is still runnable is freed too.
CleanupSkipFrees ==
    /\ pc = "cleanup"
    /\ cursor \in DOMAIN all_tasks
    /\ Runnable(cursor)
    /\ memory' = memory \ {all_tasks[cursor].allocation}
    /\ cursor' = cursor + 1
    /\ UNCHANGED <<spinlock_vars, current_task, all_tasks, pc, esp, frames, ticks>>

CleanupSkip ==
    /\ pc = "cleanup"
    /\ cursor \in DOMAIN all_tasks
    /\ Runnable(cursor)
    /\ cursor' = cursor + 1
    /\ UNCHANGED <<spinlock_vars, current_task, all_tasks, pc, esp, frames,
                   memory, ticks>>

CleanupDone ==
    /\ pc = "cleanup"
    /\ cursor = Len(all_tasks) + 1
    /\ release_lock
    /\ pc' = "tick_time"
    /\ cursor' = 1
    /\ UNCHANGED <<current_task, all_tasks, esp, frames, memory, ticks>>

\* Bug: the second is noted but no task is added.
TickNewSecondSilent ==
    /\ pc = "tick_time"
    /\ ticks >= TicksPerSecond
    /\ ticks' = 0
    /\ pc' = "tick_sched"
    /\ UNCHANGED <<spinlock_vars, current_task, all_tasks, esp, frames, memory,
                   cursor>>

\* A new second: add the task that prints the time.
TickNewSecond ==
    /\ pc = "tick_time"
    /\ ticks >= TicksPerSecond
    /\ ticks' = 0
    /\ acquire_lock
    /\ pc' = "add"
    /\ UNCHANGED <<current_task, all_tasks, esp, frames, memory, cursor>>

TickSameSecond ==
    /\ pc = "tick_time"
    /\ ticks < TicksPerSecond
    /\ pc' = "tick_sched"
    /\ UNCHANGED <<spinlock_vars, current_task, all_tasks, esp, frames, memory,
                   cursor, ticks>>

\* The end of isr_stub_32: iret restores the interrupted pc and its flags.
Iret ==
    /\ pc = "tick_tail"
    /\ pc' = frames[esp][Len(frames[esp])]
    /\ frames' = [frames EXCEPT ![esp] = SubSeq(@, 1, Len(@) - 1)]
    /\ irq_on' = TRUE
    /\ UNCHANGED <<flag, stored_flags, current_task, all_tasks, esp, memory,
                   cursor, ticks>>

\* abort() prints a backtrace and spins for ever, with the lock still taken.
Abort ==
    /\ pc = "abort"
    /\ UNCHANGED vars

-----------------------------------------------------------------------------

Sched == SchedTry \/ SchedSwitch \/ SchedStay \/ SchedReturn
         \/ exit_scheduler_stub

AddNewTask == AddCall \/ AddPush \/ AddRelease

EndCurTask == EndCall \/ EndSwitch \/ EndHalt

HandleTick == \/ Tick \/ CleanupTry \/ CleanupErase \/ CleanupSkip
              \/ CleanupDone \/ TickNewSecond \/ TickSameSecond \/ Iret

Next == Sched \/ AddNewTask \/ EndCurTask \/ HandleTick \/ Abort

Spec == Init /\ [][Next]_vars

\* The CPU executes the kernel's own code, the timer keeps ticking, and every
\* task's function calls end_cur_task after finitely many calls of sched.
Fairness ==
    /\ WF_vars(pc # "task" /\ Next)
    /\ WF_vars(Tick)
    /\ SF_vars(EndCall)

FairSpec == Spec /\ Fairness

-----------------------------------------------------------------------------
(* Properties.                                                             *)

\* Every variable keeps its type; above all cleanup_finished_tasks, which erases
\* from the vector it walks, never moves its iterator in front of begin.
TypeOK ==
    /\ SpinlockTypeOK
    /\ current_task \in Task
    /\ all_tasks \in Seq(Task)
    /\ pc \in PC
    /\ esp \in AllStacks
    /\ frames \in [AllStacks -> Seq(PC)]
    /\ memory \in SUBSET Stacks
    /\ cursor \in Nat \ {0}
    /\ ticks \in Nat

\* editing_task_list keeps its promise although acquire_lock never waits: no
\* tick ever interrupted code between taking and releasing the lock, whether on
\* the running stack or on a stack switched away from.
MutualExclusion ==
    \A s \in AllStacks : \A k \in DOMAIN frames[s] : frames[s][k] \notin Critical

\* Inside the critical section interrupts are off and the flag is set, also when
\* the section was entered by a task other than the one that will leave it.
LockHeldWhenCritical == pc \in Critical => flag /\ ~irq_on

\* Every stack someone runs on, or will run on, is allocated: cleanup never
\* frees "the stack currently in use" nor that of a task still to be resumed.
NoFreedStackInUse ==
    /\ esp \in memory \cup {BootStack}
    /\ \A i \in DOMAIN all_tasks :
          Runnable(i) => all_tasks[i].esp \in memory \cup {BootStack}
    /\ \A s \in Stacks \ memory : frames[s] = << >>

\* No two tasks own one allocation or will run on one stack, and every allocated
\* stack has an owner who can still free it: none is leaked, however switches,
\* ticks, additions and clean-ups interleave.
StacksOwnedOnce ==
    /\ memory = {current_task.allocation}
                  \cup {all_tasks[i].allocation : i \in DOMAIN all_tasks}
    /\ \A i \in DOMAIN all_tasks :
          /\ all_tasks[i].allocation # current_task.allocation
          /\ Runnable(i) => all_tasks[i].esp # esp
    /\ \A i, j \in DOMAIN all_tasks : i # j =>
          /\ all_tasks[i].allocation # all_tasks[j].allocation
          /\ (Runnable(i) /\ Runnable(j)) => all_tasks[i].esp # all_tasks[j].esp

\* The code's two "cannot happen" places: the function init_scheduler installs
\* ("Initial task re-scheduled without having called sched!") and the
\* __builtin_unreachable after end_cur_task's switch.
NeverUnreachable == pc \notin {"initial", "unreachable"}

\* halt() waits for an interrupt: the idle loop is never entered with interrupts
\* disabled, which would stop the machine for good.
NeverHaltedDeaf == pc = "halt" => irq_on

\* A task that a tick started or resumed runs with interrupts off, because the
\* lock it releases was taken inside the handler.  That never becomes permanent
\* while tasks end: the timer is heard again (unless memory ran out: abort).
InterruptsComeBack == []<>(irq_on \/ pc = "abort")

\* Clean-up is skipped by every tick that finds the lock clear, yet the stack of
\* a finished task is freed in the end (unless memory runs out first).  It takes
\* the once-a-second task to get there: only after add_new_task does the tick's
\* sched leave the flag set, so that the next tick cleans up.
FinishedReclaimed ==
    \A s \in Stacks :
       (\E i \in DOMAIN all_tasks : ~Runnable(i) /\ all_tasks[i].allocation = s)
          ~> (s \notin memory \/ pc = "abort")

\* "If it is a new second, print the time": when the tick of a new second finds
\* the machine idle, nobody else waiting, the task it adds gets to run.  There is
\* no excuse for abort here: from the idle loop no task code runs before the new
\* task does, so only the ticks' own additions can use up the stacks.
\* The code does not achieve it: see the run scheduler_new_task_starves.
NewTaskRuns ==
    \A s \in Stacks :
       (/\ pc = "add_release"
        /\ frames[esp] = <<"halt">>
        /\ Len(all_tasks) = 1
        /\ all_tasks[1].esp = s) ~> esp = s

-----------------------------------------------------------------------------
(* The inductive invariant behind the safety properties (SchedulerProofs). *)

\* Where interrupts are on, the pc is in a task, the idle loop or a handler's
\* last instruction; a handler's own lock sections restore "off".
InterruptState ==
    /\ irq_on => pc \in {"task", "halt", "tick_tail"}
    /\ pc \in Critical => flag
    /\ pc = "cleanup" => ~stored_flags
    /\ pc \in {"add", "add_release"} /\ InTick => ~stored_flags

\* Which code runs on a stack with interrupt frames, and what a frame returns to.
FrameShape ==
    /\ pc \in {"task", "end", "halt", "stub"} => ~InTick
    /\ pc \in {"tick", "cleanup", "tick_time", "tick_sched", "tick_tail"} => InTick
    /\ \A s \in AllStacks : \A k \in DOMAIN frames[s] :
          frames[s][k] \in (IF k = 1 THEN {"task", "halt"} ELSE {"tick_tail"})

\* A context saved by a switch was saved inside the critical section.
SavedContexts ==
    \A i \in DOMAIN all_tasks :
       /\ ~all_tasks[i].eflags
       /\ Runnable(i) => all_tasks[i].eip \in {"stub", "resched"}
       /\ Runnable(i) /\ all_tasks[i].eip = "stub" => frames[all_tasks[i].esp] = << >>

\* A task runs on the stack it owns, or is the initial task on the boot stack.
OwnStack ==
    /\ esp \in {current_task.allocation, BootStack}
    /\ current_task.state = "runnable"
    /\ \A i \in DOMAIN all_tasks :
          Runnable(i) => all_tasks[i].esp \in {all_tasks[i].allocation, BootStack}

\* Interrupt frames lie only on stacks somebody will return to.
FramesLive ==
    \A s \in AllStacks : frames[s] # << >> =>
       \/ s = esp
       \/ \E i \in DOMAIN all_tasks : Runnable(i) /\ all_tasks[i].esp = s

\* The interrupt state this code will have once it leaves the critical section.
IrqAfterRelease == IF pc \in Critical THEN stored_flags ELSE irq_on

\* Task code that runs deaf to interrupts can always hand over to a task that a
\* tick suspended, whose iret turns them on again.
DeafTaskHasInterruptedPeer ==
    pc # "abort" /\ ~InTick /\ ~IrqAfterRelease =>
       \E i \in DOMAIN all_tasks :
          Runnable(i) /\ frames[all_tasks[i].esp] # << >>

IInv ==
    /\ TypeOK
    /\ InterruptState
    /\ FrameShape
    /\ SavedContexts
    /\ OwnStack
    /\ StacksOwnedOnce
    /\ FramesLive
    /\ DeafTaskHasInterruptedPeer
    /\ NeverUnreachable
    /\ NeverHaltedDeaf

=============================================================================
