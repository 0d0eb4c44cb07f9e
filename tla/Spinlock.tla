------------------------------ MODULE Spinlock ------------------------------
(***************************************************************************)
(* libFeline's Spinlock, as the kernel build uses it on its only CPU.      *)
(*                                                                         *)
(* Between disable_interrupts and the matching restore_interrupts nothing  *)
(* else can run on that CPU, so each member function is one atomic step of *)
(* the code that calls it.  The functions are action formulas: a module    *)
(* that uses a lock conjoins them to the step that calls them.             *)
(*                                                                         *)
(* std::atomic_flag::test_and_set returns the PREVIOUS value of the flag.  *)
(* The code tests it the other way round, and the model keeps that:        *)
(*   - acquire_lock leaves its loop as soon as the previous value was      *)
(*     TRUE, which is after one iteration if the flag was set and after    *)
(*     two if it was clear.  It never waits for anybody.                   *)
(*   - try_acquire_lock "succeeds" when the flag was already set, and      *)
(*     "fails", leaving the flag set, when it was clear.                   *)
(***************************************************************************)

VARIABLES
    flag,          \* the std::atomic_flag `lock'
    stored_flags,  \* interrupt state to restore when the lock is released
    irq_on         \* EFLAGS.IF of the CPU: TRUE when interrupts may arrive

spinlock_vars == <<flag, stored_flags, irq_on>>

SpinlockTypeOK ==
    /\ flag \in BOOLEAN
    /\ stored_flags \in BOOLEAN
    /\ irq_on \in BOOLEAN

\* `std::atomic_flag lock{}' is clear, stored_flags is static storage: zero.
SpinlockInit ==
    /\ flag = FALSE
    /\ stored_flags = FALSE

-----------------------------------------------------------------------------

\* test_and_set of <atomic>: hand out the old value, leave the flag set.
test_and_set(previous) ==
    /\ previous = flag
    /\ flag' = TRUE

\* "pushf; cli; pop": the caller keeps its interrupt state, interrupts go off.
disable_interrupts == irq_on' = FALSE

\* "push flags; popf".
restore_interrupts(flags) == irq_on' = flags

\* Bug: the lock is taken with interrupts left as they are.
acquire_lock_interruptible ==
    /\ flag' = TRUE
    /\ stored_flags' = irq_on
    /\ UNCHANGED irq_on

\* The loop's net effect: whatever the flag was, it is set on exit.
acquire_lock ==
    /\ flag' = TRUE
    /\ stored_flags' = irq_on
    /\ disable_interrupts

try_acquire_lock(result) ==
    /\ test_and_set(result)
    /\ \/ /\ result
          /\ stored_flags' = irq_on
          /\ disable_interrupts
       \/ /\ ~result
          /\ stored_flags' = stored_flags
          /\ restore_interrupts(irq_on)

\* Bug: the interrupt state of the matching acquire is not restored.
release_lock_stays_off ==
    /\ flag' = FALSE
    /\ UNCHANGED <<stored_flags, irq_on>>

release_lock ==
    /\ flag' = FALSE
    /\ stored_flags' = stored_flags
    /\ restore_interrupts(stored_flags)

=============================================================================
