-------------------------- MODULE ConditionVariable --------------------------
(***************************************************************************)
(* te::core::Mutex and te::core::ConditionVariable                         *)
(* (TenEngine-001-core/src/thread.cpp) under the use they exist for: some  *)
(* threads wait, in a loop, for a condition the mutex protects; another    *)
(* makes it true and calls NotifyAll or NotifyOne.                         *)
(*                                                                         *)
(* Wait(m) unlocks m, locks it again to have something to give to          *)
(* std::condition_variable::wait, and only then goes to sleep; between the *)
(* two locks any other thread may take m.                                  *)
(***************************************************************************)
EXTENDS Integers

CONSTANTS Waiter,     \* threads that wait for the condition
          Setter      \* threads that make it true

Thread == Waiter \cup Setter

NoThread == "none"

ASSUME ThreadsAssumption == Waiter \cap Setter = {} /\ NoThread \notin Thread

VARIABLES owner,      \* the thread that holds the mutex, or NoThread
          asleep,     \* threads in the wait set of the std::condition_variable
          condition,  \* what the waiters wait for
          pc

variableVars == <<owner, asleep, condition, pc>>

Locations == {"start", "test", "unlocked", "relocked", "asleep", "leaving",
              "setting", "notifying", "done"}

VariableTypeOK ==
    /\ owner \in Thread \cup {NoThread}
    /\ asleep \subseteq Waiter
    /\ condition \in BOOLEAN
    /\ pc \in [Thread -> Locations]

VariableInit ==
    /\ owner = NoThread
    /\ asleep = {}
    /\ condition = FALSE
    /\ pc = [t \in Thread |-> "start"]

-----------------------------------------------------------------------------

Goto(t, l) == pc' = [pc EXCEPT ![t] = l]

\* Mutex::Lock and Mutex::Unlock.
Lock(t) == owner = NoThread /\ owner' = t
Unlock(t) == owner = t /\ owner' = NoThread

\* The waiter enters its critical section.
Enter(t) ==
    /\ pc[t] = "start"
    /\ Lock(t)
    /\ Goto(t, IF t \in Waiter THEN "test" ELSE "setting")
    /\ UNCHANGED <<asleep, condition>>

\* The loop around Wait finds the condition true and the waiter goes on ...
TestTrue(t) ==
    /\ pc[t] = "test" /\ condition
    /\ Goto(t, "leaving")
    /\ UNCHANGED <<owner, asleep, condition>>

\* ... or calls Wait, whose first act is m.Unlock().
WaitUnlocks(t) ==
    /\ pc[t] = "test" /\ ~condition
    /\ Unlock(t)
    /\ Goto(t, "unlocked")
    /\ UNCHANGED <<asleep, condition>>

\* std::unique_lock lock(m.impl_->m).
WaitRelocks(t) ==
    /\ pc[t] = "unlocked"
    /\ Lock(t)
    /\ Goto(t, "relocked")
    /\ UNCHANGED <<asleep, condition>>

\* cv.wait(lock) releases the mutex and sleeps in one step.
WaitSleeps(t) ==
    /\ pc[t] = "relocked"
    /\ Unlock(t)
    /\ asleep' = asleep \cup {t}
    /\ Goto(t, "asleep")
    /\ UNCHANGED condition

\* Slip: the lock is a std::defer_lock, so a woken waiter goes on without it.
WaitWakesUnlocked(t) ==
    /\ pc[t] = "asleep" /\ t \notin asleep
    /\ Goto(t, "test")
    /\ UNCHANGED <<owner, asleep, condition>>

\* Notified, cv.wait takes the mutex again; lock.release() leaves it locked.
WaitWakes(t) ==
    /\ pc[t] = "asleep" /\ t \notin asleep
    /\ Lock(t)
    /\ Goto(t, "test")
    /\ UNCHANGED <<asleep, condition>>

\* std::condition_variable may also wake a waiter that nobody notified.
WakeSpuriously(t) ==
    /\ t \in asleep
    /\ asleep' = asleep \ {t}
    /\ UNCHANGED <<owner, condition, pc>>

Leave(t) ==
    /\ pc[t] = "leaving"
    /\ Unlock(t)
    /\ Goto(t, "done")
    /\ UNCHANGED <<asleep, condition>>

\* The setter makes the condition true under the mutex ...
SetCondition(t) ==
    /\ pc[t] = "setting"
    /\ condition' = TRUE
    /\ Goto(t, "notifying")
    /\ UNCHANGED <<owner, asleep>>

\* ... and notifies before it unlocks, all the waiters ...
NotifyAll(t) ==
    /\ pc[t] = "notifying"
    /\ asleep' = {}
    /\ Goto(t, "leaving")
    /\ UNCHANGED <<owner, condition>>

\* ... or one of them, if any is asleep.
NotifyOne(t) ==
    /\ pc[t] = "notifying"
    /\ \/ asleep = {} /\ asleep' = {}
       \/ \E w \in asleep : asleep' = asleep \ {w}
    /\ Goto(t, "leaving")
    /\ UNCHANGED <<owner, condition>>

-----------------------------------------------------------------------------

VariableStep(t) == \/ Enter(t)
           \/ TestTrue(t)
           \/ WaitUnlocks(t)
           \/ WaitRelocks(t)
           \/ WaitSleeps(t)
           \/ WaitWakes(t)
           \/ Leave(t)
           \/ SetCondition(t)
           \/ NotifyAll(t)
           \/ NotifyOne(t)

VariableNext == \E t \in Thread : VariableStep(t) \/ (t \in Waiter /\ WakeSpuriously(t))

VariableSpec == VariableInit /\ [][VariableNext]_variableVars

-----------------------------------------------------------------------------

Holds(t) == pc[t] \in {"test", "relocked", "leaving", "setting", "notifying"}

\* A thread that the code lets believe it holds the mutex does hold it: Wait
\* returns with the mutex locked by its caller, through both of its locks.
WaitReturnsLocked == \A t \in Thread : Holds(t) => owner = t

=============================================================================
