-------------------------- MODULE OneTimeNotifyFuture --------------------------
(***************************************************************************)
(* OneTimeNotifyFuture (Flash/Pipeline/Schedule/Tasks): pipeline tasks     *)
(* register on the future and wait; finish() wakes every registered task,  *)
(* and a task registered after finish() is woken at once.  Both paths are  *)
(* guarded by the future's mutex `mu`; the wait list is a                  *)
(* PipeConditionVariable, which has its own lock, so cv.registerTask and   *)
(* cv.notifyAll are single steps here.                                     *)
(*                                                                         *)
(* Every task is registered by its own thread; finish() may be called by   *)
(* several threads.  A mutex is modelled by its holder.                    *)
(***************************************************************************)
EXTENDS Naturals

CONSTANTS
    Tasks,      \* tasks registered on the future (one registering thread each)
    Finishers,  \* threads calling finish()
    NoHolder    \* the value of `mu` when the mutex is free

VARIABLES
    mu,         \* holder of the future's mutex
    finished,   \* OneTimeNotifyFuture::finished
    waiting,    \* tasks held by the PipeConditionVariable
    notified,   \* task -> number of times it was woken
    tpc,        \* task thread: "new", "wait", "locked", "add", "direct", "done"
    fpc         \* finisher thread: "idle", "wait", "locked", "notify", "done"

vars == <<mu, finished, waiting, notified, tpc, fpc>>

Init ==
    /\ mu = NoHolder
    /\ finished = FALSE
    /\ waiting = {}
    /\ notified = [t \in Tasks |-> 0]
    /\ tpc = [t \in Tasks |-> "new"]
    /\ fpc = [f \in Finishers |-> "idle"]

-----------------------------------------------------------------------------
(* registerTask                                                            *)

\* The pipeline calls registerTask(task); the thread now wants the mutex.
CallRegister(t) ==
    /\ tpc[t] = "new"
    /\ tpc' = [tpc EXCEPT ![t] = "wait"]
    /\ UNCHANGED <<mu, finished, waiting, notified, fpc>>

\* Fault: the check of `finished` is made without taking the mutex.
RegisterLockNoMutex(t) ==
    /\ tpc[t] = "wait"
    /\ tpc' = [tpc EXCEPT ![t] = "locked"]
    /\ UNCHANGED <<mu, finished, waiting, notified, fpc>>

\* std::lock_guard lock(mu)
RegisterLock(t) ==
    /\ tpc[t] = "wait" /\ mu = NoHolder
    /\ mu' = t
    /\ tpc' = [tpc EXCEPT ![t] = "locked"]
    /\ UNCHANGED <<finished, waiting, notified, fpc>>

\* Fault: a task registered after finish() is dropped instead of woken.
RegisterCheckNoDirectNotify(t) ==
    /\ tpc[t] = "locked"
    /\ IF finished
       THEN mu' = NoHolder /\ tpc' = [tpc EXCEPT ![t] = "done"]
       ELSE UNCHANGED mu /\ tpc' = [tpc EXCEPT ![t] = "add"]
    /\ UNCHANGED <<finished, waiting, notified, fpc>>

\* if (!finished) go on to register; otherwise leave the lock scope and
\* wake the task directly.
RegisterCheck(t) ==
    /\ tpc[t] = "locked"
    /\ IF finished
       THEN mu' = NoHolder /\ tpc' = [tpc EXCEPT ![t] = "direct"]
       ELSE UNCHANGED mu /\ tpc' = [tpc EXCEPT ![t] = "add"]
    /\ UNCHANGED <<finished, waiting, notified, fpc>>

\* task->setNotifyType(notify_type); cv.registerTask(task); return (unlock).
RegisterAdd(t) ==
    /\ tpc[t] = "add"
    /\ waiting' = waiting \cup {t}
    /\ mu' = NoHolder
    /\ tpc' = [tpc EXCEPT ![t] = "done"]
    /\ UNCHANGED <<finished, notified, fpc>>

\* PipeConditionVariable::notifyTaskDirectly(task)
NotifyTaskDirectly(t) ==
    /\ tpc[t] = "direct"
    /\ notified' = [notified EXCEPT ![t] = @ + 1]
    /\ tpc' = [tpc EXCEPT ![t] = "done"]
    /\ UNCHANGED <<mu, finished, waiting, fpc>>

-----------------------------------------------------------------------------
(* finish                                                                  *)

CallFinish(f) ==
    /\ fpc[f] = "idle"
    /\ fpc' = [fpc EXCEPT ![f] = "wait"]
    /\ UNCHANGED <<mu, finished, waiting, notified, tpc>>

FinishLock(f) ==
    /\ fpc[f] = "wait" /\ mu = NoHolder
    /\ mu' = f
    /\ fpc' = [fpc EXCEPT ![f] = "locked"]
    /\ UNCHANGED <<finished, waiting, notified, tpc>>

\* if (finished) return; finished = true; (unlock)
FinishCheck(f) ==
    /\ fpc[f] = "locked"
    /\ mu' = NoHolder
    /\ IF finished
       THEN fpc' = [fpc EXCEPT ![f] = "done"] /\ UNCHANGED finished
       ELSE fpc' = [fpc EXCEPT ![f] = "notify"] /\ finished' = TRUE
    /\ UNCHANGED <<waiting, notified, tpc>>

\* cv.notifyAll(): every task held by the condition variable is woken.
NotifyAll(f) ==
    /\ fpc[f] = "notify"
    /\ notified' = [t \in Tasks |-> IF t \in waiting THEN notified[t] + 1 ELSE notified[t]]
    /\ waiting' = {}
    /\ fpc' = [fpc EXCEPT ![f] = "done"]
    /\ UNCHANGED <<mu, finished, tpc>>

-----------------------------------------------------------------------------
TaskStep(t) == RegisterLock(t) \/ RegisterCheck(t) \/ RegisterAdd(t) \/ NotifyTaskDirectly(t)
FinisherStep(f) == FinishLock(f) \/ FinishCheck(f) \/ NotifyAll(f)

Next ==
    \/ \E t \in Tasks : CallRegister(t) \/ TaskStep(t)
    \/ \E f \in Finishers : CallFinish(f) \/ FinisherStep(f)

\* Each caller is a thread: a call to registerTask or finish, once made,
\* runs to its end.  Taking the free mutex is only weakly fair, which
\* suffices because every holder releases it after a bounded number of
\* its own steps.  Nothing forces registerTask or finish to be called.
Fairness ==
    /\ \A t \in Tasks : WF_vars(TaskStep(t))
    /\ \A f \in Finishers : WF_vars(FinisherStep(f))

Spec == Init /\ [][Next]_vars /\ Fairness

-----------------------------------------------------------------------------
(* No lost wakeup: once finish() has set `finished` and its notifyAll has *)
(* run, no task is left in the condition variable, whatever the order in  *)
(* which registerTask and finish took the mutex.                          *)
NoTaskStranded ==
    finished /\ (\A f \in Finishers : fpc[f] # "notify") => waiting = {}

(* Every task whose registration has completed, on either path, is woken *)
(* exactly once after finish() has been called.                           *)
RegisteredTaskWoken ==
    \A t \in Tasks : (finished /\ tpc[t] = "done") ~> notified[t] = 1

-----------------------------------------------------------------------------
(* Refinement.  A registration takes effect when registerTask returns; the *)
(* wakeup of a waiting task takes effect when finish() sets `finished`:    *)
(* the tasks in the condition variable while that finish() has yet to run *)
(* its notifyAll are owed the one notification it will deliver.           *)
Pending(t) == IF t \in waiting /\ \E f \in Finishers : fpc[f] = "notify" THEN 1 ELSE 0

Abstract == INSTANCE OneTimeNotifyFutureAbstract
    WITH fired <- finished,
         registered <- {t \in Tasks : tpc[t] = "done"},
         woken <- [t \in Tasks |-> notified[t] + Pending(t)]

(* The future implements its class comment: every interleaving of         *)
(* registerTask and finish, step by step under the mutex, is a sequence   *)
(* of atomic registrations before finish, one finish that wakes all of    *)
(* them, and late registrations each woken at once.                        *)
ImplementsAbstract == Abstract!Spec
=============================================================================
