------------------------------- MODULE BaseDaemon -------------------------------
(***************************************************************************)
(* Signal handling of libdaemon's BaseDaemon.  Signal handlers only write *)
(* a message into `signal_pipe`; the SignalListener thread reads the pipe *)
(* and does the work: closeLogs on SIGHUP/SIGUSR1, handleSignal on        *)
(* SIGINT/SIGQUIT/SIGTERM, and a log report on std::terminate and fault   *)
(* signals.  The main thread blocks in waitForTerminationRequest on a     *)
(* condition variable until handleSignal has counted a termination        *)
(* signal; ~BaseDaemon then writes StopThread, joins the listener and     *)
(* closes the pipe.  A fault handler sleeps (10 s) so that the listener   *)
(* can log, then re-raises the signal with the default action (core).     *)
(*                                                                         *)
(* The state starts after BaseDaemon::initialize: handlers installed and  *)
(* the listener started.  A message is its signal id: the thread number, *)
(* siginfo and the terminate text only go to the log.  Every message fits *)
(* its WriteBufferFromFileDescriptor (buf_size, 1024) and is flushed by   *)
(* one write(2) shorter than PIPE_BUF, hence atomic.                      *)
(***************************************************************************)
EXTENDS Naturals, Sequences

CONSTANTS
    Main,        \* the main thread
    Listener,    \* the SignalListener thread
    Workers,     \* other server threads
    SentSignals, \* the external signals that may be sent (a subset of ExternalSignals)
    MaxSignals,  \* bound on the signals sent to the process by the outside
    FaultThreads \* threads that may fault or call std::terminate

Threads == {Main, Listener} \cup Workers

TermSignals  == {"SIGINT", "SIGQUIT", "SIGTERM"}
LogSignals   == {"SIGHUP", "SIGUSR1"}
ExternalSignals == TermSignals \cup LogSignals

VARIABLES
    pipe,        \* the messages in signal_pipe not yet read, in order
    writeOpen,   \* signal_pipe.write_fd != -1
    writeFailed, \* a handler wrote after signal_pipe.close()
    nsent,       \* signals sent from outside so far
    nsigint,     \* SIGINTs among them
    lpc,         \* listener: "run", "interrupt" (in onInterruptSignals), "stopped"
    terminate_signals_counter,
    sigint_signals_counter,
    is_cancelled,
    mpc,         \* main: "check", "sleep", "shutdown", "join", "close", "exited"
    tstate,      \* thread -> "run", "aborting" (terminate_handler done), "faulted"
    exit_by      \* "none", "core" (default action of a fault signal), "kill"

vars == <<pipe, writeOpen, writeFailed, nsent, nsigint, lpc,
          terminate_signals_counter, sigint_signals_counter, is_cancelled,
          mpc, tstate, exit_by>>

Alive == exit_by = "none"

Init ==
    /\ pipe = <<>>
    /\ writeOpen = TRUE /\ writeFailed = FALSE
    /\ nsent = 0 /\ nsigint = 0
    /\ lpc = "run"
    /\ terminate_signals_counter = 0 /\ sigint_signals_counter = 0
    /\ is_cancelled = FALSE
    /\ mpc = "check"
    /\ tstate = [t \in Threads |-> "run"]
    /\ exit_by = "none"

\* writeSignalIDtoSignalPipe and the other writers: one write(2) on the
\* pipe; on a closed descriptor the write fails.
WriteToPipe(m) ==
    IF writeOpen
    THEN pipe' = Append(pipe, m) /\ UNCHANGED writeFailed
    ELSE writeFailed' = TRUE /\ UNCHANGED pipe

-----------------------------------------------------------------------------
(* Signal handlers and std::terminate, on any thread                       *)

\* closeLogsSignalHandler / terminateRequestedSignalHandler.
RaiseSignal(s) ==
    /\ Alive /\ nsent < MaxSignals
    /\ nsent' = nsent + 1
    /\ nsigint' = nsigint + IF s = "SIGINT" THEN 1 ELSE 0
    /\ WriteToPipe(s)
    /\ UNCHANGED <<writeOpen, lpc, terminate_signals_counter, sigint_signals_counter,
                   is_cancelled, mpc, tstate, exit_by>>

\* faultSignalHandler on thread t (a synchronous fault, or the SIGABRT of
\* abort() after terminate_handler): the already_signal_handled flag is
\* set, the fault is written to the pipe, and the thread sleeps.
Fault(t) ==
    /\ Alive /\ tstate[t] \in {"run", "aborting"}
    /\ tstate' = [tstate EXCEPT ![t] = "faulted"]
    /\ WriteToPipe("SIGSEGV")
    /\ UNCHANGED <<writeOpen, nsent, nsigint, lpc, terminate_signals_counter,
                   sigint_signals_counter, is_cancelled, mpc,
                   exit_by>>

\* After ::sleep(10), call_default_signal_handler: the process dumps core.
FaultDeadline(t) ==
    /\ Alive /\ tstate[t] = "faulted"
    /\ exit_by' = "core"
    /\ UNCHANGED <<pipe, writeOpen, writeFailed, nsent, nsigint, lpc,
                   terminate_signals_counter, sigint_signals_counter, is_cancelled,
                   mpc, tstate>>

\* terminate_handler on a server thread: the thread_local `terminating`
\* is set, StdTerminate and its message are written, then abort() raises
\* SIGABRT, which Fault(t) handles.
TerminateHandler(t) ==
    /\ Alive /\ tstate[t] = "run"
    /\ WriteToPipe("StdTerminate")
    /\ tstate' = [tstate EXCEPT ![t] = "aborting"]
    /\ UNCHANGED <<writeOpen, nsent, nsigint, lpc, terminate_signals_counter,
                   sigint_signals_counter, is_cancelled, mpc, exit_by>>

-----------------------------------------------------------------------------
(* The SignalListener thread                                               *)

\* Fault: a termination signal counted as SIGINT whatever it is.
HandleSignalCountAll(s) ==
    /\ terminate_signals_counter' = terminate_signals_counter + 1
    /\ sigint_signals_counter' = sigint_signals_counter + 1
    /\ mpc' = IF mpc = "sleep" THEN "check" ELSE mpc

\* Fault: the counters are raised but the waiting main thread is not woken.
HandleSignalNoNotify(s) ==
    /\ terminate_signals_counter' = terminate_signals_counter + 1
    /\ sigint_signals_counter' = sigint_signals_counter + IF s = "SIGINT" THEN 1 ELSE 0
    /\ UNCHANGED mpc

\* BaseDaemon::handleSignal: under signal_handler_mutex, count the signal
\* and signal_event.notify_all(); onInterruptSignals follows, still under
\* the mutex.
HandleSignal(s) ==
    /\ terminate_signals_counter' = terminate_signals_counter + 1
    /\ sigint_signals_counter' = sigint_signals_counter + IF s = "SIGINT" THEN 1 ELSE 0
    /\ mpc' = IF mpc = "sleep" THEN "check" ELSE mpc

\* One iteration of SignalListener::run: read the next message and act.
\* closeLogs, onTerminate and onFault only write the log.
ListenerRead ==
    LET m == Head(pipe) IN
    /\ Alive /\ lpc = "run" /\ tstate[Listener] = "run" /\ pipe # <<>>
    /\ pipe' = Tail(pipe)
    /\ CASE m = "StopThread" ->
              lpc' = "stopped" /\ UNCHANGED <<terminate_signals_counter,
                                              sigint_signals_counter, mpc>>
         [] m \in LogSignals ->      \* BaseDaemon::closeLogs
              UNCHANGED <<lpc, terminate_signals_counter,
                          sigint_signals_counter, mpc>>
         [] m \in TermSignals ->
              HandleSignal(m) /\ lpc' = "interrupt"
         [] OTHER ->                     \* onTerminate / onFault
              UNCHANGED <<lpc, terminate_signals_counter, sigint_signals_counter, mpc>>
    /\ UNCHANGED <<writeOpen, writeFailed, nsent, nsigint, is_cancelled, tstate,
                   exit_by>>

\* BaseDaemon::kill: pid.clear() and SIGKILL to the process.
Kill == exit_by' = "kill"

\* BaseDaemon::onInterruptSignals: is_cancelled, and on the second SIGINT
\* kill().
OnInterruptSignals ==
    /\ Alive /\ lpc = "interrupt" /\ tstate[Listener] = "run"
    /\ is_cancelled' = TRUE
    /\ lpc' = "run"
    /\ IF sigint_signals_counter >= 2 THEN Kill ELSE UNCHANGED exit_by
    /\ UNCHANGED <<pipe, writeOpen, writeFailed, nsent, nsigint, terminate_signals_counter,
                   sigint_signals_counter, mpc, tstate>>

-----------------------------------------------------------------------------
(* The main thread                                                         *)

\* waitForTerminationRequest: signal_event.wait(lock, pred) checks the
\* predicate under the mutex and, if false, sleeps releasing it atomically.
\* handleSignal holds signal_handler_mutex until onInterruptSignals returns.
WaitForTerminationRequest ==
    /\ Alive /\ mpc = "check" /\ tstate[Main] = "run" /\ lpc # "interrupt"
    /\ mpc' = IF terminate_signals_counter > 0 THEN "shutdown" ELSE "sleep"
    /\ UNCHANGED <<pipe, writeOpen, writeFailed, nsent, nsigint, lpc,
                   terminate_signals_counter, sigint_signals_counter, is_cancelled,
                   tstate, exit_by>>

\* A condition variable may wake its waiter spuriously.
SpuriousWakeup ==
    /\ Alive /\ mpc = "sleep"
    /\ mpc' = "check"
    /\ UNCHANGED <<pipe, writeOpen, writeFailed, nsent, nsigint, lpc,
                   terminate_signals_counter, sigint_signals_counter, is_cancelled,
                   tstate, exit_by>>

\* Fault: ~BaseDaemon joins the listener before telling it to stop.
DestroyJoinFirst ==
    /\ Alive /\ tstate[Main] = "run"
    /\ \/ mpc = "shutdown" /\ lpc = "stopped" /\ mpc' = "join" /\ UNCHANGED <<pipe, writeFailed, writeOpen>>
       \/ mpc = "join" /\ WriteToPipe("StopThread")
          /\ mpc' = "close" /\ UNCHANGED writeOpen
       \/ mpc = "close" /\ writeOpen' = FALSE /\ mpc' = "exited" /\ UNCHANGED <<pipe, writeFailed>>
    /\ UNCHANGED <<nsent, nsigint, lpc, terminate_signals_counter, sigint_signals_counter,
                   is_cancelled, tstate, exit_by>>

\* ~BaseDaemon: write StopThread, signal_listener_thread.join(),
\* signal_pipe.close().
Destroy ==
    /\ Alive /\ tstate[Main] = "run"
    /\ \/ mpc = "shutdown" /\ WriteToPipe("StopThread")
          /\ mpc' = "join" /\ UNCHANGED writeOpen
       \/ mpc = "join" /\ lpc = "stopped" /\ mpc' = "close" /\ UNCHANGED <<pipe, writeFailed, writeOpen>>
       \/ mpc = "close" /\ writeOpen' = FALSE /\ mpc' = "exited" /\ UNCHANGED <<pipe, writeFailed>>
    /\ UNCHANGED <<nsent, nsigint, lpc, terminate_signals_counter, sigint_signals_counter,
                   is_cancelled, tstate, exit_by>>

-----------------------------------------------------------------------------
Next ==
    \/ \E s \in SentSignals : RaiseSignal(s)
    \/ \E t \in FaultThreads : Fault(t) \/ FaultDeadline(t)
    \/ \E t \in FaultThreads \ {Listener} : TerminateHandler(t)
    \/ ListenerRead \/ OnInterruptSignals
    \/ WaitForTerminationRequest \/ SpuriousWakeup \/ Destroy

\* Threads run under the OS scheduler: an enabled step of the listener or
\* the main thread is eventually taken; abort() raises SIGABRT at once;
\* the fault handler's sleep(10) ends.  Spurious wakeups are not assumed.
Fairness ==
    /\ WF_vars(ListenerRead) /\ WF_vars(OnInterruptSignals)
    /\ WF_vars(WaitForTerminationRequest) /\ WF_vars(Destroy)
    /\ \A t \in Threads : WF_vars(tstate[t] = "aborting" /\ Fault(t)) /\ WF_vars(FaultDeadline(t))

Spec == Init /\ [][Next]_vars /\ Fairness

-----------------------------------------------------------------------------
(* A single Ctrl-C shuts the server down gracefully: the process is only  *)
(* killed by onInterruptSignals once at least two SIGINTs have been sent, *)
(* whatever SIGTERM/SIGQUIT arrive in between.                             *)
OneSigintIsGraceful ==
    exit_by = "kill" => nsigint >= 2

(* A termination signal whose handler wrote it to the pipe eventually     *)
(* makes the main thread return from waitForTerminationRequest, or the    *)
(* process dies first: no lost wakeup between handleSignal's notify_all   *)
(* and the predicate check of signal_event.wait.                          *)
TerminationWakesMain ==
    (\E i \in 1..Len(pipe) : pipe[i] \in TermSignals)
        ~> (mpc \notin {"check", "sleep"} \/ ~Alive)

(* Once the main thread leaves waitForTerminationRequest, ~BaseDaemon     *)
(* completes: the listener reads StopThread behind every earlier message, *)
(* so the join returns and the pipe is closed, unless the process dies.   *)
ShutdownCompletes ==
    mpc = "shutdown" ~> (mpc = "exited" \/ ~Alive)
=============================================================================
