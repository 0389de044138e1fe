------------------------------- MODULE PidFile -------------------------------
(***************************************************************************)
(* BaseDaemon::PID: a daemon started with the `pid` option claims a pid    *)
(* file in initialize() through PID::seed and removes it in kill() through *)
(* PID::clear.  Several daemon processes configured with the same file may *)
(* start, crash and be killed concurrently; each file-system call is one   *)
(* step, since another process may act between any two of them.           *)
(*                                                                         *)
(* The file is NoFile or a record: the process that created it (its inode) *)
(* and the pid written into it, NoPid while the creator has not written    *)
(* yet.  A process id stands for its pid; pids are not reused.  Stale is   *)
(* a daemon of an earlier run that died and may have left its file.        *)
(***************************************************************************)
EXTENDS Naturals

CONSTANTS
    Procs,   \* daemon processes configured with the same pid file
    Stale,   \* the dead daemon of an earlier run
    NoFile,  \* no file at the path
    NoPid    \* an empty file, read as pid 0

VARIABLES
    pc,       \* process -> where it is in its life
    file,     \* the pid file at the configured path
    alone     \* process -> no other process was inside seed when it started

vars == <<pc, file, alone>>

\* The steps of PID::seed, one per file-system call.
SeedPcs == {"exists", "read", "remove", "open", "write"}

\* A process whose pid getpgid finds: it has started and not yet ended.
Alive(p) == pc[p] \in SeedPcs \cup {"running"}

\* isPidRunning(pid)
isPidRunning(q) == q \in Procs /\ Alive(q)

Init ==
    /\ pc = [p \in Procs |-> "idle"]
    /\ file \in {NoFile, [owner |-> Stale, pid |-> Stale]}
    /\ alone = [p \in Procs |-> FALSE]

-----------------------------------------------------------------------------
(* PID::seed                                                               *)

\* initialize() reaches pid.seed(config().getString("pid")).
Start(p) ==
    /\ pc[p] = "idle"
    /\ pc' = [pc EXCEPT ![p] = "exists"]
    /\ alone' = [alone EXCEPT ![p] = \A q \in Procs \ {p} : pc[q] \notin SeedPcs]
    /\ UNCHANGED file

\* if (poco_file.exists())
SeedExists(p) ==
    /\ pc[p] = "exists"
    /\ pc' = [pc EXCEPT ![p] = IF file # NoFile THEN "read" ELSE "open"]
    /\ UNCHANGED <<file, alone>>

\* Fault: the file is treated as stale without asking whether its pid runs.
SeedReadNoRunningCheck(p) ==
    /\ pc[p] = "read"
    /\ pc' = [pc EXCEPT ![p] = "remove"]
    /\ UNCHANGED <<file, alone>>

\* std::ifstream in(file); if (in.good()) { in >> pid_read; throw if that
\* pid runs }: an empty or vanished file reads as 0.
SeedRead(p) ==
    /\ pc[p] = "read"
    /\ LET pid_read == IF file # NoFile THEN file.pid ELSE NoPid IN
       pc' = [pc EXCEPT ![p] = IF pid_read # NoPid /\ isPidRunning(pid_read)
                              THEN "refused" ELSE "remove"]
    /\ UNCHANGED <<file, alone>>

\* poco_file.remove(): removes whatever file is at the path now, and
\* throws FileNotFoundException when there is none.
SeedRemove(p) ==
    /\ pc[p] = "remove"
    /\ IF file # NoFile
       THEN file' = NoFile /\ pc' = [pc EXCEPT ![p] = "open"]
       ELSE UNCHANGED file /\ pc' = [pc EXCEPT ![p] = "failed"]
    /\ UNCHANGED alone

\* open(file, O_CREAT | O_EXCL | O_WRONLY): fails with EEXIST when a file
\* is at the path.
SeedOpen(p) ==
    /\ pc[p] = "open"
    /\ IF file = NoFile
       THEN file' = [owner |-> p, pid |-> NoPid] /\ pc' = [pc EXCEPT ![p] = "write"]
       ELSE UNCHANGED file /\ pc' = [pc EXCEPT ![p] = "failed"]
    /\ UNCHANGED alone

\* write(fd, getpid()); close(fd): the write goes to the inode p created,
\* which is no longer at the path if another process removed it.
SeedWrite(p) ==
    /\ pc[p] = "write"
    /\ file' = IF file # NoFile /\ file.owner = p THEN [file EXCEPT !.pid = p] ELSE file
    /\ pc' = [pc EXCEPT ![p] = "running"]
    /\ UNCHANGED alone

-----------------------------------------------------------------------------
(* The end of a process                                                    *)

\* BaseDaemon::kill: pid.clear() removes the file at the path, whoever
\* created it, then the process kills itself.  Without a file, remove()
\* throws on the listener thread and the process ends in std::terminate.
Kill(p) ==
    /\ pc[p] = "running"
    /\ file' = NoFile
    /\ pc' = [pc EXCEPT ![p] = "exited"]
    /\ UNCHANGED alone

\* The process dies without PID::clear: a crash, a kill -9, or a seed step
\* that threw.
Crash(p) ==
    /\ Alive(p)
    /\ pc' = [pc EXCEPT ![p] = "exited"]
    /\ UNCHANGED <<file, alone>>

Next ==
    \E p \in Procs :
        \/ Start(p) \/ SeedExists(p) \/ SeedRead(p) \/ SeedRemove(p)
        \/ SeedOpen(p) \/ SeedWrite(p) \/ Kill(p) \/ Crash(p)

Spec == Init /\ [][Next]_vars

-----------------------------------------------------------------------------
Running == {p \in Procs : pc[p] = "running"}

(* Starts that never overlap are exclusive: if every process began        *)
(* PID::seed while no other process was inside seed, at most one daemon   *)
(* runs, whatever crashes and kills came in between and however the file *)
(* left by a dead daemon looked.  (One overlapping start suffices to      *)
(* break this for good: its remove() may delete the winner's file before  *)
(* it dies, and a later start then sees no file.)                          *)
SequentialStartsExclusive ==
    (\A p \in Procs : pc[p] # "idle" => alone[p]) =>
        \A p, q \in Running : p = q

(* At most one daemon configured with the pid file runs: the refusal       *)
(* "Pid file exists and program running ..., should not start daemon".     *)
SingleDaemon ==
    \A p, q \in Running : p = q
=============================================================================
