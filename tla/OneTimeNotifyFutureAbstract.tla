---------------------- MODULE OneTimeNotifyFutureAbstract ----------------------
(***************************************************************************)
(* What a OneTimeNotifyFuture promises, as its class comment states it:    *)
(* `Finish` notifies every task registered on the future, and a task       *)
(* registered after finish is notified immediately.  Registration and      *)
(* finishing are single atomic events; each task registers once and is    *)
(* woken once.                                                             *)
(***************************************************************************)
EXTENDS Naturals

CONSTANT Tasks

VARIABLES
    fired,       \* finish() has taken effect
    registered,  \* tasks whose registerTask has taken effect
    woken        \* task -> number of times it was woken

vars == <<fired, registered, woken>>

Init ==
    /\ fired = FALSE
    /\ registered = {}
    /\ woken = [t \in Tasks |-> 0]

\* registerTask before finish: the task waits on the future.
Register(t) ==
    /\ ~fired /\ t \notin registered
    /\ registered' = registered \cup {t}
    /\ UNCHANGED <<fired, woken>>

\* finish: every task registered so far is woken, once.
Fire ==
    /\ ~fired
    /\ fired' = TRUE
    /\ woken' = [t \in Tasks |-> IF t \in registered THEN woken[t] + 1 ELSE woken[t]]
    /\ UNCHANGED registered

\* registerTask after finish: the task is woken at once.
RegisterLate(t) ==
    /\ fired /\ t \notin registered
    /\ registered' = registered \cup {t}
    /\ woken' = [woken EXCEPT ![t] = @ + 1]
    /\ UNCHANGED fired

Next == Fire \/ \E t \in Tasks : Register(t) \/ RegisterLate(t)

Spec == Init /\ [][Next]_vars
=============================================================================
