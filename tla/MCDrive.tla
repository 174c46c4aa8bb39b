------------------------------- MODULE MCDrive -------------------------------
(* What moves the drives: the watchdogs (DriveWatchdog) and the speeds a frame *)
(* makes (Steering).  They share nothing but the motors' port: a behaviour     *)
(* moves one of them.                                                          *)
EXTENDS DriveWatchdog, Steering

\* malloc hands out fresh (zero) or recycled memory.
MallocCounts == {0, Wild}

VARIABLE side  \* "watchdog" or "steering": what moves

MCInit ==
  /\ Init /\ SteerInit
  /\ side \in {"watchdog", "steering"}
  /\ side = "steering" => \A t \in Timers : Times[t] = 0

Watchdog == side = "watchdog" /\ UNCHANGED <<side, steerVars>>

MCNext == \/ Next /\ Watchdog
          \/ side = "steering" /\ SteerNext /\ UNCHANGED <<side, vars>>

MCSpec == MCInit /\ [][MCNext]_<<side, vars, steerVars>>

\* The fairness of DriveWatchdog.
MCFairSpec == /\ MCSpec
              /\ WF_vars(side = "watchdog" /\ TimerThread)
              /\ WF_vars(side = "watchdog" /\ MainLoop)
=============================================================================
