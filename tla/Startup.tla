------------------------------ MODULE Startup ------------------------------
(***************************************************************************)
(* main() from one power-on to the next: the parameter file (SysPara)      *)
(* first, then the devices and the threads (Devices); a crash ends both.   *)
(* What Devices does is the same for every address in the record, so that  *)
(* it is followed after one undisturbed start only, Followed, which keeps  *)
(* the states of the two parts from multiplying.                           *)
(***************************************************************************)
EXTENDS SysPara, Devices

startVars == <<paraVars, devVars>>

StartInit == ParaStart /\ DevStart

\* Bound: the start after which the devices are followed.
Followed ==
  /\ step = "up" /\ boots = 1
  /\ file = para /\ disk = para
  /\ para[Ip] \in Leases /\ known = {para[Ip]}
  /\ ~hurt

\* The parameters come first.
Parameters == pc = "export" /\ ParaSteps /\ UNCHANGED devVars

DevicesRun == Followed /\ DevNext /\ UNCHANGED paraVars

\* Everything but the file is gone.
Crash ==
  /\ Kill \/ PowerCut
  /\ DevReset

StartNext == Parameters \/ DevicesRun \/ Crash

StartSpec == StartInit /\ [][StartNext]_startVars
=============================================================================
