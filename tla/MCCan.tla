------------------------------- MODULE MCCan -------------------------------
(* The CAN link (CanLink) and the start of the program that opens it        *)
(* (Startup).  They share nothing that either reads: a behaviour moves one  *)
(* of them.                                                                 *)
(* The natures of the CAN frames: an angle, a cannon's answer, the same     *)
(* command from another node, and a short frame.  The start is that of two  *)
(* serial ports and two clients.                                            *)
EXTENDS CanLink, Startup

WholeFrames == {[kind |-> k, whole |-> TRUE] : k \in {"ptz", "cannon", "stray"}}
AllFrames == WholeFrames \cup {[kind |-> "other", whole |-> FALSE]}

MCWanted == <<"com1", "com2">>

VARIABLE side  \* "can" or "start": what moves

MCInit ==
  /\ Init /\ StartInit
  /\ side \in {"can", "start"}
  /\ side = "start" => hand.kind = "ptz"

MCNext == \/ side = "can" /\ Next /\ UNCHANGED <<side, startVars>>
          \/ side = "start" /\ StartNext /\ UNCHANGED <<side, vars>>

\* With the fairness of CanLink.
MCSpec == /\ MCInit /\ [][MCNext]_<<side, vars, startVars>>
          /\ WF_vars(side = "can" /\ ReadThread)
          /\ WF_vars(side = "can" /\ MainLoop)
=============================================================================
