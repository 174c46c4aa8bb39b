------------------------------- MODULE MCRings -------------------------------
(* The two rings that hand out bytes in the order they took them: a serial    *)
(* port's (RxRing) and the debug channel's (NetPrint), neither of them locked.*)
(* They share nothing: a behaviour moves one of them.                         *)
EXTENDS RxRing

CONSTANTS Printers, PRINT_BUF_SIZE, Batch, MaxString, MaxPrinted

ASSUME RingsAssumption ==
  /\ PRINT_BUF_SIZE > 1
  /\ {PRINT_BUF_SIZE, Batch, MaxString, MaxPrinted} \subseteq Nat \ {0}

VARIABLES
  side,  \* "serial" or "debug": the ring that moves
  buf, g_iWritePos, g_iReadPos, g_iHaveConnected, nPc, left, w, sender, i,
  written, sent, nLast, due, promised, raced

N == INSTANCE NetPrint WITH pc <- nPc, lastByte <- nLast, MaxBytes <- MaxPrinted

nVars == <<buf, g_iWritePos, g_iReadPos, g_iHaveConnected, nPc, left, w, sender, i,
           written, sent, nLast, due, promised, raced>>
all == <<side, vars, nVars>>

MCInit == Init /\ N!Init /\ side \in {"serial", "debug"}

MCNext == \/ side = "serial" /\ Next /\ UNCHANGED <<side, nVars>>
          \/ side = "debug" /\ N!Next /\ UNCHANGED <<side, vars>>

\* The fairness of RxRing and of NetPrint, each for its own ring.
Fairness ==
  /\ WF_vars(side = "serial" /\ Callback)
  /\ WF_vars(side = "serial" /\ Read_Byte)
  /\ WF_nVars(side = "debug" /\ N!SendThread)
  /\ \A p \in Printers : WF_nVars(side = "debug" /\ N!Put(p))

MCSpec == MCInit /\ [][MCNext]_all /\ Fairness

-----------------------------------------------------------------------------
(* Properties of the debug ring, under names of their own.                *)

\* Until two printers overlap in PutData the debug ring holds what PutData
\* accepted and nobody has taken.
Accounted == N!Accounted

\* Until then it is a byte queue, however the printers' strings mix.
PrintFifo == N!FifoSpec

\* A signal that finds the send thread asleep gets everything sent that was
\* printed before it, unless two printers overlap.
WokenSendsAll == N!WokenSendsAll
=============================================================================
