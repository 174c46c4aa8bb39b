------------------------------ MODULE ByteFifo ------------------------------
(***************************************************************************)
(* What a receive buffer of the controller promises its reader: bytes come *)
(* out in the order they went in, each once and none invented, until the   *)
(* buffer breaks (ok = FALSE).  Bytes are numbered in arrival order, so    *)
(* "the right byte" is "the next number".                                  *)
(***************************************************************************)
EXTENDS Naturals

VARIABLES
  in,     \* bytes accepted from the device so far
  out,    \* bytes handed to the reader so far
  last,   \* number of the byte handed out last (0: none yet)
  ok      \* FALSE once the promise is off

fifoVars == <<in, out, last, ok>>

Init ==
  /\ in = 0
  /\ out = 0
  /\ last = 0
  /\ ok = TRUE

Send ==
  /\ ok
  /\ in' \in Nat /\ in' > in
  /\ UNCHANGED <<out, last, ok>>

Deliver ==
  /\ ok
  /\ out < in
  /\ out' = out + 1
  /\ last' = out + 1
  /\ UNCHANGED <<in, ok>>

\* The buffer breaks, or goes on after it broke: nothing is promised any more.
Break == ok' = FALSE

Next == Send \/ Deliver \/ Break

Spec == Init /\ [][Next]_fifoVars
=============================================================================
