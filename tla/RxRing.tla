------------------------------- MODULE RxRing -------------------------------
(***************************************************************************)
(* The receive buffer of one serial port: a T_MemOpr node of the pool      *)
(* (include/alloc_manager.h) that the port's read thread fills through     *)
(* ComReadCallback (usart/usart_manager.c) and the main loop empties with  *)
(* Read_Byte (communication/communication.c).  The two threads share       *)
(* HeadAddr, EndAddr and the data without a lock, so every store of the    *)
(* callback that the main loop can see is a step of its own.               *)
(*                                                                         *)
(* Bytes are numbered in the order read() returned them; 0 is the memset   *)
(* of GetMem.  DataLen is write-only on this path and left out.            *)
(***************************************************************************)
EXTENDS Integers

CONSTANTS
  MEMSIZE,   \* bytes in the ring (2048*5 in the code)
  MaxLen,    \* most bytes one read() returns (4096 in the code)
  MaxBytes   \* bound of the model: bytes the port receives in one behaviour

ASSUME RingAssumption ==
  /\ MEMSIZE \in Nat
  /\ MaxLen \in 1 .. (MEMSIZE - 1)
  /\ MaxBytes \in Nat

VARIABLES
  HeadAddr,    \* next index the producer writes; MEMSIZE for an instant
  EndAddr,     \* next index the consumer reads
  DataAddr,    \* the buffer
  pc,          \* where the read thread is
  len,         \* bytes of the chunk in hand
  max_length,  \* bytes of the chunk that fit before the end of the buffer
  received,    \* history: bytes read() has returned
  delivered,   \* history: bytes Read_Byte has returned while the ring was clean
  lastByte,    \* history: the last of those bytes
  overrun,     \* history: a chunk was stored that did not fit behind EndAddr
  torn         \* history: Read_Byte ran between HeadAddr+=len and HeadAddr=0

vars == <<HeadAddr, EndAddr, DataAddr, pc, len, max_length, received,
          delivered, lastByte, overrun, torn>>

history == <<delivered, lastByte, torn>>

Index == 0 .. (MEMSIZE - 1)

\* The chunk in hand is received-len+1 .. received: its n-th byte (from 0).
Chunk(n) == received - len + 1 + n

\* Mutant: the piece before the end of the buffer is one byte short.
OneShort == MEMSIZE - HeadAddr - 1

\* max_length of the split copy: what fits before the end of the buffer.
Fits == MEMSIZE - HeadAddr

\* Mutants: the read index wraps too late, or past the first slot.
WrapLate(i) == IF i + 1 > MEMSIZE THEN 0 ELSE i + 1
SkipFirst(i) == IF i + 1 >= MEMSIZE THEN 1 ELSE i + 1

\* Read_Byte moves EndAddr on.
NextIndex(i) == IF i + 1 >= MEMSIZE THEN 0 ELSE i + 1

\* memcpy(&DataAddr[at], &buff[from], n)
Copy(at, from, n) ==
  DataAddr' = [i \in Index |->
                 IF i \in at .. (at + n - 1) THEN Chunk(from + i - at)
                                             ELSE DataAddr[i]]

\* The reader kept up and never sampled HeadAddr in the middle of a wrap.
Clean == ~overrun /\ ~torn

\* The producer never looks at EndAddr; this is what it should have asked.
NoRoom == Clean /\ received - delivered >= MEMSIZE

Init ==
  /\ HeadAddr = 0 /\ EndAddr = 0
  /\ DataAddr = [i \in Index |-> 0]
  /\ pc = "read" /\ len = 0 /\ max_length = 0
  /\ received = 0 /\ delivered = 0 /\ lastByte = 0
  /\ overrun = FALSE /\ torn = FALSE

-----------------------------------------------------------------------------
(* The read thread.                                                        *)

\* read() returns n bytes and the callback is entered with COM_ERR_OK.
ReadChunk(n) ==
  /\ pc = "read"
  /\ received + n <= MaxBytes
  /\ len' = n
  /\ received' = received + n
  /\ pc' = "store"
  /\ UNCHANGED <<HeadAddr, EndAddr, DataAddr, max_length, overrun, history>>

\* HeadAddr+len <= MEMSIZE: the chunk is appended in one piece.
StoreWhole ==
  /\ pc = "store"
  /\ HeadAddr + len <= MEMSIZE
  /\ Copy(HeadAddr, 0, len)
  /\ overrun' = (overrun \/ NoRoom)
  /\ pc' = "advance"
  /\ UNCHANGED <<HeadAddr, EndAddr, len, max_length, received, history>>

\* HeadAddr += len is visible before the test against MEMSIZE ...
Advance ==
  /\ pc = "advance"
  /\ HeadAddr' = HeadAddr + len
  /\ pc' = IF HeadAddr + len >= MEMSIZE THEN "wrap" ELSE "read"
  /\ UNCHANGED <<EndAddr, DataAddr, len, max_length, received, overrun, history>>

Wrap ==
  /\ pc = "wrap"
  /\ HeadAddr' = 0
  /\ pc' = "read"
  /\ UNCHANGED <<EndAddr, DataAddr, len, max_length, received, overrun, history>>

\* ... unless the optimiser merged the two stores (-O2 may do either).
AdvanceMerged ==
  /\ pc = "advance"
  /\ HeadAddr' = IF HeadAddr + len >= MEMSIZE THEN 0 ELSE HeadAddr + len
  /\ pc' = "read"
  /\ UNCHANGED <<EndAddr, DataAddr, len, max_length, received, overrun, history>>

\* HeadAddr+len > MEMSIZE: first the piece that fits before the end ...
StoreTop ==
  /\ pc = "store"
  /\ HeadAddr + len > MEMSIZE
  /\ max_length' = Fits
  /\ Copy(HeadAddr, 0, Fits)
  /\ overrun' = (overrun \/ NoRoom)
  /\ pc' = "restart"
  /\ UNCHANGED <<HeadAddr, EndAddr, len, received, history>>

Restart ==
  /\ pc = "restart"
  /\ HeadAddr' = 0
  /\ pc' = "rest"
  /\ UNCHANGED <<EndAddr, DataAddr, len, max_length, received, overrun, history>>

\* ... then the rest at the start.
StoreRest ==
  /\ pc = "rest"
  /\ Copy(0, max_length, len - max_length)
  /\ pc' = "advanceRest"
  /\ UNCHANGED <<HeadAddr, EndAddr, len, max_length, received, overrun, history>>

\* Mutant: the rest is stored and not accounted for.
ForgetRest ==
  /\ pc = "advanceRest"
  /\ pc' = "read"
  /\ UNCHANGED <<HeadAddr, EndAddr, DataAddr, len, max_length, received, overrun, history>>

\* HeadAddr is 0 here and the rest is shorter than the ring (RingAssumption),
\* so the closing HeadAddr>=MEMSIZE test of this branch never fires.
AdvanceRest ==
  /\ pc = "advanceRest"
  /\ HeadAddr' = HeadAddr + (len - max_length)
  /\ pc' = "read"
  /\ UNCHANGED <<EndAddr, DataAddr, len, max_length, received, overrun, history>>

\* read() fails: the thread closes the port, the callback gives the node back
\* (PutMem) and the thread exits.  The main loop gets no byte from then on.
Close ==
  /\ pc = "read"
  /\ HeadAddr' = 0 /\ EndAddr' = 0
  /\ pc' = "closed"
  /\ UNCHANGED <<DataAddr, len, max_length, received, overrun, history>>

-----------------------------------------------------------------------------
(* The main loop.  EndAddr is written by this thread only (but for Close,  *)
(* see ConnLife) and the producer never reads it: Read_Byte is one step.   *)

Read_Byte ==
  /\ EndAddr # HeadAddr
  /\ lastByte' = IF Clean THEN DataAddr[EndAddr] ELSE lastByte
  /\ EndAddr' = NextIndex(EndAddr)
  /\ delivered' = IF Clean THEN delivered + 1 ELSE delivered
  /\ torn' = (torn \/ (HeadAddr = MEMSIZE /\ EndAddr = 0))
  /\ UNCHANGED <<HeadAddr, DataAddr, pc, len, max_length, received, overrun>>

\* Read_Byte returns -1.
Read_Nothing ==
  /\ EndAddr = HeadAddr
  /\ UNCHANGED vars

-----------------------------------------------------------------------------
Callback ==
  \/ StoreWhole \/ Advance \/ Wrap \/ AdvanceMerged
  \/ StoreTop \/ Restart \/ StoreRest \/ AdvanceRest

Next ==
  \/ \E n \in 1 .. MaxLen : ReadChunk(n)
  \/ Callback
  \/ Close
  \/ Read_Byte
  \/ Read_Nothing

Spec == Init /\ [][Next]_vars

\* Both threads keep running; the line need not send, nor fail.
FairSpec == Spec /\ WF_vars(Callback) /\ WF_vars(Read_Byte)

-----------------------------------------------------------------------------
(* Properties.                                                             *)

Where == {"read", "store", "advance", "wrap", "restart", "rest",
          "advanceRest", "closed"}

\* Type invariant: the indices stay in the buffer; HeadAddr reaches MEMSIZE
\* only between the two stores of the wrap.
TypeOK ==
  /\ HeadAddr \in 0 .. MEMSIZE
  /\ EndAddr \in Index
  /\ DataAddr \in [Index -> Int]
  /\ pc \in Where
  /\ len \in 0 .. MaxLen
  /\ max_length \in 0 .. MEMSIZE
  /\ received \in Nat
  /\ delivered \in Nat
  /\ lastByte \in Int
  /\ overrun \in BOOLEAN
  /\ torn \in BOOLEAN

\* Read_Byte returns the bytes of the line in order, each once and only ones
\* that were read: the unlocked ring loses, repeats or invents a byte only
\* after an overrun or a torn wrap (ComReadCallback against Read_Byte).
InOrder ==
  Clean => /\ lastByte = delivered
           /\ delivered <= received

\* Every byte read() returned reaches the reader, unless the port is closed
\* or the ring broke: no byte is left behind the last index update.
Drained ==
  \A n \in 1 .. MaxBytes :
    (received >= n) ~> (delivered >= n \/ pc = "closed" \/ ~Clean)

\* The ring implements the abstract byte queue (as long as it is clean).
Fifo == INSTANCE ByteFifo WITH in <- received, out <- delivered,
                               last <- lastByte, ok <- Clean
FifoSpec == Fifo!Spec
=============================================================================
