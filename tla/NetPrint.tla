------------------------------ MODULE NetPrint ------------------------------
(***************************************************************************)
(* The network debug channel (debug/netprint.c): threads that print put    *)
(* bytes into a ring and signal a condition variable, a send thread takes  *)
(* them out and sends them once a client has connected.  The ring is not   *)
(* locked, neither against the send thread nor between the printers (the   *)
(* read threads, the listening thread and the main loop all print); the    *)
(* mutex protects nothing but the wait itself, and the wait has no         *)
(* predicate.                                                              *)
(*                                                                         *)
(* Bytes are numbered in the order they are written.                       *)
(***************************************************************************)
EXTENDS Integers

CONSTANTS
  Printers,        \* threads that print
  PRINT_BUF_SIZE,  \* bytes of the ring (16*1024)
  Batch,           \* most bytes per sendto (512)
  MaxString,       \* longest string printed
  MaxBytes         \* bound of the model: bytes printed in one behaviour

VARIABLES
  buf, g_iWritePos, g_iReadPos,  \* the ring
  g_iHaveConnected,              \* a client has sent "setclient"
  pc, left, w,                   \* each printer: its step, bytes left of its
                                 \* string, the write position it works with
  sender, i,                     \* the send thread: its step, bytes of a batch
  written,                       \* history: bytes PutData accepted
  sent, lastByte,                \* history: bytes taken out, and the last one
  due,                           \* history: bytes there at the last signal given
                                 \* with a client connected
  promised,                      \* history: at the last such signal that found
                                 \* the send thread asleep
  raced                          \* history: two printers were in the middle of
                                 \* PutData together

vars == <<buf, g_iWritePos, g_iReadPos, g_iHaveConnected, pc, left, w,
          sender, i, written, sent, lastByte, due, promised, raced>>

ring == <<buf, g_iWritePos, g_iReadPos>>
printing == <<pc, left, w>>
sending == <<sender, i>>
history == <<written, sent, lastByte, due, promised, raced>>

Index == 0 .. (PRINT_BUF_SIZE - 1)

Init ==
  /\ buf = [n \in Index |-> 0]
  /\ g_iWritePos = 0 /\ g_iReadPos = 0
  /\ g_iHaveConnected = FALSE
  /\ pc = [p \in Printers |-> "idle"]
  /\ left = [p \in Printers |-> 0]
  /\ w = [p \in Printers |-> 0]
  /\ sender = "lock" /\ i = 0
  /\ written = 0 /\ sent = 0 /\ lastByte = 0
  /\ due = 0 /\ promised = 0
  /\ raced = FALSE

\* The position that follows in the ring.
Following(n) == (n + 1) % PRINT_BUF_SIZE

\* Mutant: the ring never counts as full.
NeverFull(n) == FALSE

isFull(n) == Following(n) = g_iReadPos
isEmpty == g_iWritePos = g_iReadPos

-----------------------------------------------------------------------------
(* A thread that prints: NetDbgPrint, PutData byte by byte.                *)

\* Bound of the model: after an overlap the printers finish their strings and
\* nothing else happens (the ring is broken for good).
Followed == ~raced

\* It has found room and not moved the write position yet.
Inside(p) == pc[p] \in {"write", "advance"}

Begin(p, n) ==
  /\ pc[p] = "idle"
  /\ written + n <= MaxBytes /\ Followed
  /\ left' = [left EXCEPT ![p] = n]
  /\ pc' = [pc EXCEPT ![p] = "check"]
  /\ UNCHANGED <<ring, g_iHaveConnected, w, sending, history>>

\* PutData: without room the rest of the string is dropped.
PutCheck(p) ==
  /\ pc[p] = "check"
  /\ IF left[p] = 0 \/ isFull(g_iWritePos)
     THEN /\ pc' = [pc EXCEPT ![p] = "signal"] /\ left' = [left EXCEPT ![p] = 0]
          /\ UNCHANGED <<w, raced>>
     ELSE /\ pc' = [pc EXCEPT ![p] = "write"] /\ w' = [w EXCEPT ![p] = g_iWritePos]
          /\ raced' = (raced \/ \E q \in Printers \ {p} : Inside(q))
          /\ UNCHANGED left
  /\ UNCHANGED <<ring, g_iHaveConnected, sending, written, sent, lastByte, due, promised>>

\* The compiled code keeps the position it checked or reads it again.
Reload(p) ==
  /\ Inside(p) /\ w[p] # g_iWritePos
  /\ w' = [w EXCEPT ![p] = g_iWritePos]
  /\ UNCHANGED <<ring, g_iHaveConnected, pc, left, sending, history>>

PutWrite(p) ==
  /\ pc[p] = "write"
  /\ buf' = [buf EXCEPT ![w[p]] = written + 1]
  /\ written' = written + 1
  /\ pc' = [pc EXCEPT ![p] = "advance"]
  /\ UNCHANGED <<g_iWritePos, g_iReadPos, g_iHaveConnected, left, w, sending,
                 sent, lastByte, due, promised, raced>>

PutAdvance(p) ==
  /\ pc[p] = "advance"
  /\ g_iWritePos' = Following(w[p])
  /\ left' = [left EXCEPT ![p] = @ - 1]
  /\ pc' = [pc EXCEPT ![p] = "check"] /\ w' = [w EXCEPT ![p] = 0]
  /\ UNCHANGED <<buf, g_iReadPos, g_iHaveConnected, sending, history>>

\* The bytes whose PutData has returned (while no two printers overlap).
Returned == written - IF \E q \in Printers : pc[q] = "advance" THEN 1 ELSE 0

\* pthread_cond_signal: it wakes a sender that waits, and is forgotten otherwise.
Signal(p) ==
  /\ pc[p] = "signal"
  /\ pc' = [pc EXCEPT ![p] = "idle"]
  /\ sender' = IF sender = "asleep" THEN "drain" ELSE sender
  /\ due' = IF g_iHaveConnected THEN Returned ELSE due
  /\ promised' = IF sender = "asleep" /\ g_iHaveConnected THEN Returned ELSE promised
  /\ UNCHANGED <<ring, g_iHaveConnected, left, w, i, written, sent, lastByte, raced>>

-----------------------------------------------------------------------------
(* The send thread.                                                        *)

\* pthread_cond_wait, with the mutex that only guards the wait.
Wait ==
  /\ sender = "lock"
  /\ sender' = "asleep"
  /\ UNCHANGED <<ring, g_iHaveConnected, printing, i, history>>

\* POSIX lets the wait return without a signal.
Spurious ==
  /\ Followed
  /\ sender = "asleep"
  /\ sender' = "drain"
  /\ UNCHANGED <<ring, g_iHaveConnected, printing, i, history>>

\* while (g_iHaveConnected && !isEmpty())
Drain ==
  /\ sender = "drain"
  /\ sender' = IF g_iHaveConnected /\ ~isEmpty THEN "get" ELSE "lock"
  /\ i' = 0
  /\ UNCHANGED <<ring, g_iHaveConnected, printing, history>>

\* Mutant: the position is moved before the byte is fetched.
GetNext ==
  /\ sender = "get" /\ i < Batch /\ ~isEmpty
  /\ lastByte' = buf[Following(g_iReadPos)]
  /\ sent' = sent + 1
  /\ g_iReadPos' = Following(g_iReadPos)
  /\ i' = i + 1
  /\ UNCHANGED <<buf, g_iWritePos, g_iHaveConnected, printing, sender, written,
                 due, promised, raced>>

\* GetData, up to Batch times.  A printer cannot touch the slot between the
\* fetch and the move of the position, so one step stands for both.
Get ==
  /\ sender = "get" /\ i < Batch /\ ~isEmpty
  /\ lastByte' = buf[g_iReadPos]
  /\ sent' = sent + 1
  /\ g_iReadPos' = Following(g_iReadPos)
  /\ i' = i + 1
  /\ UNCHANGED <<buf, g_iWritePos, g_iHaveConnected, printing, sender, written,
                 due, promised, raced>>

\* Mutant: one batch per wake-up.
SendOnce ==
  /\ sender = "get" /\ (i = Batch \/ isEmpty)
  /\ sender' = "lock"
  /\ UNCHANGED <<ring, g_iHaveConnected, printing, i, history>>

\* sendto, and back to the outer test.
Send ==
  /\ sender = "get" /\ (i = Batch \/ isEmpty)
  /\ sender' = "drain"
  /\ UNCHANGED <<ring, g_iHaveConnected, printing, i, history>>

\* The receive thread gets "setclient": nobody is woken.
SetClient ==
  /\ Followed
  /\ ~g_iHaveConnected
  /\ g_iHaveConnected' = TRUE
  /\ UNCHANGED <<ring, printing, sending, history>>

-----------------------------------------------------------------------------
Put(p) == PutCheck(p) \/ PutWrite(p) \/ PutAdvance(p) \/ Signal(p)

SendThread == Followed /\ (Wait \/ Drain \/ Get \/ Send)

Next ==
  \/ \E p \in Printers : Put(p) \/ Reload(p) \/ \E n \in 1 .. MaxString : Begin(p, n)
  \/ SendThread \/ Spurious \/ SetClient

Spec == Init /\ [][Next]_vars

\* The send thread keeps running and a string begun is finished; nobody has
\* to print, or to connect.
FairSpec == Spec /\ WF_vars(SendThread) /\ \A p \in Printers : WF_vars(Put(p))

-----------------------------------------------------------------------------
(* Properties.                                                             *)

\* Type invariant.
TypeOK ==
  /\ buf \in [Index -> Nat]
  /\ g_iWritePos \in Index /\ g_iReadPos \in Index
  /\ g_iHaveConnected \in BOOLEAN
  /\ pc \in [Printers -> {"idle", "check", "write", "advance", "signal"}]
  /\ left \in [Printers -> 0 .. MaxString]
  /\ w \in [Printers -> Index]
  /\ sender \in {"lock", "asleep", "drain", "get"}
  /\ i \in 0 .. Batch
  /\ written \in Nat /\ sent \in Nat /\ lastByte \in Nat
  /\ due \in Nat /\ promised \in Nat /\ raced \in BOOLEAN

\* Whoever prints and however their strings mix, the unlocked ring is a byte
\* queue until two printers overlap inside PutData: bytes are sent in the order
\* they were put, each once, none lost that PutData accepted.
Fifo == INSTANCE ByteFifo WITH in <- written, out <- sent, last <- lastByte,
                               ok <- ~raced
FifoSpec == Fifo!Spec

\* The bytes between the positions are those accepted and not yet taken.
Kept == (g_iWritePos - g_iReadPos) % PRINT_BUF_SIZE = written - sent

\* netprint.c:72 of PutData: 0 says that the byte is in the ring.  When nobody
\* is in the middle of a PutData the ring holds every byte accepted.
ZeroMeansInRing == (\A p \in Printers : ~Inside(p)) => Kept

\* Until two printers overlap that is so, also while one is before its store.
Accounted == ~raced /\ (\A p \in Printers : pc[p] # "advance") => Kept

\* A signal that finds the send thread asleep gets everything sent that was
\* printed before it, in however many batches, unless two printers overlap.
WokenSendsAll ==
  \A n \in 1 .. MaxBytes : (promised >= n /\ ~raced) ~> (sent >= n \/ raced)

\* netprint.c:133 of the wait: a thread that prints wakes the send thread.
\* What was printed with a client connected is sent.
PrintedIsSent == \A n \in 1 .. MaxBytes : (due >= n) ~> (sent >= n)
=============================================================================
