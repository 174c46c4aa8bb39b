------------------------------- MODULE TcpRing -------------------------------
(***************************************************************************)
(* The receive buffer of a network connection: ReadCallback                *)
(* (net/net_manager.c) fills the node that ComReadCallback fills for a     *)
(* serial port (RxRing), but by another rule.  A chunk is never split: when*)
(* it does not fit before the end, HeadAddr goes back to 0 and the chunk   *)
(* starts there.  Read_Byte knows nothing of that and goes on to the end   *)
(* of the buffer, over bytes of an earlier lap, before it comes to 0.      *)
(*                                                                         *)
(* Bytes are numbered in the order read() returned them, 0 is the memset   *)
(* of GetMem.                                                              *)
(***************************************************************************)
EXTENDS Integers

CONSTANTS
  MEMSIZE,   \* bytes in the buffer (2048*5)
  MaxLen,    \* most bytes one read() returns (4096)
  MaxBytes,  \* bound of the model: bytes received from one client
  MaxClients \* bound of the model: clients that get the node

VARIABLES
  HeadAddr, EndAddr, DataAddr,  \* the node
  used,      \* eMemState = NMS_USED_FOR_CUR
  pc, len,   \* the read thread: its step, the chunk in hand
  todo,      \* stores of PutMem that are not visible yet
  held,      \* EndAddr as Read_Byte has loaded it, None outside it
  clients,   \* history: clients that got the node
  received,  \* history: bytes read() has returned for this client
  fresh,     \* history: the newest of them Read_Byte has returned
  behind,    \* history: HeadAddr has gone back and EndAddr not yet
  lapped,    \* history: bytes were overwritten before they were read
  strayed    \* history: Read_Byte ran while PutMem gave the node back

node == <<HeadAddr, EndAddr, DataAddr, used>>
thread == <<pc, len, todo>>
history == <<clients, received, fresh, behind, lapped, strayed>>
vars == <<node, thread, held, history>>

Index == 0 .. (MEMSIZE - 1)
None == MEMSIZE

Empty == [n \in Index |-> 0]

Init ==
  /\ HeadAddr = 0 /\ EndAddr = 0 /\ DataAddr = Empty /\ used = FALSE
  /\ pc = "read" /\ len = 0 /\ todo = {}
  /\ held = None
  /\ clients = 0 /\ received = 0 /\ fresh = 0
  /\ behind = FALSE /\ lapped = FALSE /\ strayed = FALSE

\* Room for n bytes before the end of the buffer.
Fits(n) == HeadAddr + n < MEMSIZE

\* memcpy of the chunk to index at.
Copy(at) ==
  DataAddr' = [n \in Index |->
                 IF n \in at .. (at + len - 1) THEN received - len + 1 + (n - at)
                                               ELSE DataAddr[n]]

\* A copy to index at reaches what a reader of the earlier lap has before it.
Overtakes(at) == behind /\ at + len > EndAddr

-----------------------------------------------------------------------------
(* The read thread.                                                        *)

\* read() returns a chunk of a client that may be new.
ReadChunk(n) ==
  /\ pc = "read"
  /\ used \/ clients < MaxClients
  /\ received + n <= MaxBytes
  /\ len' = n
  /\ received' = received + n
  /\ pc' = IF used THEN "test" ELSE "claim"
  /\ UNCHANGED <<node, todo, held, clients, fresh, behind, lapped, strayed>>

\* GetMem hands out the node, its buffer cleared and its indices as they are.
GetMem ==
  /\ pc = "claim"
  /\ used' = TRUE /\ DataAddr' = Empty
  /\ clients' = clients + 1
  /\ pc' = "test"
  /\ UNCHANGED <<HeadAddr, EndAddr, len, todo, held, received, fresh, behind,
                 lapped, strayed>>

StoreWhole ==
  /\ pc = "test"
  /\ Fits(len)
  /\ Copy(HeadAddr)
  /\ lapped' = (lapped \/ Overtakes(HeadAddr))
  /\ pc' = "advance"
  /\ UNCHANGED <<HeadAddr, EndAddr, used, len, todo, held, clients, received, fresh,
                 behind, strayed>>

\* HeadAddr = 0: unread bytes at the start of the buffer, and all of an
\* earlier lap, are given up.
Restart ==
  /\ pc = "test"
  /\ ~Fits(len)
  /\ HeadAddr' = 0
  /\ behind' = (EndAddr # 0)
  /\ lapped' = (lapped \/ behind \/ EndAddr = 0)
  /\ pc' = "restarted"
  /\ UNCHANGED <<EndAddr, DataAddr, used, len, todo, held, clients, received, fresh,
                 strayed>>

StoreAtStart ==
  /\ pc = "restarted"
  /\ Copy(0)
  /\ lapped' = (lapped \/ Overtakes(0))
  /\ pc' = "advance"
  /\ UNCHANGED <<HeadAddr, EndAddr, used, len, todo, held, clients, received, fresh,
                 behind, strayed>>

\* HeadAddr += len; if it comes to where a reader of the earlier lap still
\* is, the buffer looks empty to that reader.
Advance ==
  /\ pc = "advance"
  /\ HeadAddr' = HeadAddr + len
  /\ lapped' = (lapped \/ (behind /\ HeadAddr + len = EndAddr))
  /\ pc' = "read"
  /\ UNCHANGED <<EndAddr, DataAddr, used, len, todo, held, clients, received, fresh,
                 behind, strayed>>

\* Mutant: the reader's index stays where the client left it.
HeadOnly == {"state", "head"}

\* The stores of PutMem.
Resets == {"state", "head", "end"}

\* The client is gone: PutMem gives the node back, ...
Close ==
  /\ pc = "read" /\ used
  /\ pc' = "put" /\ todo' = Resets
  /\ strayed' = (held # None)
  /\ UNCHANGED <<node, len, held, clients, received, fresh, behind, lapped>>

\* ... its stores visible in any order.  With the last one the node is another's.
PutMem(x) ==
  /\ pc = "put" /\ x \in todo
  /\ todo' = todo \ {x}
  /\ used' = (used /\ x # "state")
  /\ HeadAddr' = IF x = "head" THEN 0 ELSE HeadAddr
  /\ EndAddr' = IF x = "end" THEN 0 ELSE EndAddr
  /\ IF todo' = {}
     THEN pc' = "read" /\ received' = 0 /\ fresh' = 0 /\ behind' = FALSE /\ lapped' = FALSE
     ELSE UNCHANGED <<pc, received, fresh, behind, lapped>>
  /\ UNCHANGED <<DataAddr, len, held, clients, strayed>>

-----------------------------------------------------------------------------
(* The main loop.                                                          *)

\* Mutant: the index wraps past the first slot.
SkipFirst(n) == IF n + 1 >= MEMSIZE THEN 1 ELSE n + 1
NextIndex(n) == IF n + 1 >= MEMSIZE THEN 0 ELSE n + 1

\* Read_Byte finds the node, sees that it is not empty and loads the byte, ...
Load ==
  /\ held = None
  /\ used /\ EndAddr # HeadAddr
  /\ held' = EndAddr
  /\ strayed' = (strayed \/ pc = "put")
  /\ fresh' = IF DataAddr[EndAddr] > fresh THEN DataAddr[EndAddr] ELSE fresh
  /\ UNCHANGED <<node, thread, clients, received, behind, lapped>>

\* ... and stores the index that follows, whoever has the node by now.
Read_Byte ==
  /\ held # None
  /\ EndAddr' = NextIndex(held)
  /\ behind' = (behind /\ held + 1 < MEMSIZE)
  /\ held' = None
  /\ UNCHANGED <<HeadAddr, DataAddr, used, thread, clients, received, fresh, lapped,
                 strayed>>

Read_Nothing ==
  /\ held = None
  /\ ~used \/ EndAddr = HeadAddr
  /\ UNCHANGED vars

ReadThread ==
  \/ \E n \in 1 .. MaxLen : ReadChunk(n)
  \/ GetMem \/ StoreWhole \/ Restart \/ StoreAtStart \/ Advance
  \/ Close \/ \E x \in Resets : PutMem(x)

Next == ReadThread \/ Load \/ Read_Byte \/ Read_Nothing

Spec == Init /\ [][Next]_vars

-----------------------------------------------------------------------------
(* Properties.                                                             *)

\* Type invariant; unlike the serial ring HeadAddr never leaves the buffer.
TypeOK ==
  /\ HeadAddr \in Index /\ EndAddr \in Index
  /\ DataAddr \in [Index -> 0 .. MaxBytes]
  /\ pc \in {"read", "claim", "test", "restarted", "advance", "put"}
  /\ len \in 0 .. MaxLen /\ todo \subseteq Resets /\ held \in 0 .. MEMSIZE
  /\ received \in 0 .. MaxBytes /\ fresh \in 0 .. MaxBytes /\ clients \in 0 .. MaxClients
  /\ {used, behind, lapped, strayed} \subseteq BOOLEAN

\* No byte is skipped: a reader that is not overtaken gets, among the old
\* bytes it is made to read again, each new byte of a client after its
\* predecessor, the first one first, whoever had the node before.
NoneSkipped ==
  [][~lapped' /\ ~strayed' /\ pc # "put" => fresh' \in {fresh, fresh + 1}]_vars

\* Old bytes, an earlier client's among them, come back only between the restart
\* of HeadAddr and that of EndAddr: outside it the byte read next is the next one,
\* and a buffer that looks empty has delivered everything.
ReplayOnlyBehind ==
  used /\ pc # "put" /\ held = None /\ ~lapped /\ ~strayed =>
    /\ ~behind /\ EndAddr # HeadAddr => DataAddr[EndAddr] = fresh + 1
    /\ pc = "read" /\ EndAddr = HeadAddr => fresh = received
=============================================================================
