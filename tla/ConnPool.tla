------------------------------ MODULE ConnPool ------------------------------
(***************************************************************************)
(* The life of the network connections and of the buffers they take from   *)
(* the pool of alloc/alloc_manager.c.  The listening thread                *)
(* (net/tcp_opr.c, Thread_listen) accepts a client, enters it in Devclient *)
(* and starts a read thread (Thread_read); the read thread's callback      *)
(* (net/net_manager.c, ReadCallback) takes a node of the pool for its      *)
(* descriptor with GetMem and, when the client is gone, gives it back with *)
(* PutMem and clears the Devclient entry - after it closed the descriptor, *)
(* which accept() may hand out again meanwhile.  The serial ports' read    *)
(* threads use the pool in the same way (usart/usart_manager.c).           *)
(*                                                                         *)
(* Nothing is locked.  Lists and tables are walked one element per step,   *)
(* and a test and the store that follows it are two steps wherever another *)
(* thread can come in between.  The bytes themselves are the subject of    *)
(* RxRing.                                                                 *)
(***************************************************************************)
EXTENDS Integers, FiniteSets

CONSTANTS
  NMem,     \* nodes of the pool (11 in the code)
  NSlots,   \* entries of Devclient (MenNum, 10)
  NFds,     \* descriptors the system has for clients
  Threads   \* read threads that may exist at the same time

ASSUME PoolAssumption ==
  /\ NMem \in Nat \ {0}
  /\ NSlots \in Nat \ {0}
  /\ NFds \in Nat \ {0}
  /\ IsFiniteSet(Threads)

Nodes == 1 .. NMem
Slots == 1 .. NSlots
Fds == 1 .. NFds

VARIABLES
  ID, eMemState,  \* of each node of the pool
  Devfd,          \* Devclient[i].fd, 0: free
  open,           \* descriptors the kernel holds open
  pc, fd, cur,    \* each read thread: its step, descriptor, place in a walk
  entered,        \* history: the thread was entered in Devclient
  crowded,        \* history: a client was accepted with Devclient full
  lost,           \* history: descriptors whose entries a failed start left
                  \* behind, or a clean-up overtaken by another one took wrong
  muddled         \* history: nodes that two threads were taking or giving
                  \* back at the same time

vars == <<ID, eMemState, Devfd, open, pc, fd, cur, entered, crowded, lost, muddled>>

pool == <<ID, eMemState, muddled>>
clients == <<Devfd, open, entered, crowded, lost>>

Init ==
  /\ ID = [n \in Nodes |-> 0]
  /\ eMemState = [n \in Nodes |-> "free"]
  /\ Devfd = [i \in Slots |-> 0]
  /\ open = {}
  /\ pc = [t \in Threads |-> "none"]
  /\ fd = [t \in Threads |-> 0]
  /\ cur = [t \in Threads |-> 1]
  /\ entered = [t \in Threads |-> FALSE]
  /\ crowded = FALSE
  /\ lost = {}
  /\ muddled = {}

\* Thread t goes on at step p, its walk at element c.
Goto(t, p, c) ==
  /\ pc' = [pc EXCEPT ![t] = p]
  /\ cur' = [cur EXCEPT ![t] = c]

\* A step of a walk over `last` elements: on to the next, at the end to p.
Walk(t, last, p) ==
  IF cur[t] < last THEN Goto(t, pc[t], cur[t] + 1) ELSE Goto(t, p, 1)

-----------------------------------------------------------------------------
(* The listening thread: one accept at a time, the lowest free descriptor. *)

Accept(t) ==
  /\ pc[t] = "none" /\ \A u \in Threads : pc[u] # "accepted"
  /\ \E f \in Fds \ open :
       /\ \A g \in Fds \ open : f <= g
       /\ open' = open \cup {f}
       /\ fd' = [fd EXCEPT ![t] = f]
  /\ Goto(t, "accepted", 1)
  /\ UNCHANGED <<pool, Devfd, entered, crowded, lost>>

\* The first free entry of Devclient, if there is one; then SnlRead.
Enter(t) ==
  /\ pc[t] = "accepted"
  /\ IF Devfd[cur[t]] = 0
     THEN /\ Devfd' = [Devfd EXCEPT ![cur[t]] = fd[t]]
          /\ entered' = [entered EXCEPT ![t] = TRUE]
          /\ Goto(t, "start", 1)
          /\ UNCHANGED crowded
     ELSE /\ Walk(t, NSlots, "start")
          /\ crowded' = (crowded \/ cur[t] = NSlots)
          /\ UNCHANGED <<Devfd, entered>>
  /\ UNCHANGED <<pool, fd, open, lost>>

\* The thread, or the attempt to start it, ends.
Exit(t) ==
  /\ Goto(t, "none", 1)
  /\ fd' = [fd EXCEPT ![t] = 0]
  /\ entered' = [entered EXCEPT ![t] = FALSE]

\* SnlRead: the read thread is there and has its buffer.
Start(t) ==
  /\ pc[t] = "start"
  /\ Goto(t, "read", 1)
  /\ UNCHANGED <<pool, fd, clients>>

\* SnlRead has no memory or gets no thread.  ListenCallback ignores that: the
\* entry stays, and nobody will ever close the descriptor.
StartFails(t) ==
  /\ pc[t] = "start"
  /\ lost' = lost \cup {fd[t]}
  /\ Exit(t)
  /\ UNCHANGED <<pool, Devfd, open, crowded>>

\* The read thread gets no buffer and closes the descriptor; ReadCallback does
\* nothing on SNL_ERR_BUFFER, and the entry stays.
NoBuffer(t) ==
  /\ pc[t] = "start"
  /\ open' = open \ {fd[t]}
  /\ lost' = lost \cup {fd[t]}
  /\ Exit(t)
  /\ UNCHANGED <<pool, Devfd, crowded>>

-----------------------------------------------------------------------------
(* A read thread.                                                          *)

\* read() returned bytes: ReadCallback calls GetMem.
Chunk(t) ==
  /\ pc[t] = "read"
  /\ Goto(t, "search", 1)
  /\ UNCHANGED <<pool, fd, clients>>

Mine(t, n) == eMemState[n] = "used" /\ ID[n] = fd[t]

\* Mutant: GetMem takes a free node at once.
SearchNothing(t) ==
  /\ pc[t] = "search"
  /\ Goto(t, "claim", 1)
  /\ UNCHANGED <<pool, fd, clients>>

\* GetMem, first walk: the node this descriptor has already.
Search(t) ==
  /\ pc[t] = "search"
  /\ IF Mine(t, cur[t]) THEN Goto(t, "store", cur[t])
                        ELSE Walk(t, NMem, "claim")
  /\ UNCHANGED <<pool, fd, clients>>

\* Another thread is between its test of node n and its last store to it.
InHands(n) ==
  \E u \in Threads : pc[u] \in {"setId", "setState", "putState", "putId"} /\ cur[u] = n
Muddle(n) == IF InHands(n) THEN {n} ELSE {}

\* GetMem, second walk: a free node; without one the chunk is dropped.
Claim(t) ==
  /\ pc[t] = "claim"
  /\ IF eMemState[cur[t]] = "free"
     THEN Goto(t, "setId", cur[t]) /\ muddled' = muddled \cup Muddle(cur[t])
     ELSE Walk(t, NMem, "read") /\ UNCHANGED muddled
  /\ UNCHANGED <<ID, eMemState, fd, clients>>

SetId(t) ==
  /\ pc[t] = "setId"
  /\ ID' = [ID EXCEPT ![cur[t]] = fd[t]]
  /\ Goto(t, "setState", cur[t])
  /\ UNCHANGED <<eMemState, muddled, fd, clients>>

SetState(t) ==
  /\ pc[t] = "setState"
  /\ eMemState' = [eMemState EXCEPT ![cur[t]] = "used"]
  /\ Goto(t, "store", cur[t])
  /\ UNCHANGED <<ID, muddled, fd, clients>>

\* The chunk is copied to the node GetMem returned.
Store(t) ==
  /\ pc[t] = "store"
  /\ Goto(t, "read", 1)
  /\ UNCHANGED <<pool, fd, clients>>

\* Mutant: the callback does not give the node back.
CloseOnly(t) ==
  /\ pc[t] = "read"
  /\ open' = open \ {fd[t]}
  /\ Goto(t, "clear", 1)
  /\ UNCHANGED <<pool, Devfd, fd, entered, crowded, lost>>

\* read() fails or ends: the descriptor is closed, then the callback runs.
Close(t) ==
  /\ pc[t] = "read"
  /\ open' = open \ {fd[t]}
  /\ Goto(t, "put", 1)
  /\ UNCHANGED <<pool, Devfd, fd, entered, crowded, lost>>

\* PutMem looks for the node of its descriptor and frees it: the state ...
Put(t) ==
  /\ pc[t] = "put"
  /\ IF Mine(t, cur[t])
     THEN /\ Goto(t, "putState", cur[t])
          /\ muddled' = muddled \cup Muddle(cur[t]) \cup {n \in Nodes : n # cur[t] /\ Mine(t, n)}
     ELSE Walk(t, NMem, "clear") /\ UNCHANGED muddled
  /\ UNCHANGED <<ID, eMemState, fd, clients>>

PutState(t) ==
  /\ pc[t] = "putState"
  /\ eMemState' = [eMemState EXCEPT ![cur[t]] = "free"]
  /\ Goto(t, "putId", cur[t])
  /\ UNCHANGED <<ID, muddled, fd, clients>>

\* ... the ID last.
PutId(t) ==
  /\ pc[t] = "putId"
  /\ ID' = [ID EXCEPT ![cur[t]] = 0]
  /\ Goto(t, "clear", 1)
  /\ UNCHANGED <<eMemState, muddled, fd, clients>>

\* Mutant: only the last entry is looked at.
ClearLast(t) ==
  /\ pc[t] = "clear"
  /\ IF Devfd[NSlots] = fd[t]
     THEN Goto(t, "wipe", NSlots) /\ UNCHANGED <<fd, entered>>
     ELSE Exit(t)
  /\ UNCHANGED <<pool, Devfd, open, crowded, lost>>

\* ReadCallback looks for the first entry with the descriptor ...
Clear(t) ==
  /\ pc[t] = "clear"
  /\ IF Devfd[cur[t]] = fd[t]
     THEN Goto(t, "wipe", cur[t]) /\ UNCHANGED <<fd, entered>>
     ELSE IF cur[t] < NSlots THEN Walk(t, NSlots, "clear") /\ UNCHANGED <<fd, entered>>
                             ELSE Exit(t)
  /\ UNCHANGED <<pool, Devfd, open, crowded, lost>>

\* The descriptors of which thread t's store to its entry leaves the number of
\* entries wrong: none, if the entry is still the one it found.
Mistaken(t) ==
  IF Devfd[cur[t]] = fd[t] THEN {} ELSE {fd[t], Devfd[cur[t]]} \ {0}

\* Mutant: the walk does not stop at the first entry.
WipeAll(t) ==
  /\ pc[t] = "wipe"
  /\ Devfd' = [i \in Slots |-> IF Devfd[i] = fd[t] THEN 0 ELSE Devfd[i]]
  /\ lost' = lost \cup Mistaken(t)
  /\ Exit(t)
  /\ UNCHANGED <<pool, open, crowded>>

\* ... and clears it, whatever it holds by now.
Wipe(t) ==
  /\ pc[t] = "wipe"
  /\ Devfd' = [Devfd EXCEPT ![cur[t]] = 0]
  /\ lost' = lost \cup Mistaken(t)
  /\ Exit(t)
  /\ UNCHANGED <<pool, open, crowded>>

Next ==
  \E t \in Threads :
    \/ Accept(t) \/ Enter(t) \/ Start(t) \/ StartFails(t) \/ NoBuffer(t)
    \/ Chunk(t) \/ Search(t) \/ Claim(t) \/ SetId(t) \/ SetState(t) \/ Store(t)
    \/ Close(t) \/ Put(t) \/ PutState(t) \/ PutId(t) \/ Clear(t) \/ Wipe(t)

Spec == Init /\ [][Next]_vars

-----------------------------------------------------------------------------
(* Properties.                                                             *)

Steps == {"none", "accepted", "start", "read", "search", "claim", "setId", "setState",
          "store", "put", "putState", "putId", "clear", "wipe"}

\* Type invariant.
TypeOK ==
  /\ ID \in [Nodes -> 0 .. NFds]
  /\ eMemState \in [Nodes -> {"free", "used"}]
  /\ Devfd \in [Slots -> 0 .. NFds]
  /\ open \subseteq Fds
  /\ pc \in [Threads -> Steps]
  /\ fd \in [Threads -> 0 .. NFds]
  /\ cur \in [Threads -> Nodes \cup Slots]
  /\ entered \in [Threads -> BOOLEAN]
  /\ crowded \in BOOLEAN
  /\ lost \subseteq Fds
  /\ muddled \subseteq Nodes

\* Read_Byte finds a connection's bytes by its descriptor: however claims and
\* returns of GetMem and PutMem overlap, and though descriptors come back while
\* their last owner is still cleaning up, no two nodes in use carry the same,
\* unless one is just losing it.
UniqueId ==
  \A m, n \in Nodes :
    eMemState[m] = "used" /\ eMemState[n] = "used" /\ ID[m] = ID[n] =>
      \/ m = n \/ ID[m] = 0
      \/ \E t \in Threads : pc[t] = "putId" /\ cur[t] \in {m, n}

Entries(f) == {i \in Slots : Devfd[i] = f}
Entered(f) == {t \in Threads : entered[t] /\ fd[t] = f}

\* GetMemData and PutMem find a node by its descriptor: a node in use always
\* has a read thread that still has its PutMem to do, or it would be lost to
\* the pool for ever.  Only a node two threads were taking or giving back at
\* the same time may stay behind, in use with ID 0 for one.
NodesHaveOwners ==
  \A n \in Nodes \ muddled :
    eMemState[n] = "used" =>
      \E t \in Threads :
        pc[t] \notin {"none", "accepted", "start", "clear", "wipe"} /\ fd[t] = ID[n]

\* Rx_OCU_Prs polls the first entry that is not 0 and no other: an entry never
\* outlives the read threads of its descriptor, or the clients behind it would
\* not be heard again - unless a start failed, or a clean-up stored to an entry
\* that another one had cleared since its test.
NoStaleEntry ==
  \A f \in Fds \ lost : Cardinality(Entries(f)) <= Cardinality(Entered(f))

\* A read thread clears the first entry with its descriptor, its own or that
\* of the client that got the descriptor after it: the count comes out right
\* and every client stays visible, as long as Devclient never was full and no
\* clean-up was overtaken between its test and its store.
ClientsVisible ==
  ~crowded => \A f \in Fds \ lost : Cardinality(Entries(f)) = Cardinality(Entered(f))

\* include/alloc_manager.h:27 of NMS_USED_FOR_CUR: the node is in use for the
\* current thread.  Two threads never store into the same node.
OneUser ==
  \A t, u \in Threads :
    pc[t] = "store" /\ pc[u] = "store" /\ cur[t] = cur[u] => t = u
=============================================================================
