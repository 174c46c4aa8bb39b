--------------------------- MODULE ConnPoolProofs ---------------------------
(***************************************************************************)
(* Theorems about ConnPool, for every size of the pool and of Devclient,   *)
(* any number of descriptors and any finite set of read threads.           *)
(***************************************************************************)
EXTENDS ConnPool, FiniteSetTheorems, TLAPS

-----------------------------------------------------------------------------
(* The inductive invariant.                                                *)

\* The step a thread is at says what its place in a walk is.
AtPlace(t) ==
  /\ pc[t] \in {"search", "claim", "setId", "setState", "store", "put", "putState", "putId"} =>
       cur[t] \in Nodes
  /\ pc[t] \in {"accepted", "clear", "wipe"} => cur[t] \in Slots
  /\ pc[t] # "none" => fd[t] \in Fds
  /\ pc[t] \in {"none", "accepted"} => ~entered[t]

Placed == \A t \in Threads : AtPlace(t)

\* The steps before read() failed.
Active(t) ==
  pc[t] \in {"accepted", "start", "read", "search", "claim", "setId", "setState", "store"}

\* The kernel holds the descriptors of the threads that still read, and no
\* two of them have the same.
Descriptors ==
  /\ \A t \in Threads : Active(t) => fd[t] \in open
  /\ \A t, u \in Threads : Active(t) /\ Active(u) /\ fd[t] = fd[u] => t = u

\* Node n is between the two stores of PutMem.
Losing(n) == \E t \in Threads : pc[t] = "putId" /\ cur[t] = n

\* A free node with an ID is being given back or being taken.
FreeNodes ==
  \A n \in Nodes :
    eMemState[n] = "free" /\ ID[n] # 0 =>
      \/ Losing(n)
      \/ \E t \in Threads : pc[t] = "setState" /\ cur[t] = n /\ fd[t] = ID[n]

\* No two nodes that keep their ID have the same one.
UniqueNodes ==
  \A m, n \in Nodes :
    ID[m] = ID[n] /\ ID[m] # 0 /\ ~Losing(m) /\ ~Losing(n) => m = n

\* What a search has passed by: no node with the descriptor that keeps it.
Passed ==
  \A t \in Threads, n \in Nodes :
    /\ pc[t] = "search" /\ n < cur[t] /\ ID[n] = fd[t] => Losing(n)
    /\ pc[t] \in {"claim", "setId"} /\ ID[n] = fd[t] => Losing(n)

PoolInv == TypeOK /\ Placed /\ Descriptors /\ FreeNodes /\ UniqueNodes /\ Passed

EntriesBelow(f, c) == {i \in Slots : i < c /\ Devfd[i] = f}
Clearing(t) == pc[t] \in {"clear", "wipe"}
Owners(f, c) == {t \in Threads : entered[t] /\ fd[t] = f /\ ~(Clearing(t) /\ cur[t] >= c)}

\* The entries of a descriptor below any place c have as many threads that
\* will still clear one: those whose walk is not past c.
EntriesOwned ==
  \A f \in Fds \ lost, c \in 1 .. NSlots + 1 :
    Cardinality(EntriesBelow(f, c)) <= Cardinality(Owners(f, c))

\* As long as Devclient never was full, every thread that reads was entered.
AllEntered ==
  ~crowded => /\ \A t \in Threads : pc[t] \notin {"none", "accepted"} => entered[t]
              /\ \A f \in Fds \ lost : Cardinality(Entries(f)) = Cardinality(Entered(f))

-----------------------------------------------------------------------------
(* The pool of nodes.                                                      *)

LEMMA InitPool == Init => PoolInv
<1> SUFFICES ASSUME Init PROVE PoolInv
  OBVIOUS
<1>1. TypeOK
  <2>1. 0 \in 0 .. NFds /\ 1 \in Nodes \cup Slots /\ "none" \in Steps
    BY PoolAssumption DEF Nodes, Slots, Steps
  <2> QED BY <2>1 DEF Init, TypeOK
<1>2. Placed
  BY DEF Init, Placed, AtPlace
<1>3. Descriptors
  BY DEF Init, Descriptors, Active
<1>4. FreeNodes /\ UniqueNodes
  BY DEF Init, FreeNodes, UniqueNodes
<1>5. Passed
  BY DEF Init, Passed
<1> QED BY <1>1, <1>2, <1>3, <1>4, <1>5 DEF PoolInv

\* A step of one thread leaves the others where they are.
Step(t) ==
  \/ Accept(t) \/ Enter(t) \/ Start(t) \/ StartFails(t) \/ NoBuffer(t)
  \/ Chunk(t) \/ Search(t) \/ Claim(t) \/ SetId(t) \/ SetState(t) \/ Store(t)
  \/ Close(t) \/ Put(t) \/ PutState(t) \/ PutId(t) \/ Clear(t) \/ Wipe(t)

LEMMA OthersStay ==
  ASSUME TypeOK, NEW t \in Threads, NEW u \in Threads, u # t, Step(t)
  PROVE  /\ pc'[u] = pc[u] /\ cur'[u] = cur[u]
         /\ fd'[u] = fd[u] /\ entered'[u] = entered[u]
<1> USE DEF TypeOK, pool, clients, Goto, Walk
<1>1. CASE Accept(t) \/ Enter(t)
  BY <1>1 DEF Accept, Enter
<1>2. CASE Chunk(t) \/ Store(t) \/ Close(t) \/ Search(t) \/ Claim(t)
  BY <1>2 DEF Chunk, Store, Close, Search, Claim
<1>3. CASE SetId(t) \/ SetState(t) \/ PutId(t) \/ Put(t)
  BY <1>3 DEF SetId, SetState, PutId, Put
<1>4. CASE Clear(t) \/ Wipe(t)
  BY <1>4 DEF Clear, Wipe, Exit
<1>5. CASE Start(t) \/ StartFails(t) \/ NoBuffer(t) \/ PutState(t)
  BY <1>5 DEF Start, StartFails, NoBuffer, PutState, Exit
<1> QED BY <1>1, <1>2, <1>3, <1>4, <1>5 DEF Step

LEMMA TypeStep == TypeOK /\ Placed /\ [Next]_vars => TypeOK'
<1> SUFFICES ASSUME TypeOK, Placed, [Next]_vars PROVE TypeOK'
  OBVIOUS
<1>1. CASE UNCHANGED vars
  BY <1>1 DEF vars, TypeOK
<1>2. ASSUME NEW t \in Threads, Step(t) PROVE TypeOK'
  <2>0. AtPlace(t)
    BY DEF Placed
  <2>1. pc' \in [Threads -> Steps]
    BY <1>2 DEF TypeOK, Step, Accept, Enter, Chunk, Search, Claim, SetId, SetState, Store,
                Close, Put, PutId, PutState, Start, StartFails, NoBuffer, Clear, Wipe, Exit,
                Goto, Walk, Steps
  <2>2. cur' \in [Threads -> Nodes \cup Slots]
    <3>1. 1 \in Nodes \cup Slots /\ cur[t] \in Nodes \cup Slots
      BY PoolAssumption DEF TypeOK, Nodes, Slots
    <3>2. \/ cur' = cur
          \/ \E c \in Nodes \cup Slots : cur' = [cur EXCEPT ![t] = c]
      <4>1. CASE Accept(t) \/ Chunk(t) \/ Store(t) \/ Close(t) \/ PutId(t)
        BY <3>1, <4>1 DEF Accept, Chunk, Store, Close, PutId, Goto
      <4>2. CASE SetId(t) \/ SetState(t)
        BY <3>1, <4>2 DEF SetId, SetState, Goto
      <4>5. CASE Start(t) \/ StartFails(t) \/ NoBuffer(t) \/ PutState(t) \/ Wipe(t)
        BY <3>1, <4>5 DEF Start, StartFails, NoBuffer, PutState, Wipe, Exit, Goto
      <4>3. CASE Enter(t) \/ Clear(t)
        <5>1. cur[t] < NSlots => cur[t] + 1 \in Nodes \cup Slots
          BY <2>0, <4>3, PoolAssumption DEF AtPlace, Enter, Clear, Slots
        <5> QED BY <3>1, <4>3, <5>1 DEF Enter, Clear, Exit, Goto, Walk
      <4>4. CASE Search(t) \/ Claim(t) \/ Put(t)
        <5>1. cur[t] < NMem => cur[t] + 1 \in Nodes \cup Slots
          BY <2>0, <4>4, PoolAssumption DEF AtPlace, Search, Claim, Put, Nodes
        <5> QED BY <3>1, <4>4, <5>1 DEF Search, Claim, Put, Goto, Walk
      <4> QED BY <1>2, <4>1, <4>2, <4>3, <4>4, <4>5 DEF Step
    <3> QED BY <3>2 DEF TypeOK
  <2>3. fd' \in [Threads -> 0 .. NFds] /\ open' \subseteq Fds
    <3>1. 0 \in 0 .. NFds /\ Fds \subseteq 0 .. NFds
      BY PoolAssumption DEF Fds
    <3>2. CASE Accept(t) \/ NoBuffer(t) \/ Close(t)
      BY <3>1, <3>2 DEF TypeOK, Accept, NoBuffer, Close, Exit, pool
    <3>3. CASE StartFails(t) \/ Clear(t) \/ Wipe(t)
      <4>1. open' = open /\ (fd' = fd \/ fd' = [fd EXCEPT ![t] = 0])
        BY <3>3 DEF StartFails, Clear, Wipe, Exit
      <4> QED BY <3>1, <4>1 DEF TypeOK
    <3>4. CASE Enter(t) \/ Start(t) \/ Chunk(t) \/ Search(t) \/ Claim(t) \/ Store(t)
      BY <3>4 DEF TypeOK, Enter, Start, Chunk, Search, Claim, Store, clients
    <3>5. CASE SetId(t) \/ SetState(t) \/ Put(t) \/ PutState(t) \/ PutId(t)
      BY <3>5 DEF TypeOK, SetId, SetState, Put, PutState, PutId, clients
    <3> QED BY <1>2, <3>2, <3>3, <3>4, <3>5 DEF Step
  <2>4. entered' \in [Threads -> BOOLEAN]
    BY <1>2 DEF TypeOK, Step, Accept, Enter, Chunk, Search, Claim, SetId, SetState, Store,
                Close, Put, PutId, PutState, Start, StartFails, NoBuffer, Clear, Wipe, Exit,
                pool, clients
  <2>5. crowded' \in BOOLEAN
    <3>1. CASE Enter(t)
      BY <3>1 DEF Enter, TypeOK
    <3>2. CASE ~Enter(t)
      BY <1>2, <3>2 DEF TypeOK, Step, Accept, Chunk, Search, Claim, SetId, SetState, Store,
                        Close, Put, PutId, Clear, PutState, Start, StartFails, NoBuffer, Wipe, pool, clients
    <3> QED BY <3>1, <3>2
  <2>6. ID' \in [Nodes -> 0 .. NFds] /\ eMemState' \in [Nodes -> {"free", "used"}]
    <3>1. fd[t] \in 0 .. NFds /\ 0 \in 0 .. NFds
      BY PoolAssumption DEF TypeOK
    <3> QED
      BY <1>2, <3>1
         DEF TypeOK, Step, Accept, Enter, Chunk, Search, Claim, SetId, SetState, Store, Close,
             Put, PutId, PutState, Start, StartFails, NoBuffer, Clear, Wipe, Exit, pool, clients
  <2>7. Devfd' \in [Slots -> 0 .. NFds]
    <3>1. fd[t] \in 0 .. NFds /\ 0 \in 0 .. NFds
      BY PoolAssumption DEF TypeOK
    <3> QED
      BY <1>2, <3>1
         DEF TypeOK, Step, Accept, Enter, Chunk, Search, Claim, SetId, SetState, Store, Close,
             Put, PutId, PutState, Start, StartFails, NoBuffer, Clear, Wipe, Exit, pool, clients
  <2>8. lost' \subseteq Fds
    <3>1. CASE Wipe(t)
      <4>1. Mistaken(t) \subseteq Fds
        BY <2>0, <3>1 DEF Mistaken, Wipe, AtPlace, TypeOK, Fds
      <4> QED BY <3>1, <4>1 DEF Wipe, TypeOK
    <3>2. CASE StartFails(t) \/ NoBuffer(t)
      BY <2>0, <3>2 DEF StartFails, NoBuffer, AtPlace, TypeOK
    <3>3. CASE ~Wipe(t) /\ ~StartFails(t) /\ ~NoBuffer(t)
      BY <1>2, <3>3
         DEF TypeOK, Step, Accept, Enter, Chunk, Search, Claim, SetId, SetState, Store, Close,
             Put, PutId, PutState, Start, Clear, pool, clients
    <3> QED BY <3>1, <3>2, <3>3
  <2>9. muddled' \subseteq Nodes
    <3>1. CASE Claim(t) \/ Put(t)
      <4>1. Muddle(cur[t]) \subseteq Nodes
        BY <2>0, <3>1 DEF Muddle, Claim, Put, AtPlace
      <4> QED BY <3>1, <4>1 DEF Claim, Put, TypeOK
    <3>2. CASE ~Claim(t) /\ ~Put(t)
      BY <1>2, <3>2
         DEF TypeOK, Step, Accept, Enter, Chunk, Search, SetId, SetState, Store, Close,
             PutId, PutState, Start, StartFails, NoBuffer, Clear, Wipe, pool, clients
    <3> QED BY <3>1, <3>2
  <2> QED BY <2>1, <2>2, <2>3, <2>4, <2>5, <2>6, <2>7, <2>8, <2>9 DEF TypeOK
<1> QED BY <1>1, <1>2 DEF Next, Step

LEMMA PlacedStep == TypeOK /\ Placed /\ [Next]_vars => Placed'
<1> SUFFICES ASSUME TypeOK, Placed, [Next]_vars PROVE Placed'
  OBVIOUS
<1>1. CASE UNCHANGED vars
  BY <1>1 DEF vars, Placed, AtPlace
<1>2. ASSUME NEW t \in Threads, Step(t) PROVE Placed'
  <2>1. ASSUME NEW u \in Threads, u # t PROVE AtPlace(u)'
    BY <1>2, <2>1, OthersStay DEF Placed, AtPlace
  <2>2. AtPlace(t)'
    <3> USE PoolAssumption DEF TypeOK, Nodes, Slots, Fds, pool, clients, Goto, Walk, AtPlace
    <3>0. AtPlace(t)
      BY DEF Placed
    <3>1. CASE Accept(t)
      BY <3>0, <3>1 DEF Accept
    <3>2. CASE Enter(t)
      BY <3>0, <3>2 DEF Enter
    <3>3. CASE Chunk(t) \/ Store(t) \/ Close(t)
      BY <3>0, <3>3 DEF Chunk, Store, Close
    <3>4. CASE Search(t) \/ Claim(t)
      BY <3>0, <3>4 DEF Search, Claim
    <3>5. CASE SetId(t) \/ SetState(t) \/ PutId(t)
      BY <3>0, <3>5 DEF SetId, SetState, PutId
    <3>8. CASE Start(t) \/ StartFails(t) \/ NoBuffer(t) \/ PutState(t) \/ Wipe(t)
      BY <3>0, <3>8 DEF Start, StartFails, NoBuffer, PutState, Wipe, Exit
    <3>6. CASE Put(t)
      BY <3>0, <3>6 DEF Put
    <3>7. CASE Clear(t)
      BY <3>0, <3>7 DEF Clear, Exit
    <3> QED BY <1>2, <3>1, <3>2, <3>3, <3>4, <3>5, <3>6, <3>7, <3>8 DEF Step
  <2> QED BY <2>1, <2>2 DEF Placed
<1> QED BY <1>1, <1>2 DEF Next, Step

LEMMA DescriptorsStep == TypeOK /\ Placed /\ Descriptors /\ [Next]_vars => Descriptors'
<1> SUFFICES ASSUME TypeOK, Placed, Descriptors, [Next]_vars PROVE Descriptors'
  OBVIOUS
<1> USE DEF TypeOK, pool, clients, Goto, Walk, Descriptors, Active
<1>1. CASE UNCHANGED vars
  BY <1>1 DEF vars
<1>2. ASSUME NEW t \in Threads, Accept(t) PROVE Descriptors'
  BY <1>2 DEF Accept
<1>3. ASSUME NEW t \in Threads, Enter(t) PROVE Descriptors'
  BY <1>3 DEF Enter
<1>4. ASSUME NEW t \in Threads, Chunk(t) \/ Store(t) PROVE Descriptors'
  BY <1>4 DEF Chunk, Store
<1>5. ASSUME NEW t \in Threads, Search(t) \/ Claim(t) PROVE Descriptors'
  BY <1>5 DEF Search, Claim
<1>6. ASSUME NEW t \in Threads, SetId(t) \/ SetState(t) \/ PutId(t) PROVE Descriptors'
  BY <1>6 DEF SetId, SetState, PutId
<1>7. ASSUME NEW t \in Threads, Put(t) PROVE Descriptors'
  BY <1>7 DEF Put
<1>8. ASSUME NEW t \in Threads, Clear(t) \/ Wipe(t) PROVE Descriptors'
  BY <1>8 DEF Clear, Wipe, Exit
<1>10. ASSUME NEW t \in Threads, Start(t) \/ StartFails(t) \/ PutState(t) PROVE Descriptors'
  BY <1>10 DEF Start, StartFails, PutState, Exit
<1>11. ASSUME NEW t \in Threads, NoBuffer(t) PROVE Descriptors'
  BY <1>11 DEF NoBuffer, Exit
<1>9. ASSUME NEW t \in Threads, Close(t) PROVE Descriptors'
  BY <1>9 DEF Close
<1> QED BY <1>1, <1>2, <1>3, <1>4, <1>5, <1>6, <1>7, <1>8, <1>9, <1>10, <1>11 DEF Next

\* Only PutMem makes a node one that is losing its ID, and that ends with 0.
LEMMA LosingStep ==
  ASSUME TypeOK, Placed, [Next]_vars, NEW n \in Nodes, Losing(n)
  PROVE  Losing(n)' \/ ID'[n] = 0
<1> USE DEF TypeOK, pool, clients, Goto, Walk, Losing
<1>1. CASE UNCHANGED vars
  BY <1>1 DEF vars
<1>2. PICK u \in Threads : pc[u] = "putId" /\ cur[u] = n
  OBVIOUS
<1>3. ASSUME NEW t \in Threads, PutId(t) PROVE Losing(n)' \/ ID'[n] = 0
  <2>1. CASE t = u
    BY <1>2, <1>3, <2>1 DEF PutId
  <2>2. CASE t # u
    BY <1>2, <1>3, <2>2 DEF PutId
  <2> QED BY <2>1, <2>2
<1>4. ASSUME NEW t \in Threads, Accept(t) \/ Enter(t) \/ Chunk(t) \/ Store(t) \/ Close(t)
      PROVE Losing(n)'
  BY <1>2, <1>4 DEF Accept, Enter, Chunk, Store, Close
<1>5. ASSUME NEW t \in Threads, Search(t) \/ Claim(t) \/ SetId(t) \/ SetState(t)
      PROVE Losing(n)'
  BY <1>2, <1>5 DEF Search, Claim, SetId, SetState
<1>6. ASSUME NEW t \in Threads, Put(t) \/ PutState(t) \/ Clear(t) \/ Wipe(t) PROVE Losing(n)'
  BY <1>2, <1>6 DEF Put, PutState, Clear, Wipe, Exit
<1>7. ASSUME NEW t \in Threads, Start(t) \/ StartFails(t) \/ NoBuffer(t) PROVE Losing(n)'
  BY <1>2, <1>7 DEF Start, StartFails, NoBuffer, Exit
<1> QED BY <1>1, <1>3, <1>4, <1>5, <1>6, <1>7 DEF Next

LEMMA FreeNodesStep == PoolInv /\ [Next]_vars => FreeNodes'
<1> SUFFICES ASSUME PoolInv, [Next]_vars PROVE FreeNodes'
  OBVIOUS
<1> USE DEF PoolInv
<1>1. CASE UNCHANGED vars
  BY <1>1 DEF vars, FreeNodes, Losing
<1>2. ASSUME NEW t \in Threads, Step(t),
             NEW n \in Nodes, eMemState'[n] = "free", ID'[n] # 0
      PROVE  Losing(n)' \/ \E u \in Threads : pc'[u] = "setState" /\ cur'[u] = n /\ fd'[u] = ID'[n]
  <2>1. CASE SetId(t) /\ cur[t] = n
    BY <2>1 DEF SetId, Goto, TypeOK, clients
  <2>2. CASE PutState(t) /\ cur[t] = n
    BY <2>2 DEF PutState, Goto, TypeOK, Losing
  <2>3. CASE ~(SetId(t) /\ cur[t] = n) /\ ~(PutState(t) /\ cur[t] = n)
    <3>1. eMemState[n] = "free" /\ (ID[n] = ID'[n])
      BY <1>2, <2>3
         DEF Step, Accept, Enter, Chunk, Search, Claim, SetId, SetState, Store, Close, Put, PutId,
             Clear, PutState, Start, StartFails, NoBuffer, Wipe, pool, clients, TypeOK
    <3>2. CASE Losing(n)
      BY <1>2, <3>2, LosingStep DEF Next, Step
    <3>3. ASSUME NEW u \in Threads, pc[u] = "setState", cur[u] = n, fd[u] = ID[n]
          PROVE  pc'[u] = "setState" /\ cur'[u] = n /\ fd'[u] = ID'[n]
      <4>1. CASE u = t
        <5>1. SetState(t) \/ Accept(t)
          BY <1>2, <3>3, <4>1 
             DEF Step, Enter, Chunk, Search, Claim, SetId, Store, Close, Put, PutId, Clear,
                 PutState, Start, StartFails, NoBuffer, Wipe
        <5>2. eMemState'[n] = "used"
          BY <3>3, <4>1, <5>1 DEF SetState, Accept, TypeOK
        <5> QED BY <1>2, <5>2
      <4>2. CASE u # t
        BY <1>2, <3>1, <3>3, <4>2, OthersStay
      <4> QED BY <4>1, <4>2
    <3>4. Losing(n) \/ \E u \in Threads : pc[u] = "setState" /\ cur[u] = n /\ fd[u] = ID[n]
      BY <1>2, <3>1 DEF FreeNodes
    <3> QED BY <3>2, <3>3, <3>4
  <2> QED BY <2>1, <2>2, <2>3
<1> QED BY <1>1, <1>2 DEF Next, Step, FreeNodes

LEMMA UniqueNodesStep == PoolInv /\ [Next]_vars => UniqueNodes'
<1> SUFFICES ASSUME PoolInv, [Next]_vars PROVE UniqueNodes'
  OBVIOUS
<1> USE DEF PoolInv
<1>1. CASE UNCHANGED vars
  BY <1>1 DEF vars, UniqueNodes, Losing
<1>2. ASSUME NEW t \in Threads, Step(t), NEW m \in Nodes, NEW n \in Nodes,
             ID'[m] = ID'[n], ID'[m] # 0, ~Losing(m)', ~Losing(n)'
      PROVE  m = n
  <2>1. ~Losing(m) /\ ~Losing(n)
    BY <1>2, LosingStep DEF Next, Step
  <2>2. CASE SetId(t)
    <3>1. \A k \in Nodes : k # cur[t] => ID'[k] = ID[k]
      BY <2>2 DEF SetId, TypeOK
    <3>2. ID'[cur[t]] = fd[t]
      BY <2>2 DEF SetId, TypeOK, Placed, AtPlace
    <3>3. \A k \in Nodes : ID[k] = fd[t] => Losing(k)
      BY <2>2 DEF SetId, Passed
    <3> QED BY <1>2, <2>1, <3>1, <3>2, <3>3 DEF UniqueNodes
  <2>3. CASE ~SetId(t)
    <3>1. ID'[m] = ID[m] /\ ID'[n] = ID[n]
      BY <1>2, <2>3
         DEF Step, Accept, Enter, Chunk, Search, Claim, SetState, Store, Close, Put, PutId,
             Clear, PutState, Start, StartFails, NoBuffer, Wipe, pool, clients, TypeOK
    <3> QED BY <1>2, <2>1, <3>1 DEF UniqueNodes
  <2> QED BY <2>2, <2>3
<1> QED BY <1>1, <1>2 DEF Next, Step, UniqueNodes

\* A node with a reader's descriptor that is not in use is losing its ID.
LEMMA NotMine ==
  ASSUME PoolInv, NEW t \in Threads, pc[t] = "search", ~Mine(t, cur[t]), ID[cur[t]] = fd[t]
  PROVE  Losing(cur[t])
<1>1. cur[t] \in Nodes /\ fd[t] \in Fds
  BY DEF PoolInv, Placed, AtPlace
<1>2. eMemState[cur[t]] = "free" /\ ID[cur[t]] # 0
  BY <1>1 DEF PoolInv, TypeOK, Mine, Fds
<1>3. ASSUME NEW u \in Threads, pc[u] = "setState", fd[u] = ID[cur[t]]
      PROVE  FALSE
  BY <1>3 DEF PoolInv, Descriptors, Active
<1> QED BY <1>1, <1>2, <1>3 DEF PoolInv, FreeNodes

LEMMA PassedStep == PoolInv /\ [Next]_vars => Passed'
<1> SUFFICES ASSUME PoolInv, [Next]_vars PROVE Passed'
  OBVIOUS
<1>1. CASE UNCHANGED vars
  BY <1>1 DEF PoolInv, vars, Passed, Losing
<1>2. ASSUME NEW t \in Threads, Step(t), NEW u \in Threads, NEW n \in Nodes,
             ID'[n] = fd'[u],
             \/ pc'[u] = "search" /\ n < cur'[u]
             \/ pc'[u] \in {"claim", "setId"}
      PROVE  Losing(n)'
  <2> USE DEF PoolInv
  <2>0. fd'[u] # 0 /\ fd'[u] \in Fds
    <3>1. Placed'
      BY PlacedStep
    <3> QED BY <1>2, <3>1 DEF Placed, AtPlace, Fds
  <2>1. Losing(n) => Losing(n)'
    BY <1>2, <2>0, LosingStep
  <2>2. CASE u = t
    <3>1. Chunk(t) \/ Search(t) \/ Claim(t)
      BY <1>2, <2>2 DEF Step, Accept, Enter, SetId, SetState, Store, Close, Put, PutId, Clear,
                        PutState, Start, StartFails, NoBuffer, Wipe, Exit, Goto, Walk, TypeOK
    <3>2. ID[n] = fd[t]
      BY <1>2, <2>2, <3>1 DEF Chunk, Search, Claim, pool
    <3>3. CASE Chunk(t)
      BY <1>2, <2>2, <3>3 DEF Chunk, Goto, TypeOK, Nodes
    <3>4. CASE Claim(t)
      BY <2>1, <2>2, <3>2, <3>4 DEF Claim, Passed
    <3>5. CASE Search(t)
      <4>1. ~Mine(t, cur[t])
        BY <1>2, <2>2, <3>5 DEF Search, Goto, TypeOK
      <4>2. cur[t] \in Nodes /\ pc[t] = "search"
        BY <3>5 DEF Search, Placed, AtPlace
      <4>3. n < cur[t] \/ n = cur[t]
        <5>1. CASE cur[t] < NMem
          <6>1. cur'[t] = cur[t] + 1 /\ pc'[t] = "search"
            BY <3>5, <4>1, <5>1 DEF Search, Goto, Walk, TypeOK
          <6> QED BY <1>2, <2>2, <4>2, <6>1 DEF Nodes
        <5>2. CASE ~(cur[t] < NMem)
          BY <4>2, <5>2, PoolAssumption DEF Nodes
        <5> QED BY <5>1, <5>2
      <4> QED BY <2>1, <3>2, <4>1, <4>2, <4>3, NotMine DEF Passed
    <3> QED BY <3>1, <3>3, <3>4, <3>5
  <2>3. CASE u # t
    <3>1. pc'[u] = pc[u] /\ cur'[u] = cur[u] /\ fd'[u] = fd[u]
      BY <1>2, <2>3, OthersStay
    <3>2. ID[n] = fd[u]
      <4>1. CASE SetId(t)
        <5>1. fd[t] # fd[u]
          BY <1>2, <2>3, <3>1, <4>1 DEF SetId, Descriptors, Active
        <5> QED BY <1>2, <3>1, <4>1, <5>1 DEF SetId, TypeOK
      <4>2. CASE PutId(t)
        BY <1>2, <2>0, <3>1, <4>2 DEF PutId, TypeOK
      <4>3. CASE ~SetId(t) /\ ~PutId(t)
        BY <1>2, <3>1, <4>3
           DEF Step, Accept, Enter, Chunk, Search, Claim, SetState, Store, Close, Put, Clear,
               PutState, Start, StartFails, NoBuffer, Wipe, pool, clients
      <4> QED BY <4>1, <4>2, <4>3
    <3> QED BY <1>2, <2>1, <3>1, <3>2 DEF Passed
  <2> QED BY <2>2, <2>3
<1> QED BY <1>1, <1>2 DEF Next, Step, Passed

\* Every state of Spec: types, places, descriptors and the IDs of the nodes.
THEOREM PoolIsSound == Spec => []PoolInv
<1>1. PoolInv /\ [Next]_vars => PoolInv'
  BY TypeStep, PlacedStep, DescriptorsStep, FreeNodesStep, UniqueNodesStep, PassedStep DEF PoolInv
<1> QED BY InitPool, <1>1, PTL DEF Spec

\* Read_Byte finds a connection's bytes by its descriptor: for every pool and any
\* interleaving of GetMem and PutMem, two nodes in use that both keep their ID
\* carry different descriptors.
THEOREM DescriptorNamesOneNode == Spec => []UniqueId
<1>1. PoolInv => UniqueId
  BY DEF PoolInv, UniqueId, UniqueNodes, Losing
<1> QED BY PoolIsSound, <1>1, PTL

-----------------------------------------------------------------------------
(* The owners of the nodes.                                                *)

\* Thread t is between its test of node n and its last store to it.
Holds(t, n) ==
  pc[t] \in {"setId", "setState", "putState", "putId"} /\ cur[t] = n

\* Only one thread takes or gives back a node that is not muddled, and finds it
\* as it left it.
CleanHands ==
  \A n \in Nodes \ muddled, t \in Threads :
    Holds(t, n) =>
      /\ \A u \in Threads : Holds(u, n) => u = t
      /\ pc[t] \in {"setId", "setState", "putId"} => eMemState[n] = "free"
      /\ pc[t] = "setState" => ID[n] = fd[t]

\* Thread t has the descriptor of node n and will still come to give it back.
Owns(t, n) ==
  /\ fd[t] = ID[n]
  /\ \/ pc[t] \in {"read", "search", "claim", "setId", "setState", "store"}
     \/ pc[t] = "put" /\ cur[t] <= n
     \/ pc[t] = "putState" /\ cur[t] = n

Owned ==
  \A n \in Nodes \ muddled : eMemState[n] = "used" => \E t \in Threads : Owns(t, n)

\* What is muddled stays muddled.
LEMMA MuddledStays == [Next]_vars => muddled \subseteq muddled'
<1>1. ASSUME NEW t \in Threads, Claim(t) \/ Put(t) PROVE muddled \subseteq muddled'
  BY <1>1 DEF Claim, Put
<1>2. ASSUME NEW t \in Threads, Step(t), ~Claim(t), ~Put(t) PROVE muddled \subseteq muddled'
  BY <1>2 DEF Step, Accept, Enter, Start, StartFails, NoBuffer, Chunk, Search, SetId, SetState,
              Store, Close, PutState, PutId, Clear, Wipe, pool
<1>3. CASE UNCHANGED vars
  BY <1>3 DEF vars
<1> QED BY <1>1, <1>2, <1>3 DEF Next, Step

\* A thread's hold of a node begins with a test and stays at that node.
LEMMA HoldsStep ==
  ASSUME PoolInv, NEW t \in Threads, Step(t), NEW n \in Nodes, Holds(t, n)'
  PROVE  \/ Holds(t, n)
         \/ /\ Claim(t) /\ pc[t] = "claim" /\ pc'[t] = "setId" /\ eMemState[n] = "free"
            /\ cur[t] = n
            /\ InHands(n) => n \in muddled'
         \/ /\ Put(t) /\ pc[t] = "put" /\ pc'[t] = "putState"
            /\ InHands(n) => n \in muddled'
<1> USE DEF PoolInv, TypeOK, Goto, Walk, Holds
<1>1. CASE Claim(t)
  BY <1>1 DEF Claim, Muddle
<1>2. CASE Put(t)
  BY <1>2 DEF Put, Muddle
<1>3. CASE SetId(t) \/ SetState(t) \/ PutState(t) \/ PutId(t)
  BY <1>3 DEF SetId, SetState, PutState, PutId
<1>4. CASE Accept(t) \/ Enter(t) \/ Start(t) \/ StartFails(t) \/ NoBuffer(t)
  BY <1>4 DEF Accept, Enter, Start, StartFails, NoBuffer, Exit
<1>5. CASE Chunk(t) \/ Search(t) \/ Store(t) \/ Close(t) \/ Clear(t) \/ Wipe(t)
  BY <1>5 DEF Chunk, Search, Store, Close, Clear, Wipe, Exit
<1> QED BY <1>1, <1>2, <1>3, <1>4, <1>5 DEF Step

\* Only a thread that holds a node changes its state or its ID.
LEMMA OnlyHolders ==
  ASSUME PoolInv, NEW t \in Threads, Step(t), NEW n \in Nodes,
         ~(SetId(t) /\ cur[t] = n), ~(SetState(t) /\ cur[t] = n),
         ~(PutState(t) /\ cur[t] = n), ~(PutId(t) /\ cur[t] = n)
  PROVE  eMemState'[n] = eMemState[n] /\ (ID'[n] = ID[n])
<1> USE DEF PoolInv, TypeOK
<1>1. CASE SetId(t) \/ SetState(t) \/ PutState(t) \/ PutId(t)
  BY <1>1 DEF SetId, SetState, PutState, PutId
<1>2. CASE Accept(t) \/ Enter(t) \/ Start(t) \/ StartFails(t) \/ NoBuffer(t)
  BY <1>2 DEF Accept, Enter, Start, StartFails, NoBuffer, pool
<1>3. CASE Chunk(t) \/ Search(t) \/ Claim(t) \/ Store(t) \/ Close(t)
  BY <1>3 DEF Chunk, Search, Claim, Store, Close, pool
<1>4. CASE Put(t) \/ Clear(t) \/ Wipe(t)
  BY <1>4 DEF Put, Clear, Wipe, pool
<1> QED BY <1>1, <1>2, <1>3, <1>4 DEF Step

LEMMA CleanHandsStep == PoolInv /\ CleanHands /\ [Next]_vars => CleanHands'
<1> SUFFICES ASSUME PoolInv, CleanHands, [Next]_vars,
                    NEW n \in Nodes \ muddled', NEW t \in Threads, Holds(t, n)'
             PROVE  /\ \A u \in Threads : Holds(u, n)' => u = t
                    /\ pc'[t] \in {"setId", "setState", "putId"} => eMemState'[n] = "free"
                    /\ pc'[t] = "setState" => ID'[n] = fd'[t]
  BY DEF CleanHands
<1>0. n \in Nodes /\ n \notin muddled
  BY MuddledStays
<1>1. CASE UNCHANGED vars
  BY <1>0, <1>1 DEF vars, CleanHands, Holds
<1>2. ASSUME NEW s \in Threads, Step(s)
      PROVE  /\ \A u \in Threads : Holds(u, n)' => u = t
             /\ pc'[t] \in {"setId", "setState", "putId"} => eMemState'[n] = "free"
             /\ pc'[t] = "setState" => ID'[n] = fd'[t]
  <2>1. \A u \in Threads \ {s} : Holds(u, n)' <=> Holds(u, n)
    BY <1>2, OthersStay DEF Holds, PoolInv
  <2>2. \A u \in Threads : Holds(u, n) => InHands(n)
    BY DEF Holds, InHands
  <2>3. ASSUME NEW u \in Threads, Holds(u, n)' PROVE u = t
    <3>1. CASE Holds(s, n) \/ ~Holds(s, n)'
      BY <1>0, <2>1, <2>3, <3>1 DEF CleanHands
    <3>2. CASE ~Holds(s, n) /\ Holds(s, n)'
      <4>1. ~InHands(n)
        BY <1>0, <1>2, <3>2, HoldsStep
      <4> QED BY <2>1, <2>2, <2>3, <4>1
    <3> QED BY <3>1, <3>2
  <2>4. CASE t # s
    <3>1. Holds(t, n) /\ pc'[t] = pc[t] /\ fd'[t] = fd[t]
      BY <1>2, <2>1, <2>4, OthersStay DEF PoolInv
    <3>2. ~Holds(s, n)
      BY <1>0, <2>4, <3>1 DEF CleanHands
    <3>3. eMemState'[n] = eMemState[n] /\ (ID'[n] = ID[n])
      BY <1>0, <1>2, <3>2, OnlyHolders DEF SetId, SetState, PutState, PutId, Holds
    <3> QED BY <1>0, <2>3, <3>1, <3>3 DEF CleanHands
  <2>5. CASE t = s
    <3> USE DEF PoolInv, TypeOK, Goto
    <3>1. CASE ~Holds(t, n)
      <4>1. eMemState'[n] = eMemState[n]
        BY <1>0, <1>2, <2>5, <3>1, OnlyHolders DEF SetId, SetState, PutState, PutId, Holds
      <4> QED BY <1>0, <1>2, <2>3, <2>5, <3>1, <4>1, HoldsStep
    <3>2. CASE Holds(t, n)
      <4>1. /\ pc[t] \in {"setId", "setState", "putState", "putId"} /\ cur[t] = n
            /\ pc[t] \in {"setId", "setState", "putId"} => eMemState[n] = "free"
        BY <1>0, <3>2 DEF CleanHands, Holds
      <4>2. SetId(t) \/ SetState(t) \/ PutState(t) \/ PutId(t)
        BY <1>2, <2>5, <4>1
           DEF Step, Accept, Enter, Start, StartFails, NoBuffer, Chunk, Search, Claim, Store,
               Close, Put, Clear, Wipe
      <4>3. CASE SetId(t)
        BY <1>0, <2>3, <4>1, <4>3 DEF SetId, clients
      <4>4. CASE PutState(t)
        BY <1>0, <2>3, <4>1, <4>4 DEF PutState
      <4>5. CASE SetState(t) \/ PutId(t)
        BY <4>5 DEF SetState, PutId, Holds
      <4> QED BY <4>2, <4>3, <4>4, <4>5
    <3> QED BY <3>1, <3>2
  <2> QED BY <2>3, <2>4, <2>5
<1> QED BY <1>1, <1>2 DEF Next, Step

LEMMA OwnedStep == PoolInv /\ CleanHands /\ Owned /\ [Next]_vars => Owned'
<1> SUFFICES ASSUME PoolInv, CleanHands, Owned, [Next]_vars,
                    NEW n \in Nodes \ muddled', eMemState'[n] = "used"
             PROVE  \E t \in Threads : Owns(t, n)'
  BY DEF Owned
<1>0. n \in Nodes /\ n \notin muddled
  BY MuddledStays
<1>1. CASE UNCHANGED vars
  <2>1. PICK t \in Threads : Owns(t, n)
    BY <1>0, <1>1 DEF vars, Owned
  <2> QED BY <1>1, <2>1 DEF vars, Owns
<1>2. ASSUME NEW s \in Threads, Step(s) PROVE \E t \in Threads : Owns(t, n)'
  <2> USE DEF PoolInv, TypeOK, Goto, Walk
  <2>1. CASE SetState(s) /\ cur[s] = n
    <3>1. ID[n] = fd[s]
      BY <1>0, <2>1 DEF SetState, CleanHands, Holds
    <3> QED BY <2>1, <3>1 DEF SetState, Owns, clients
  <2>2. CASE PutState(s) /\ cur[s] = n
    BY <1>0, <2>2 DEF PutState
  <2>3. CASE (SetId(s) \/ PutId(s)) /\ cur[s] = n
    BY <1>0, <2>3 DEF SetId, PutId, CleanHands, Holds
  <2>4. CASE /\ ~(SetState(s) /\ cur[s] = n) /\ ~(PutState(s) /\ cur[s] = n)
             /\ ~(SetId(s) /\ cur[s] = n) /\ ~(PutId(s) /\ cur[s] = n)
    <3>1. eMemState[n] = "used" /\ (ID'[n] = ID[n])
      BY <1>0, <1>2, <2>4, OnlyHolders
    <3>2. PICK t \in Threads : Owns(t, n)
      BY <1>0, <3>1 DEF Owned
    <3>3. CASE t # s
      BY <1>2, <3>1, <3>2, <3>3, OthersStay DEF Owns
    <3>4. CASE t = s
      <4>1. CASE Chunk(t) \/ Search(t) \/ Claim(t) \/ SetId(t) \/ SetState(t) \/ Store(t)
        BY <3>1, <3>2, <4>1
           DEF Chunk, Search, Claim, SetId, SetState, Store, Owns, clients
      <4>2. CASE Close(t)
        BY <1>0, <3>1, <3>2, <4>2 DEF Close, Owns, Nodes
      <4>3. CASE Put(t)
        <5>1. pc[t] = "put" /\ cur[t] <= n /\ fd[t] = ID[n] /\ cur[t] \in Nodes
          BY <3>2, <4>3 DEF Put, Owns, Placed, AtPlace
        <5>2. CASE Mine(t, cur[t])
          <6>1. cur[t] = n
            BY <1>0, <3>1, <4>3, <5>1, <5>2 DEF Put, Mine
          <6> QED BY <3>1, <4>3, <5>1, <5>2, <6>1 DEF Put, Owns, clients
        <5>3. CASE ~Mine(t, cur[t])
          <6>1. cur[t] # n
            BY <3>1, <5>1, <5>3 DEF Mine
          <6>2. cur[t] < NMem /\ cur[t] + 1 <= n
            BY <1>0, <5>1, <6>1, PoolAssumption DEF Nodes
          <6>3. pc'[t] = "put" /\ cur'[t] = cur[t] + 1 /\ fd'[t] = fd[t]
            BY <4>3, <5>1, <5>3, <6>2 DEF Put, clients
          <6> QED BY <3>1, <5>1, <6>2, <6>3 DEF Owns
        <5> QED BY <5>2, <5>3
      <4>4. CASE PutState(t)
        BY <2>4, <3>2, <3>4, <4>4 DEF PutState, Owns
      <4>5. CASE ~(\/ Chunk(t) \/ Search(t) \/ Claim(t) \/ SetId(t) \/ SetState(t) \/ Store(t)
                   \/ Close(t) \/ Put(t) \/ PutState(t))
        BY <1>2, <3>2, <3>4, <4>5
           DEF Step, Accept, Enter, Start, StartFails, NoBuffer, PutId, Clear, Wipe, Owns
      <4> QED BY <4>1, <4>2, <4>3, <4>4, <4>5
    <3> QED BY <3>3, <3>4
  <2> QED BY <2>1, <2>2, <2>3, <2>4
<1> QED BY <1>1, <1>2 DEF Next, Step

\* For every pool and any interleaving of GetMem and PutMem: a node in use has
\* a read thread that will still give it back, except for nodes two threads
\* were taking or giving back at the same time.
THEOREM NodesAreGivenBack == Spec => []NodesHaveOwners
<1>1. Init => CleanHands /\ Owned
  BY DEF Init, CleanHands, Holds, Owned
<1>2. Owned => NodesHaveOwners
  BY DEF Owned, Owns, NodesHaveOwners
<1> QED BY PoolIsSound, <1>1, CleanHandsStep, OwnedStep, <1>2, PTL DEF Spec

-----------------------------------------------------------------------------
(* The entries of Devclient.                                               *)

LEMMA FiniteSides ==
  ASSUME NEW f, NEW c
  PROVE  /\ IsFiniteSet(EntriesBelow(f, c)) /\ Cardinality(EntriesBelow(f, c)) \in Nat
         /\ IsFiniteSet(Owners(f, c)) /\ Cardinality(Owners(f, c)) \in Nat
<1>1. IsFiniteSet(Slots)
  BY PoolAssumption, FS_Interval DEF Slots
<1>2. EntriesBelow(f, c) \in SUBSET Slots /\ Owners(f, c) \in SUBSET Threads
  BY DEF EntriesBelow, Owners
<1> QED BY <1>1, <1>2, PoolAssumption, FS_Subset, FS_CardinalityType

LEMMA FiniteSidesNext ==
  ASSUME NEW f, NEW c
  PROVE  /\ IsFiniteSet(EntriesBelow(f, c)') /\ Cardinality(EntriesBelow(f, c)') \in Nat
         /\ IsFiniteSet(Owners(f, c)') /\ Cardinality(Owners(f, c)') \in Nat
<1>1. IsFiniteSet(Slots)
  BY PoolAssumption, FS_Interval DEF Slots
<1>2. EntriesBelow(f, c)' \in SUBSET Slots /\ Owners(f, c)' \in SUBSET Threads
  BY DEF EntriesBelow, Owners
<1> QED BY <1>1, <1>2, PoolAssumption, FS_Subset, FS_CardinalityType

\* An element more: the set grows by one, or not at all.
LEMMA OneMore ==
  ASSUME NEW S, IsFiniteSet(S), NEW x, NEW R, R = S \/ R = S \cup {x}
  PROVE  /\ Cardinality(R) <= Cardinality(S) + 1
         /\ x \notin S /\ R = S \cup {x} => Cardinality(R) = Cardinality(S) + 1
<1>1. Cardinality(S) \in Nat
  BY FS_CardinalityType
<1>2. CASE x \in S
  <2>1. R = S
    BY <1>2
  <2> QED BY <1>1, <1>2, <2>1
<1>3. CASE x \notin S
  <2>1. Cardinality(S \cup {x}) = Cardinality(S) + 1
    BY <1>3, FS_AddElement
  <2> QED BY <1>1, <2>1
<1> QED BY <1>2, <1>3

\* No entry is 0, or with another descriptor, at the place a walk leaves.
LEMMA WalkedBy ==
  ASSUME NEW f \in Fds, NEW c \in Slots, Devfd[c] # f
  PROVE  EntriesBelow(f, c + 1) = EntriesBelow(f, c)
BY DEF EntriesBelow, Slots

\* A thread whose walk leaves place c owned no entry below c.
LEMMA OwnersLeft ==
  ASSUME PoolInv, EntriesOwned, NEW t \in Threads, pc[t] = "clear",
         NEW f \in Fds \ lost, fd[t] = f, Devfd[cur[t]] # f
  PROVE  /\ EntriesBelow(f, cur[t] + 1) = EntriesBelow(f, cur[t])
         /\ Cardinality(EntriesBelow(f, cur[t])) <= Cardinality(Owners(f, cur[t]))
         /\ Owners(f, cur[t]) \subseteq Owners(f, cur[t] + 1) \ {t}
<1>1. cur[t] \in Slots /\ cur[t] \in 1 .. NSlots + 1
  BY PoolAssumption DEF PoolInv, Placed, AtPlace, Slots
<1>2. EntriesBelow(f, cur[t] + 1) = EntriesBelow(f, cur[t])
  BY <1>1, WalkedBy
<1>3. Cardinality(EntriesBelow(f, cur[t])) <= Cardinality(Owners(f, cur[t]))
  BY <1>1 DEF EntriesOwned
<1>4. ASSUME NEW u \in Owners(f, cur[t])
      PROVE  u \in Owners(f, cur[t] + 1) \ {t}
  <2>1. u \in Threads /\ entered[u] /\ fd[u] = f /\ ~(Clearing(u) /\ cur[u] >= cur[t])
    BY DEF Owners
  <2>2. u # t
    BY <1>1, <2>1 DEF Slots, Clearing
  <2>3. Clearing(u) => cur[u] \in Slots
    BY <2>1 DEF PoolInv, Placed, AtPlace, Clearing
  <2>4. ~(Clearing(u) /\ cur[u] >= cur[t] + 1)
    BY <1>1, <2>1, <2>3 DEF Slots
  <2> QED BY <2>1, <2>2, <2>4 DEF Owners
<1> QED BY <1>2, <1>3, <1>4

\* What is lost stays lost.
LEMMA LostStays == [Next]_vars => lost \subseteq lost'
<1>1. ASSUME NEW t \in Threads, Wipe(t) \/ StartFails(t) \/ NoBuffer(t) PROVE lost \subseteq lost'
  BY <1>1 DEF Wipe, StartFails, NoBuffer
<1>2. ASSUME NEW t \in Threads, Step(t), ~Wipe(t), ~StartFails(t), ~NoBuffer(t)
      PROVE  lost \subseteq lost'
  BY <1>2 DEF Step, Accept, Enter, Chunk, Search, Claim, SetId, SetState, Store, Close, Put, PutId,
              PutState, Start, Clear, clients
<1>3. CASE UNCHANGED vars
  BY <1>3 DEF vars
<1> QED BY <1>1, <1>2, <1>3 DEF Next, Step

LEMMA EntriesOwnedStep == PoolInv /\ EntriesOwned /\ [Next]_vars => EntriesOwned'
<1> SUFFICES ASSUME PoolInv, EntriesOwned, [Next]_vars,
                    NEW f \in Fds \ lost', NEW c \in 1 .. NSlots + 1
             PROVE  Cardinality(EntriesBelow(f, c)') <= Cardinality(Owners(f, c)')
  BY DEF EntriesOwned
<1> DEFINE E == EntriesBelow(f, c)
           E2 == EntriesBelow(f, c)'
           W == Owners(f, c)
           W2 == Owners(f, c)'
<1>0. /\ IsFiniteSet(E) /\ Cardinality(E) \in Nat /\ IsFiniteSet(W) /\ Cardinality(W) \in Nat
      /\ IsFiniteSet(E2) /\ Cardinality(E2) \in Nat
      /\ IsFiniteSet(W2) /\ Cardinality(W2) \in Nat
      /\ Cardinality(E) <= Cardinality(W)
      /\ c \in Int /\ f # 0 /\ f \in Fds /\ f \notin lost
  BY LostStays, FiniteSides, FiniteSidesNext DEF EntriesOwned, Fds
<1>1. CASE UNCHANGED vars
  BY <1>0, <1>1 DEF vars, EntriesBelow, Owners, Clearing
<1>2. ASSUME NEW t \in Threads, Step(t)
      PROVE  Cardinality(E2) <= Cardinality(W2)
  <2>0. \A u \in Threads : u # t => (u \in W2 <=> u \in W)
    BY <1>2, OthersStay DEF Owners, Clearing, PoolInv
  <2>1. CASE Enter(t) /\ Devfd[cur[t]] = 0
    <3>1. /\ cur[t] \in Slots /\ ~entered[t] /\ pc'[t] = "start" /\ entered'[t] /\ fd'[t] = fd[t]
          /\ Devfd' = [Devfd EXCEPT ![cur[t]] = fd[t]]
      BY <2>1 DEF Enter, Goto, PoolInv, Placed, AtPlace, TypeOK
    <3>2. t \notin W
      BY <3>1 DEF Owners
    <3>3. CASE fd[t] # f
      <4>1. E2 = E
        BY <1>0, <2>1, <3>1, <3>3 DEF EntriesBelow, PoolInv, TypeOK
      <4>2. t \notin W2
        BY <3>1, <3>3 DEF Owners
      <4>3. W2 = W
        BY <2>0, <3>2, <4>2 DEF Owners
      <4> QED BY <1>0, <4>1, <4>3
    <3>4. CASE fd[t] = f
      <4>1. W2 = W \cup {t}
        <5>1. t \in W2
          BY <3>1, <3>4 DEF Owners, Clearing
        <5> QED BY <2>0, <5>1 DEF Owners
      <4>2. Cardinality(W2) = Cardinality(W) + 1
        BY <1>0, <3>2, <4>1, OneMore
      <4>3. E2 = E \/ E2 = E \cup {cur[t]}
        BY <2>1, <3>1, <3>4 DEF EntriesBelow, PoolInv, TypeOK
      <4>4. Cardinality(E2) <= Cardinality(E) + 1
        BY <1>0, <4>3, OneMore
      <4> QED BY <1>0, <4>2, <4>4
    <3> QED BY <3>3, <3>4
  <2>7. CASE Wipe(t) /\ Devfd[cur[t]] # fd[t]
    <3>1. /\ cur[t] \in Slots /\ pc[t] = "wipe" /\ ~entered'[t] /\ fd[t] # f
          /\ Devfd' = [Devfd EXCEPT ![cur[t]] = 0] /\ Devfd[cur[t]] # f
      BY <1>0, <2>7 DEF Wipe, Mistaken, Exit, PoolInv, Placed, AtPlace, TypeOK
    <3>2. E2 = E
      BY <1>0, <3>1 DEF EntriesBelow, PoolInv, TypeOK
    <3>3. t \notin W /\ t \notin W2
      BY <3>1 DEF Owners
    <3>4. W2 = W
      BY <2>0, <3>3 DEF Owners
    <3> QED BY <1>0, <3>2, <3>4
  <2>8. CASE StartFails(t) \/ NoBuffer(t)
    <3>1. ~entered'[t] /\ fd[t] # f /\ E2 = E
      BY <1>0, <2>8 DEF StartFails, NoBuffer, Exit, PoolInv, TypeOK, EntriesBelow
    <3>2. t \notin W /\ t \notin W2
      BY <3>1 DEF Owners
    <3>3. W2 = W
      BY <2>0, <3>2 DEF Owners
    <3> QED BY <1>0, <3>1, <3>3
  <2>9. CASE Clear(t) /\ Devfd[cur[t]] = fd[t]
    <3>1. /\ E2 = E /\ entered'[t] = entered[t] /\ fd'[t] = fd[t] /\ cur'[t] = cur[t]
          /\ pc[t] = "clear" /\ pc'[t] = "wipe"
      BY <2>9 DEF Clear, Goto, EntriesBelow, PoolInv, TypeOK
    <3>2. t \in W2 <=> t \in W
      BY <3>1 DEF Owners, Clearing
    <3>3. W2 = W
      BY <2>0, <3>2 DEF Owners
    <3> QED BY <1>0, <3>1, <3>3
  <2>2. CASE Wipe(t) /\ Devfd[cur[t]] = fd[t]
    <3>1. /\ cur[t] \in Slots /\ pc[t] = "wipe" /\ ~entered'[t] /\ fd[t] \in Fds
          /\ Devfd' = [Devfd EXCEPT ![cur[t]] = 0]
      BY <2>2 DEF Wipe, Exit, PoolInv, Placed, AtPlace, TypeOK
    <3>2. W2 = W \ {t}
      BY <2>0, <3>1 DEF Owners
    <3>3. CASE fd[t] # f \/ c <= cur[t]
      <4>1. E2 = E
        BY <1>0, <2>2, <3>1, <3>3 DEF EntriesBelow, PoolInv, TypeOK, Slots
      <4>2. t \notin W
        BY <1>0, <3>1, <3>3 DEF Owners, Clearing, Slots
      <4>3. W2 = W
        BY <3>2, <4>2
      <4> QED BY <1>0, <4>1, <4>3
    <3>4. CASE fd[t] = f /\ cur[t] < c
      <4>1. cur[t] \in E
        BY <2>2, <3>1, <3>4 DEF EntriesBelow
      <4>2. E2 = E \ {cur[t]}
        BY <1>0, <3>1 DEF EntriesBelow, PoolInv, TypeOK
      <4>3. Cardinality(E2) = Cardinality(E) - 1
        BY <1>0, <4>1, <4>2, FS_RemoveElement
      <4>4. Cardinality(W2) >= Cardinality(W) - 1
        BY <1>0, <3>2, FS_RemoveElement
      <4> QED BY <1>0, <4>3, <4>4
    <3>5. fd[t] # f \/ c <= cur[t] \/ (fd[t] = f /\ cur[t] < c)
      BY <1>0, <3>1 DEF Slots
    <3> QED BY <3>3, <3>4, <3>5
  <2>3. CASE Clear(t) /\ Devfd[cur[t]] # fd[t]
    <3>1. cur[t] \in Slots /\ pc[t] = "clear" /\ E2 = E
      BY <2>3 DEF Clear, PoolInv, Placed, AtPlace, EntriesBelow
    <3>2. \/ /\ pc'[t] = "clear" /\ cur'[t] = cur[t] + 1
             /\ fd'[t] = fd[t] /\ entered'[t] = entered[t]
          \/ cur[t] = NSlots /\ ~entered'[t]
      BY <2>3, <3>1, PoolAssumption DEF Clear, Exit, Goto, Walk, PoolInv, TypeOK, Slots
    <3>3. CASE fd[t] = f /\ c = cur[t] + 1
      <4>1. /\ E = EntriesBelow(f, cur[t])
            /\ Cardinality(EntriesBelow(f, cur[t])) <= Cardinality(Owners(f, cur[t]))
            /\ Owners(f, cur[t]) \subseteq W \ {t}
        BY <1>0, <2>3, <3>1, <3>3, OwnersLeft
      <4>2. W \ {t} \subseteq W2
        BY <2>0 DEF Owners
      <4>3. Owners(f, cur[t]) \in SUBSET W2
        BY <4>1, <4>2
      <4>4. Cardinality(Owners(f, cur[t])) <= Cardinality(W2)
        BY <1>0, <4>3, FS_Subset
      <4> QED BY <1>0, <3>1, <4>1, <4>4, FiniteSides
    <3>4. CASE fd[t] # f
      <4>1. t \notin W /\ t \notin W2
        BY <3>2, <3>4 DEF Owners
      <4>2. W2 = W
        BY <2>0, <4>1 DEF Owners
      <4> QED BY <1>0, <3>1, <4>2
    <3>5. CASE fd[t] = f /\ c # cur[t] + 1
      <4>1. CASE c <= cur[t]
        <5>1. t \notin W /\ t \notin W2
          BY <1>0, <3>1, <3>2, <4>1 DEF Owners, Clearing, Slots
        <5>2. W2 = W
          BY <2>0, <5>1 DEF Owners
        <5> QED BY <1>0, <3>1, <5>2
      <4>2. CASE c > cur[t] + 1
        <5>1. cur[t] # NSlots
          BY <3>1, <4>2, PoolAssumption DEF Slots
        <5>2. t \in W2 <=> t \in W
          BY <1>0, <3>1, <3>2, <4>2, <5>1 DEF Owners, Clearing, Slots
        <5>3. W2 = W
          BY <2>0, <5>2 DEF Owners
        <5> QED BY <1>0, <3>1, <5>3
      <4> QED BY <1>0, <3>1, <3>5, <4>1, <4>2 DEF Slots
    <3> QED BY <3>3, <3>4, <3>5
  <2>4. CASE Put(t) \/ PutId(t)
    <3>1. E2 = E /\ entered'[t] = entered[t] /\ fd'[t] = fd[t] /\ ~Clearing(t)
      BY <2>4 DEF Clearing, Put, PutId, clients, EntriesBelow
    <3>2. ~Clearing(t)' \/ cur'[t] = 1
      BY <2>4 DEF Clearing, Put, PutId, Goto, Walk, PoolInv, TypeOK
    <3>3. CASE c = 1
      <4>1. E2 = {}
        BY <3>3 DEF EntriesBelow, Slots
      <4> QED BY <1>0, <4>1, FS_EmptySet
    <3>4. CASE c # 1
      <4>1. t \in W2 <=> t \in W
        BY <3>1, <3>2, <3>4 DEF Owners
      <4>2. W2 = W
        BY <2>0, <4>1 DEF Owners
      <4> QED BY <1>0, <3>1, <4>2
    <3> QED BY <3>3, <3>4
  <2>5. CASE Accept(t)
    <3>1. E2 = E /\ ~entered[t] /\ ~entered'[t]
      BY <2>5 DEF Accept, EntriesBelow, PoolInv, Placed, AtPlace
    <3>2. W2 = W
      BY <2>0, <3>1 DEF Owners
    <3> QED BY <1>0, <3>1, <3>2
  <2>6. CASE \/ Enter(t) /\ Devfd[cur[t]] # 0
             \/ Chunk(t) \/ Search(t) \/ Claim(t) \/ SetId(t) \/ SetState(t) \/ Store(t)
             \/ Close(t) \/ Start(t) \/ PutState(t)
    <3>1. E2 = E /\ entered'[t] = entered[t] /\ fd'[t] = fd[t] 
      BY <2>6 DEF Enter, Chunk, Search, Claim, SetId, SetState, Store, Close, Start, PutState, clients, EntriesBelow
    <3>2. ~Clearing(t) /\ ~Clearing(t)'
      BY <2>6 DEF Clearing, Enter, Chunk, Search, Claim, SetId, SetState, Store, Close, Start, PutState, Goto, Walk,
                  PoolInv, TypeOK
    <3>3. t \in W2 <=> t \in W
      BY <3>1, <3>2 DEF Owners
    <3>4. W2 = W
      BY <2>0, <3>3 DEF Owners
    <3> QED BY <1>0, <3>1, <3>4
  <2> QED BY <1>2, <2>1, <2>2, <2>3, <2>4, <2>5, <2>6, <2>7, <2>8, <2>9 DEF Step
<1> QED BY <1>1, <1>2 DEF Next, Step

\* At the end of the table the two sides are those of the properties.
LEMMA WholeTable ==
  ASSUME PoolInv, NEW f
  PROVE  /\ Entries(f) = EntriesBelow(f, NSlots + 1)
         /\ Entered(f) = Owners(f, NSlots + 1)
<1>1. Entries(f) = EntriesBelow(f, NSlots + 1)
  BY PoolAssumption DEF Entries, EntriesBelow, Slots
<1>2. \A t \in Threads : Clearing(t) => ~(cur[t] >= NSlots + 1)
  BY PoolAssumption DEF PoolInv, Placed, AtPlace, Slots, Clearing
<1> QED BY <1>1, <1>2 DEF Entered, Owners

LEMMA AllEnteredStep ==
  PoolInv /\ EntriesOwned /\ AllEntered /\ [Next]_vars => AllEntered'
<1> SUFFICES ASSUME PoolInv, EntriesOwned, AllEntered, [Next]_vars, ~crowded'
             PROVE  /\ \A t \in Threads : pc'[t] \notin {"none", "accepted"} => entered'[t]
                    /\ \A f \in Fds \ lost' : Cardinality(Entries(f)') = Cardinality(Entered(f)')
  BY DEF AllEntered
<1>1. CASE UNCHANGED vars
  BY <1>1 DEF vars, Entries, Entered, AllEntered
<1>2. ASSUME NEW t \in Threads, Step(t)
      PROVE  /\ \A u \in Threads : pc'[u] \notin {"none", "accepted"} => entered'[u]
             /\ \A f \in Fds \ lost' : Cardinality(Entries(f)') = Cardinality(Entered(f)')
  <2>1. ~crowded
    BY <1>2 DEF Step, Accept, Enter, Chunk, Search, Claim, SetId, SetState, Store, Close, Put,
                PutId, Clear, PutState, Start, StartFails, NoBuffer, Wipe, clients
  <2>2. /\ \A u \in Threads : pc[u] \notin {"none", "accepted"} => entered[u]
        /\ \A f \in Fds \ lost : Cardinality(Entries(f)) = Cardinality(Entered(f))
    BY <2>1 DEF AllEntered
  <2>3. pc'[t] \notin {"none", "accepted"} => entered'[t]
    <3>1. CASE Accept(t)
      BY <3>1 DEF Accept, Goto, PoolInv, TypeOK
    <3>2. CASE Enter(t)
      <4>1. CASE Devfd[cur[t]] = 0
        BY <3>2, <4>1 DEF Enter, PoolInv, TypeOK
      <4>2. CASE Devfd[cur[t]] # 0
        <5>1. cur[t] # NSlots /\ cur[t] \in Slots /\ pc[t] = "accepted"
          BY <3>2, <4>2 DEF Enter, PoolInv, Placed, AtPlace
        <5>2. cur[t] < NSlots
          BY <5>1, PoolAssumption DEF Slots
        <5> QED BY <3>2, <4>2, <5>1, <5>2 DEF Enter, Walk, Goto, PoolInv, TypeOK
      <4> QED BY <4>1, <4>2
    <3>5. CASE Wipe(t) \/ StartFails(t) \/ NoBuffer(t)
      BY <3>5 DEF Wipe, StartFails, NoBuffer, Exit, Goto, PoolInv, TypeOK
    <3>3. CASE Clear(t)
      BY <2>2, <3>3 DEF Clear, Exit, Goto, Walk, PoolInv, TypeOK
    <3>4. CASE \/ Chunk(t) \/ Search(t) \/ Claim(t) \/ SetId(t) \/ SetState(t) \/ Store(t)
               \/ Close(t) \/ Put(t) \/ PutState(t) \/ PutId(t) \/ Start(t)
      BY <2>2, <3>4 DEF Chunk, Search, Claim, SetId, SetState, Store, Close, Put, PutState, PutId,
                        Start, clients
    <3> QED BY <1>2, <3>1, <3>2, <3>3, <3>4, <3>5 DEF Step
  <2>4. ASSUME NEW u \in Threads, pc'[u] \notin {"none", "accepted"} PROVE entered'[u]
    BY <1>2, <2>2, <2>3, <2>4, OthersStay DEF PoolInv
  <2>5. ASSUME NEW f \in Fds \ lost' PROVE Cardinality(Entries(f)') = Cardinality(Entered(f)')
    <3> DEFINE E == Entries(f)
               E2 == Entries(f)'
               W == Entered(f)
               W2 == Entered(f)'
    <3>0. /\ IsFiniteSet(E) /\ Cardinality(E) \in Nat
          /\ IsFiniteSet(W) /\ Cardinality(W) \in Nat
          /\ Cardinality(E) = Cardinality(W) /\ f # 0 /\ f \in Fds /\ f \notin lost
      BY <2>2, LostStays, WholeTable, FiniteSides DEF Fds
    <3>1. \A u \in Threads : u # t => (u \in W2 <=> u \in W)
      BY <1>2, OthersStay DEF Entered, PoolInv
    <3>2. CASE Enter(t) /\ Devfd[cur[t]] = 0
      <4>1. /\ cur[t] \in Slots /\ ~entered[t] /\ entered'[t] /\ fd'[t] = fd[t]
            /\ Devfd' = [Devfd EXCEPT ![cur[t]] = fd[t]]
        BY <3>2 DEF Enter, PoolInv, Placed, AtPlace, TypeOK
      <4>2. t \notin W
        BY <4>1 DEF Entered
      <4>3. CASE fd[t] = f
        <5>1. t \in W2
          BY <4>1, <4>3 DEF Entered
        <5>2. W2 = W \cup {t}
          BY <3>1, <5>1 DEF Entered
        <5>3. cur[t] \notin E
          BY <3>0, <3>2 DEF Entries
        <5>4. \A i \in Slots : Devfd'[i] = IF i = cur[t] THEN f ELSE Devfd[i]
          BY <4>1, <4>3 DEF PoolInv, TypeOK
        <5>5. E2 = E \cup {cur[t]}
          BY <4>1, <5>4 DEF Entries
        <5>6. Cardinality(W2) = Cardinality(W) + 1
          BY <3>0, <4>2, <5>2, OneMore
        <5>7. Cardinality(E2) = Cardinality(E) + 1
          BY <3>0, <5>3, <5>5, OneMore
        <5> QED BY <3>0, <5>6, <5>7
      <4>4. CASE fd[t] # f
        <5>1. t \notin W2
          BY <4>1, <4>4 DEF Entered
        <5>2. W2 = W
          BY <3>1, <4>2, <5>1 DEF Entered
        <5>3. E2 = E
          BY <3>0, <3>2, <4>1, <4>4 DEF Entries, PoolInv, TypeOK
        <5> QED BY <3>0, <5>2, <5>3
      <4> QED BY <4>3, <4>4
    <3>6. CASE Wipe(t) /\ Devfd[cur[t]] # fd[t]
      <4>1. /\ cur[t] \in Slots /\ ~entered'[t] /\ fd[t] # f
            /\ Devfd' = [Devfd EXCEPT ![cur[t]] = 0] /\ Devfd[cur[t]] # f
        BY <3>0, <3>6 DEF Wipe, Mistaken, Exit, PoolInv, Placed, AtPlace, TypeOK
      <4>2. E2 = E
        BY <3>0, <4>1 DEF Entries, PoolInv, TypeOK
      <4>3. W2 = W
        BY <3>1, <4>1 DEF Entered
      <4> QED BY <3>0, <4>2, <4>3
    <3>7. CASE StartFails(t) \/ NoBuffer(t)
      <4>1. ~entered'[t] /\ fd[t] # f /\ E2 = E
        BY <3>0, <3>7 DEF StartFails, NoBuffer, Exit, PoolInv, TypeOK, Entries
      <4>2. W2 = W
        BY <3>1, <4>1 DEF Entered
      <4> QED BY <3>0, <4>1, <4>2
    <3>8. CASE Clear(t) /\ Devfd[cur[t]] = fd[t]
      <4>1. E2 = E /\ entered'[t] = entered[t] /\ fd'[t] = fd[t]
        BY <3>8 DEF Clear, Entries
      <4>2. W2 = W
        BY <3>1, <4>1 DEF Entered
      <4> QED BY <3>0, <4>1, <4>2
    <3>3. CASE Wipe(t) /\ Devfd[cur[t]] = fd[t]
      <4>1. /\ cur[t] \in Slots /\ fd[t] \in Fds /\ ~entered'[t] /\ entered[t]
            /\ Devfd' = [Devfd EXCEPT ![cur[t]] = 0]
        BY <2>2, <3>3 DEF Wipe, Exit, PoolInv, Placed, AtPlace, TypeOK
      <4>2. W2 = W \ {t}
        BY <3>1, <4>1 DEF Entered
      <4>3. CASE fd[t] = f
        <5>1. cur[t] \in E /\ t \in W
          BY <3>3, <4>1, <4>3 DEF Entries, Entered
        <5>2. \A i \in Slots : Devfd'[i] = IF i = cur[t] THEN 0 ELSE Devfd[i]
          BY <4>1 DEF PoolInv, TypeOK
        <5>3. E2 = E \ {cur[t]}
          BY <3>0, <4>1, <5>2 DEF Entries
        <5>4. Cardinality(W2) = Cardinality(W) - 1
          BY <3>0, <4>2, <5>1, FS_RemoveElement
        <5>5. Cardinality(E2) = Cardinality(E) - 1
          BY <3>0, <5>1, <5>3, FS_RemoveElement
        <5> QED BY <3>0, <5>4, <5>5
      <4>4. CASE fd[t] # f
        <5>1. E2 = E /\ t \notin W
          BY <3>0, <3>3, <4>1, <4>4 DEF Entries, Entered, PoolInv, TypeOK
        <5> QED BY <3>0, <4>2, <5>1
      <4> QED BY <4>3, <4>4
    <3>4. CASE Clear(t) /\ Devfd[cur[t]] # fd[t]
      <4>1. cur[t] \in Slots /\ pc[t] = "clear" /\ E2 = E /\ entered[t]
        BY <2>2, <3>4 DEF Clear, PoolInv, Placed, AtPlace, Entries
      <4>2. CASE fd[t] # f
        <5>1. \/ fd'[t] = fd[t]
              \/ ~entered'[t]
          BY <3>4, <4>1 DEF Clear, Exit, PoolInv, TypeOK
        <5>2. W2 = W
          BY <3>1, <4>2, <5>1 DEF Entered
        <5> QED BY <3>0, <4>1, <5>2
      <4>3. CASE fd[t] = f /\ cur[t] < NSlots
        <5>1. fd'[t] = fd[t] /\ entered'[t] = entered[t]
          BY <3>4, <4>3 DEF Clear
        <5>2. W2 = W
          BY <3>1, <5>1 DEF Entered
        <5> QED BY <3>0, <4>1, <5>2
      <4>4. CASE fd[t] = f /\ cur[t] = NSlots
        <5>1. /\ E = EntriesBelow(f, cur[t])
              /\ Cardinality(EntriesBelow(f, cur[t])) <= Cardinality(Owners(f, cur[t]))
              /\ Owners(f, cur[t]) \subseteq W \ {t}
          BY <3>0, <3>4, <4>1, <4>4, OwnersLeft, WholeTable
        <5>2. t \in W
          BY <4>1, <4>4 DEF Entered
        <5>3. /\ IsFiniteSet(W \ {t})
              /\ Cardinality(W \ {t}) = Cardinality(W) - 1
          BY <3>0, <5>2, FS_RemoveElement
        <5>4. Cardinality(Owners(f, cur[t])) <= Cardinality(W) - 1
          BY <5>1, <5>3, FS_Subset
        <5>5. FALSE
          BY <3>0, <5>1, <5>4, FiniteSides
        <5> QED BY <5>5
      <4> QED BY <4>1, <4>2, <4>3, <4>4, PoolAssumption DEF Slots
    <3>5. CASE /\ ~Clear(t) /\ ~Wipe(t) /\ ~StartFails(t) /\ ~NoBuffer(t)
               /\ ~(Enter(t) /\ Devfd[cur[t]] = 0)
      <4>1. E2 = E
        BY <1>2, <3>5 DEF Step, Accept, Enter, Chunk, Search, Claim, SetId, SetState, Store,
                          Close, Put, PutId, PutState, Start, clients, Entries
      <4>2. \/ entered'[t] = entered[t] /\ fd'[t] = fd[t]
            \/ ~entered[t] /\ ~entered'[t]
        BY <1>2, <3>5 DEF Step, Accept, Enter, Chunk, Search, Claim, SetId, SetState, Store,
                          Close, Put, PutId, PutState, Start, clients, PoolInv, Placed, AtPlace
      <4>3. W2 = W
        BY <3>1, <4>2 DEF Entered
      <4> QED BY <3>0, <4>1, <4>3
    <3> QED BY <3>2, <3>3, <3>4, <3>5, <3>6, <3>7, <3>8
  <2> QED BY <2>4, <2>5
<1> QED BY <1>1, <1>2 DEF Next, Step

LEMMA InitEntries == Init => EntriesOwned /\ AllEntered
<1> SUFFICES ASSUME Init PROVE EntriesOwned /\ AllEntered
  OBVIOUS
<1>1. \A f \in Fds, c \in 1 .. NSlots + 1 : EntriesBelow(f, c) = {}
  BY DEF Init, EntriesBelow, Fds
<1>2. EntriesOwned
  BY <1>1, FiniteSides, FS_EmptySet DEF EntriesOwned
<1>3. \A f \in Fds : Entries(f) = {} /\ Entered(f) = {}
  BY DEF Init, Entries, Entered, Fds
<1>4. AllEntered
  BY <1>3 DEF AllEntered, Init
<1> QED BY <1>2, <1>4

\* Every state of Spec: what the entries of Devclient have to do with the threads.
THEOREM EntriesAreOwned == Spec => [](PoolInv /\ EntriesOwned /\ AllEntered)
<1>1. PoolInv /\ [Next]_vars => PoolInv'
  BY TypeStep, PlacedStep, DescriptorsStep, FreeNodesStep, UniqueNodesStep, PassedStep DEF PoolInv
<1> QED BY InitPool, InitEntries, <1>1, EntriesOwnedStep, AllEnteredStep, PTL DEF Spec

\* An entry of Devclient never outlives the read threads of its descriptor, for every
\* table and however the walks of the threads that clear it overlap, but for the
\* descriptors whose start failed or whose clean-up was overtaken by another one.
THEOREM EntriesDoNotOutliveThreads == Spec => []NoStaleEntry
<1>1. PoolInv /\ EntriesOwned => NoStaleEntry
  BY WholeTable, PoolAssumption DEF EntriesOwned, NoStaleEntry
<1> QED BY EntriesAreOwned, <1>1, PTL

\* As long as Devclient never was full, each descriptor whose clean-up was not
\* overtaken has as many entries as threads entered with it, although a thread may
\* clear another one's entry.
THEOREM EveryClientHasItsEntry == Spec => []ClientsVisible
<1>1. AllEntered => ClientsVisible
  BY DEF AllEntered, ClientsVisible
<1> QED BY EntriesAreOwned, <1>1, PTL
=============================================================================
