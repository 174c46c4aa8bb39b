----------------------------- MODULE RingProofs -----------------------------
(***************************************************************************)
(* Proofs about the two rings of MCRings.                                  *)
(*                                                                         *)
(* The serial receive ring (RxRing), for every MEMSIZE, MaxLen and         *)
(* MaxBytes: the inductive invariant says how the two indices account for  *)
(* the bytes between them and which byte each of those slots holds.        *)
(*                                                                         *)
(* The ring of the debug channel (NetPrint, N in MCRings), for every size  *)
(* of the ring, of a batch and of a string and any number of threads that  *)
(* print: until two of them overlap inside PutData, the same for its two   *)
(* positions.                                                              *)
(***************************************************************************)
EXTENDS MCRings, TLAPS

\* Bytes between the two indices, HeadAddr = MEMSIZE standing for 0.
DistOf(h, e) ==
  IF h = MEMSIZE THEN (IF e = 0 THEN 0 ELSE MEMSIZE - e)
  ELSE IF h >= e THEN h - e ELSE h + MEMSIZE - e
Dist == DistOf(HeadAddr, EndAddr)

\* The slot of the k-th of them.
Slot(e, k) == IF e + k >= MEMSIZE THEN e + k - MEMSIZE ELSE e + k

\* The first n slots from EndAddr on hold the bytes the reader is due.
HeldIn(d, e, b, n) == \A k \in Index : k < n => d[Slot(e, k)] = b + k + 1
Held(n) == HeldIn(DataAddr, EndAddr, delivered, n)

Shape ==
  /\ (pc = "wrap") <=> (HeadAddr = MEMSIZE)
  /\ pc \notin {"read", "closed"} => len >= 1
  /\ pc = "closed" => HeadAddr = EndAddr
  /\ pc = "advance" => HeadAddr + len <= MEMSIZE
  /\ pc = "restart" => max_length = MEMSIZE - HeadAddr /\ max_length < len
  /\ pc \in {"rest", "advanceRest"} =>
       HeadAddr = 0 /\ max_length >= 1 /\ max_length < len

\* The bytes not delivered lie between the indices or are still in hand.
Count ==
  Clean =>
    /\ pc \in {"read", "wrap"} => received - delivered = Dist
    /\ pc \in {"store", "advance", "restart"} => received - delivered = Dist + len
    /\ pc \in {"rest", "advanceRest"} =>
         received - delivered = Dist + (len - max_length)

Room ==
  Clean /\ pc \in {"advance", "restart", "rest", "advanceRest"} =>
    received - delivered < MEMSIZE

\* What lies between the indices, and ahead of HeadAddr once it is stored.
Content ==
  Clean =>
    /\ pc \in {"read", "wrap", "store", "rest"} => Held(Dist)
    /\ pc = "advance" => Held(Dist + len)
    /\ pc = "restart" => Held(Dist + max_length)
    /\ pc = "advanceRest" => Held(Dist + (len - max_length))

IInv == TypeOK /\ Shape /\ Count /\ Room /\ Content /\ InOrder

-----------------------------------------------------------------------------
(* Arithmetic of the indices.                                              *)

LEMMA RingSize == MEMSIZE \in Nat /\ MEMSIZE >= 2 /\ MaxLen \in Nat /\ MaxLen < MEMSIZE
BY RingAssumption

LEMMA DistRange ==
  ASSUME NEW h \in 0 .. MEMSIZE, NEW e \in Index
  PROVE  DistOf(h, e) \in Nat /\ DistOf(h, e) < MEMSIZE
BY RingSize DEF DistOf, Index

\* Moving the write index forward, with or without reaching the end.
LEMMA DistForward ==
  ASSUME NEW h \in Index, NEW e \in Index, NEW n \in Nat,
         h + n <= MEMSIZE, DistOf(h, e) + n < MEMSIZE
  PROVE  /\ DistOf(h + n, e) = DistOf(h, e) + n
         /\ h + n >= MEMSIZE => DistOf(0, e) = DistOf(h, e) + n
BY RingSize DEF DistOf, Index

\* Completing a wrap changes nothing for the reader.
LEMMA DistWrap ==
  ASSUME NEW e \in Index
  PROVE  DistOf(0, e) = DistOf(MEMSIZE, e)
BY RingSize DEF DistOf, Index

\* Moving the read index forward.
LEMMA DistTake ==
  ASSUME NEW h \in 0 .. MEMSIZE, NEW e \in Index, DistOf(h, e) >= 1
  PROVE  /\ Slot(e, 1) \in Index
         /\ DistOf(h, Slot(e, 1)) = DistOf(h, e) - 1
BY RingSize DEF DistOf, Slot, Index

LEMMA DistEmpty ==
  ASSUME NEW h \in 0 .. MEMSIZE, NEW e \in Index, h # e, ~(h = MEMSIZE /\ e = 0)
  PROVE  DistOf(h, e) >= 1
BY RingSize DEF DistOf, Index

\* The k-th slot from the reader: inside the occupied part it is not one of
\* the n slots from HeadAddr on, and beyond it it is.
LEMMA SlotPlace ==
  ASSUME NEW h \in Index, NEW e \in Index, NEW n \in Nat, NEW k \in Nat,
         h + n <= MEMSIZE, DistOf(h, e) + n < MEMSIZE, k < DistOf(h, e) + n
  PROVE  /\ Slot(e, k) \in Index
         /\ k < DistOf(h, e) => Slot(e, k) < h \/ Slot(e, k) >= h + n
         /\ k >= DistOf(h, e) => Slot(e, k) = h + (k - DistOf(h, e))
BY RingSize DEF DistOf, Slot, Index

\* Seen from the next slot, every slot is one nearer.
LEMMA SlotNext ==
  ASSUME NEW e \in Index, NEW k \in Nat, k + 1 < MEMSIZE
  PROVE  Slot(Slot(e, 1), k) = Slot(e, k + 1)
BY RingSize DEF Slot, Index

\* What memcpy leaves in the buffer: the copied piece of the chunk, and the
\* old bytes everywhere else.
LEMMA CopyFacts ==
  ASSUME TypeOK, NEW at \in Int, NEW from \in Int, NEW n \in Int,
         Copy(at, from, n)
  PROVE  /\ DataAddr' \in [Index -> Int]
         /\ \A j \in Index :
              DataAddr'[j] = IF j >= at /\ j < at + n
                             THEN received - len + 1 + (from + j - at)
                             ELSE DataAddr[j]
<1>1. \A j \in Index : Chunk(from + j - at) \in Int /\ DataAddr[j] \in Int
  BY RingAssumption DEF TypeOK, Index, Chunk
<1>2. DataAddr' \in [Index -> Int]
  BY <1>1 DEF Copy
<1>3. ASSUME NEW j \in Index
      PROVE  j \in at .. (at + n - 1) <=> j >= at /\ j < at + n
  BY RingAssumption DEF Index
<1>4. ASSUME NEW j \in Index
      PROVE  DataAddr'[j] = IF j >= at /\ j < at + n
                            THEN received - len + 1 + (from + j - at)
                            ELSE DataAddr[j]
  <2>1. DataAddr'[j] = IF j \in at .. (at + n - 1) THEN Chunk(from + j - at)
                                                   ELSE DataAddr[j]
    BY DEF Copy
  <2> QED
    BY <2>1, <1>3, RingAssumption DEF Chunk, Index
<1> QED
  BY <1>2, <1>4

LEMMA InitOK == Init => IInv
<1> SUFFICES ASSUME Init PROVE IInv
  OBVIOUS
<1> USE DEF Init
<1>1. TypeOK /\ Shape
  <2>1. DataAddr \in [Index -> Int]
    <3>1. DataAddr = [j \in Index |-> 0] /\ 0 \in Int
      OBVIOUS
    <3> QED
      BY <3>1
  <2>2. HeadAddr # MEMSIZE /\ EndAddr \in Index
    BY RingAssumption DEF Index
  <2>3. overrun \in BOOLEAN /\ torn \in BOOLEAN /\ pc \in Where
    BY DEF Where
  <2>4. 0 \in 0 .. MEMSIZE /\ 0 \in 0 .. MaxLen /\ 0 \in Nat /\ 0 \in Int
    BY RingAssumption
  <2>5. TypeOK
    BY <2>1, <2>2, <2>3, <2>4 DEF TypeOK
  <2>6. Shape
    BY <2>2 DEF Shape
  <2> QED
    BY <2>5, <2>6
<1>2. Dist = 0
  BY RingSize DEF Dist, DistOf
<1>3. Count /\ Room /\ InOrder
  BY <1>2 DEF Count, Room, InOrder
<1>4. Content
  BY <1>2, RingSize DEF Content, Held, HeldIn, Index
<1> QED
  BY <1>1, <1>3, <1>4 DEF IInv

LEMMA TypeStep == IInv /\ [Next]_vars => TypeOK' /\ Shape'
<1> SUFFICES ASSUME IInv, [Next]_vars PROVE TypeOK' /\ Shape'
  OBVIOUS
<1> USE RingAssumption DEF IInv, TypeOK, Shape, Index, Where, history
<1>1. ASSUME NEW n \in 1 .. MaxLen, ReadChunk(n) PROVE TypeOK' /\ Shape'
  BY <1>1 DEF ReadChunk
<1>2. CASE StoreWhole
  <2>1. DataAddr' \in [Index -> Int]
    BY <1>2, CopyFacts DEF StoreWhole
  <2> QED
    BY <1>2, <2>1 DEF StoreWhole, NoRoom, Clean
<1>3. CASE Advance
  BY <1>3 DEF Advance
<1>4. CASE Wrap
  BY <1>4 DEF Wrap
<1>5. CASE AdvanceMerged
  BY <1>5 DEF AdvanceMerged
<1>6. CASE StoreTop
  <2>1. DataAddr' \in [Index -> Int]
    BY <1>6, CopyFacts DEF StoreTop, Fits
  <2> QED
    BY <1>6, <2>1 DEF StoreTop, Fits, NoRoom, Clean
<1>7. CASE Restart
  BY <1>7 DEF Restart
<1>8. CASE StoreRest
  <2>1. DataAddr' \in [Index -> Int]
    BY <1>8, CopyFacts DEF StoreRest
  <2> QED
    BY <1>8, <2>1 DEF StoreRest
<1>9. CASE AdvanceRest
  BY <1>9 DEF AdvanceRest
<1>10. CASE Close
  BY <1>10 DEF Close
<1>11. CASE Read_Byte
  BY <1>11 DEF Read_Byte, NextIndex
<1>12. CASE UNCHANGED vars
  BY <1>12 DEF vars
<1>13. QED
  BY <1>1, <1>2, <1>3, <1>4, <1>5, <1>6, <1>7, <1>8, <1>9, <1>10, <1>11, <1>12
  DEF Next, Callback, Read_Nothing
-----------------------------------------------------------------------------
(* The occupancy: Count, Room and the order of delivery.                   *)

LEMMA CountStep == IInv /\ [Next]_vars => Count' /\ Room' /\ InOrder'
<1> SUFFICES ASSUME IInv, [Next]_vars PROVE Count' /\ Room' /\ InOrder'
  OBVIOUS
<1>t. TypeOK /\ TypeOK' /\ Shape /\ Shape'
  BY TypeStep DEF IInv
<1>d. Dist \in Nat /\ Dist < MEMSIZE
  BY <1>t, DistRange DEF TypeOK, Dist
<1> USE RingSize, <1>t, <1>d
    DEF IInv, TypeOK, Shape, history, Count, Room, InOrder
<1>1. ASSUME NEW n \in 1 .. MaxLen, ReadChunk(n)
      PROVE  Count' /\ Room' /\ InOrder'
  <2>1. Dist' = Dist /\ (Clean' <=> Clean)
    BY <1>1 DEF ReadChunk, Dist, Clean
  <2> QED
    BY <1>1, <2>1 DEF ReadChunk
<1>2. CASE StoreWhole
  <2>1. Dist' = Dist
    BY <1>2 DEF StoreWhole, Dist
  <2>2. Clean' => Clean /\ received - delivered < MEMSIZE
    <3>1. Clean' => Clean /\ ~NoRoom
      BY <1>2 DEF StoreWhole, Clean, NoRoom
    <3> QED
      BY <3>1 DEF NoRoom
  <2> QED
    BY <1>2, <2>1, <2>2 DEF StoreWhole
<1>3. CASE StoreTop
  <2>1. Dist' = Dist
    BY <1>3 DEF StoreTop, Fits, Dist
  <2>2. Clean' => Clean /\ received - delivered < MEMSIZE
    <3>1. Clean' => Clean /\ ~NoRoom
      BY <1>3 DEF StoreTop, Fits, Clean, NoRoom
    <3> QED
      BY <3>1 DEF NoRoom
  <2> QED
    BY <1>3, <2>1, <2>2 DEF StoreTop, Fits
<1>4. CASE StoreRest
  <2>1. Dist' = Dist /\ (Clean' <=> Clean)
    BY <1>4 DEF StoreRest, Dist, Clean
  <2> QED
    BY <1>4, <2>1 DEF StoreRest
<1>5. CASE Wrap
  <2>1. Clean' <=> Clean
    BY <1>5 DEF Wrap, Clean
  <2>2. Dist' = Dist
    BY <1>5, DistWrap DEF Wrap, Dist
  <2> QED
    BY <1>5, <2>1, <2>2 DEF Wrap
<1>6. CASE Advance
  <2>1. Clean' <=> Clean
    BY <1>6 DEF Advance, Clean
  <2>2. Clean => /\ HeadAddr \in Index /\ len \in Nat
                /\ HeadAddr + (len) <= MEMSIZE
                /\ Dist + (len) < MEMSIZE
    BY <1>6 DEF Advance, Index
  <2>3. Clean => Dist' = Dist + (len)
    BY <1>6, <2>2, DistForward, DistWrap DEF Advance, Dist
  <2> QED
    BY <1>6, <2>1, <2>3 DEF Advance
<1>7. CASE AdvanceMerged
  <2>1. Clean' <=> Clean
    BY <1>7 DEF AdvanceMerged, Clean
  <2>2. Clean => /\ HeadAddr \in Index /\ len \in Nat
                /\ HeadAddr + (len) <= MEMSIZE
                /\ Dist + (len) < MEMSIZE
    BY <1>7 DEF AdvanceMerged, Index
  <2>3. Clean => Dist' = Dist + (len)
    BY <1>7, <2>2, DistForward, DistWrap DEF AdvanceMerged, Dist
  <2> QED
    BY <1>7, <2>1, <2>3 DEF AdvanceMerged
<1>8. CASE Restart
  <2>1. Clean' <=> Clean
    BY <1>8 DEF Restart, Clean
  <2>2. Clean => /\ HeadAddr \in Index /\ max_length \in Nat
                /\ HeadAddr + (max_length) <= MEMSIZE
                /\ Dist + (max_length) < MEMSIZE
    BY <1>8 DEF Restart, Index
  <2>3. Clean => Dist' = Dist + (max_length)
    BY <1>8, <2>2, DistForward, DistWrap DEF Restart, Dist
  <2> QED
    BY <1>8, <2>1, <2>3 DEF Restart
<1>9. CASE AdvanceRest
  <2>1. Clean' <=> Clean
    BY <1>9 DEF AdvanceRest, Clean
  <2>2. Clean => /\ HeadAddr \in Index /\ len - max_length \in Nat
                /\ HeadAddr + (len - max_length) <= MEMSIZE
                /\ Dist + (len - max_length) < MEMSIZE
    BY <1>9 DEF AdvanceRest, Index
  <2>3. Clean => Dist' = Dist + (len - max_length)
    BY <1>9, <2>2, DistForward, DistWrap DEF AdvanceRest, Dist
  <2> QED
    BY <1>9, <2>1, <2>3 DEF AdvanceRest
<1>10. CASE Close
  BY <1>10 DEF Close, Clean
<1>11. CASE Read_Byte
  <2>1. Clean' => Clean /\ ~(HeadAddr = MEMSIZE /\ EndAddr = 0)
    BY <1>11 DEF Read_Byte, NextIndex, Clean
  <2>2. Clean' => Dist >= 1
    BY <1>11, <2>1, DistEmpty DEF Read_Byte, NextIndex, Dist
  <2>n. EndAddr' = Slot(EndAddr, 1) /\ EndAddr \in Index
    BY <1>11 DEF Read_Byte, NextIndex, Slot, Index
  <2>3. Clean' => Dist' = Dist - 1
    BY <1>11, <2>2, <2>n, DistTake DEF Read_Byte, NextIndex, Dist
  <2>4. pc \in Where \ {"closed"}
    BY <1>11 DEF Read_Byte, NextIndex
  <2>5. Clean' => DataAddr[EndAddr] = delivered + 1
    <3>1. ASSUME NEW n \in Nat, n >= 1, Held(n)
          PROVE  DataAddr[EndAddr] = delivered + 1
      <4>1. 0 \in Index /\ Slot(EndAddr, 0) = EndAddr
        BY <2>n DEF Slot, Index
      <4>2. DataAddr[Slot(EndAddr, 0)] = delivered + 0 + 1
        BY <3>1, <4>1 DEF Held, HeldIn
      <4> QED
        BY <4>1, <4>2
    <3>2. Clean' => \E n \in Nat : n >= 1 /\ Held(n)
      <4>1. CASE pc \in {"read", "wrap", "store", "rest"}
        BY <4>1, <2>1, <2>2 DEF Content
      <4>2. CASE pc = "advance"
        BY <4>2, <2>1, <2>2 DEF Content
      <4>3. CASE pc = "restart"
        BY <4>3, <2>1, <2>2 DEF Content
      <4>4. CASE pc = "advanceRest"
        BY <4>4, <2>1, <2>2 DEF Content
      <4> QED
        BY <2>4, <4>1, <4>2, <4>3, <4>4 DEF Where
    <3> QED
      BY <3>1, <3>2
  <2>6. Clean' => delivered + 1 <= received
    BY <2>1, <2>2, <2>4 DEF Where
  <2>7. Clean' => lastByte' = delivered' /\ delivered' = delivered + 1
    BY <1>11, <2>1, <2>5 DEF Read_Byte, NextIndex
  <2>8. UNCHANGED <<received, pc, len, max_length>>
    BY <1>11 DEF Read_Byte, NextIndex
  <2>9. Count'
    BY <2>1, <2>3, <2>7, <2>8
  <2>10. Room'
    BY <2>1, <2>7, <2>8
  <2>11. InOrder'
    BY <2>6, <2>7, <2>8
  <2> QED
    BY <2>9, <2>10, <2>11
<1>12. CASE UNCHANGED vars
  BY <1>12 DEF vars, Dist, Clean
<1> QED
  BY <1>1, <1>2, <1>3, <1>4, <1>5, <1>6, <1>7, <1>8, <1>9, <1>10, <1>11, <1>12
  DEF Next, Callback, Read_Nothing
-----------------------------------------------------------------------------
(* The contents of the occupied slots.                                     *)

\* A copy of n bytes behind the occupied part extends it, when it fits.
LEMMA HeldGrows ==
  ASSUME NEW d, NEW d2, NEW h \in Index, NEW e \in Index, NEW b \in Int,
         NEW n \in Nat, h + n <= MEMSIZE, DistOf(h, e) + n < MEMSIZE,
         \A j \in Index : d2[j] = IF j >= h /\ j < h + n
                                 THEN b + DistOf(h, e) + 1 + (j - h) ELSE d[j],
         HeldIn(d, e, b, DistOf(h, e))
  PROVE  HeldIn(d2, e, b, DistOf(h, e) + n)
<1>1. DistOf(h, e) \in Nat
  BY RingSize, DistRange DEF Index
<1>2. ASSUME NEW k \in Index, k < DistOf(h, e) + n
      PROVE  d2[Slot(e, k)] = b + k + 1
  <2>1. /\ Slot(e, k) \in Index
        /\ k < DistOf(h, e) => Slot(e, k) < h \/ Slot(e, k) >= h + n
        /\ k >= DistOf(h, e) => Slot(e, k) = h + (k - DistOf(h, e))
    BY <1>2, SlotPlace DEF Index
  <2>2. CASE k < DistOf(h, e)
    <3>1. d2[Slot(e, k)] = d[Slot(e, k)]
      BY <2>1, <2>2, RingSize DEF Index
    <3> QED
      BY <2>2, <3>1 DEF HeldIn
  <2>3. CASE k >= DistOf(h, e)
    <3>1. d2[Slot(e, k)] = b + DistOf(h, e) + 1 + (Slot(e, k) - h)
      BY <1>1, <1>2, <2>1, <2>3, RingSize DEF Index
    <3> QED
      BY <1>1, <2>1, <2>3, <3>1, RingSize DEF Index
  <2> QED
    BY <1>1, <2>2, <2>3, RingSize DEF Index
<1> QED
  BY <1>2 DEF HeldIn

\* Taking the first byte leaves the others, one slot nearer.
LEMMA HeldShrinks ==
  ASSUME NEW d, NEW e \in Index, NEW b \in Int, NEW n \in Nat, n >= 1,
         n <= MEMSIZE, HeldIn(d, e, b, n)
  PROVE  HeldIn(d, Slot(e, 1), b + 1, n - 1)
<1>1. ASSUME NEW k \in Index, k < n - 1
      PROVE  d[Slot(Slot(e, 1), k)] = (b + 1) + k + 1
  <2>1. Slot(Slot(e, 1), k) = Slot(e, k + 1) /\ k + 1 \in Index /\ k + 1 < n
    BY <1>1, SlotNext, RingSize DEF Index
  <2>2. d[Slot(e, k + 1)] = b + (k + 1) + 1
    BY <2>1 DEF HeldIn
  <2> QED
    BY <2>1, <2>2, RingSize DEF Index
<1> QED
  BY <1>1 DEF HeldIn

\* Fewer bytes are held wherever more are.
LEMMA HeldFewer ==
  ASSUME NEW d, NEW e, NEW b, NEW n \in Int, NEW m \in Int, m <= n,
         HeldIn(d, e, b, n)
  PROVE  HeldIn(d, e, b, m)
BY RingSize DEF HeldIn, Index

LEMMA ContentStep == IInv /\ [Next]_vars => Content'
<1> SUFFICES ASSUME IInv, [Next]_vars PROVE Content'
  OBVIOUS
<1>t. TypeOK /\ TypeOK' /\ Shape /\ Shape'
  BY TypeStep DEF IInv
<1>c. Count /\ Room /\ Content
  BY DEF IInv
<1>d. Dist \in Nat /\ Dist < MEMSIZE
  BY <1>t, DistRange DEF TypeOK, Dist
<1>n. HeadAddr \in Int /\ EndAddr \in Index /\ len \in Nat /\ max_length \in Nat
      /\ received \in Nat /\ delivered \in Nat /\ delivered \in Int
  BY <1>t DEF TypeOK
<1> USE RingSize
<1>1. ASSUME NEW n \in 1 .. MaxLen, ReadChunk(n) PROVE Content'
  <2>1. Dist' = Dist /\ (Clean' <=> Clean) /\ UNCHANGED <<DataAddr, EndAddr, delivered>>
    BY <1>1 DEF ReadChunk, Dist, Clean, history
  <2>2. pc = "read" /\ pc' = "store"
    BY <1>1 DEF ReadChunk
  <2> QED
    BY <1>c, <2>1, <2>2 DEF Content, Held
<1>2. CASE StoreWhole
  <2>1. /\ Dist' = Dist /\ pc = "store" /\ pc' = "advance"
        /\ HeadAddr + len <= MEMSIZE /\ Copy(HeadAddr, 0, len)
        /\ UNCHANGED <<EndAddr, delivered, len, received, max_length>>
    BY <1>2 DEF StoreWhole, Dist, history
  <2>2. Clean' => Clean /\ ~NoRoom
    BY <1>2 DEF StoreWhole, Clean, NoRoom, history
  <2>3. ASSUME Clean' PROVE Held(Dist + len)'
    <3>1. received - delivered = Dist + len /\ Dist + len < MEMSIZE
      BY <1>c, <2>1, <2>2, <2>3, <1>n, <1>d DEF Count, NoRoom
    <3>2. \A j \in Index : DataAddr'[j] = IF j >= HeadAddr /\ j < HeadAddr + len
                                          THEN received - len + 1 + (0 + j - HeadAddr)
                                          ELSE DataAddr[j]
      BY <1>t, <1>n, <2>1, CopyFacts
    <3>3. \A j \in Index : received - len + 1 + (0 + j - HeadAddr)
                             = delivered + Dist + 1 + (j - HeadAddr)
      BY <3>1, <1>n, <1>d DEF Index
    <3>4. HeadAddr \in Index
      BY <1>t, <2>1 DEF TypeOK, Shape, Index
    <3>5. HeldIn(DataAddr, EndAddr, delivered, Dist)
      BY <1>c, <2>1, <2>2, <2>3 DEF Content, Held
    <3>6. HeldIn(DataAddr', EndAddr, delivered, Dist + len)
      BY <1>n, <2>1, <3>1, <3>2, <3>3, <3>4, <3>5, HeldGrows DEF Dist
    <3> QED
      BY <2>1, <3>6 DEF Held
  <2> QED
    BY <2>1, <2>3 DEF Content
<1>3. CASE StoreTop
  <2>1. /\ Dist' = Dist /\ pc = "store" /\ pc' = "restart"
        /\ HeadAddr + len > MEMSIZE /\ Copy(HeadAddr, 0, MEMSIZE - HeadAddr)
        /\ UNCHANGED <<EndAddr, delivered, len, received>>
        /\ max_length' = MEMSIZE - HeadAddr
    BY <1>3 DEF StoreTop, Fits, Dist, history
  <2>2. Clean' => Clean /\ ~NoRoom
    BY <1>3 DEF StoreTop, Fits, Clean, NoRoom, history
  <2>3. ASSUME Clean' PROVE HeldIn(DataAddr', EndAddr, delivered, Dist + (MEMSIZE - HeadAddr))
    <3> DEFINE n == MEMSIZE - HeadAddr
    <3>4. HeadAddr \in Index /\ n \in Nat /\ n \in Int /\ HeadAddr + n <= MEMSIZE /\ n < len
      BY <1>t, <2>1, <1>n DEF TypeOK, Shape, Index
    <3> HIDE DEF n
    <3>1. received - delivered = Dist + len /\ Dist + n < MEMSIZE
      BY <1>c, <2>1, <2>2, <2>3, <3>4, <1>n, <1>d DEF Count, NoRoom
    <3>2. \A j \in Index : DataAddr'[j] = IF j >= HeadAddr /\ j < HeadAddr + n
                                          THEN received - len + 1 + (0 + j - HeadAddr)
                                          ELSE DataAddr[j]
      <4>1. Copy(HeadAddr, 0, n)
        BY <2>1 DEF n
      <4> QED
        BY <1>t, <1>n, <4>1, <3>4, CopyFacts
    <3>3. \A j \in Index : received - len + 1 + (0 + j - HeadAddr)
                             = delivered + Dist + 1 + (j - HeadAddr)
      BY <3>1, <1>n, <1>d DEF Index
    <3>5. HeldIn(DataAddr, EndAddr, delivered, Dist)
      BY <1>c, <2>1, <2>2, <2>3 DEF Content, Held
    <3>6. HeldIn(DataAddr', EndAddr, delivered, Dist + n)
      BY <1>n, <3>1, <3>2, <3>3, <3>4, <3>5, HeldGrows DEF Dist
    <3> QED
      BY <3>6 DEF n
  <2> QED
    BY <2>1, <2>3 DEF Content, Held
<1>4. CASE StoreRest
  <2>1. /\ Dist' = Dist /\ pc = "rest" /\ pc' = "advanceRest"
        /\ Copy(0, max_length, len - max_length)
        /\ UNCHANGED <<EndAddr, delivered, len, received, max_length>>
        /\ (Clean' <=> Clean)
    BY <1>4 DEF StoreRest, Dist, Clean, history
  <2>2. HeadAddr = 0 /\ 0 \in Index /\ len - max_length \in Nat /\ len - max_length \in Int
        /\ 0 + (len - max_length) <= MEMSIZE
    BY <1>t, <1>n, <2>1 DEF TypeOK, Shape, Index
  <2>3. ASSUME Clean' PROVE Held(Dist + (len - max_length))'
    <3> DEFINE n == len - max_length
    <3>1. received - delivered = Dist + n /\ Dist + n < MEMSIZE
      BY <1>c, <2>1, <2>3, <1>n, <1>d DEF Count, Room
    <3>4. n \in Nat /\ n \in Int /\ 0 + n <= MEMSIZE /\ len = n + max_length
      BY <2>2, <1>n
    <3>2. \A j \in Index : DataAddr'[j] = IF j >= 0 /\ j < 0 + n
                                          THEN received - len + 1 + (max_length + j - 0)
                                          ELSE DataAddr[j]
      BY <1>t, <1>n, <2>1, <2>2, CopyFacts
    <3> HIDE DEF n
    <3>3. \A j \in Index : received - len + 1 + (max_length + j - 0)
                             = delivered + Dist + 1 + (j - 0)
      BY <3>1, <3>4, <1>n, <1>d DEF Index
    <3>5. HeldIn(DataAddr, EndAddr, delivered, DistOf(0, EndAddr)) /\ Dist = DistOf(0, EndAddr)
      BY <1>c, <2>1, <2>2, <2>3 DEF Content, Held, Dist
    <3>6. HeldIn(DataAddr', EndAddr, delivered, DistOf(0, EndAddr) + n)
      BY <1>n, <2>2, <3>1, <3>2, <3>3, <3>4, <3>5, HeldGrows
    <3> QED
      BY <2>1, <3>5, <3>6 DEF Held, n
  <2> QED
    BY <2>1, <2>3 DEF Content
<1>5. CASE Wrap
  <2>1. /\ pc = "wrap" /\ pc' = "read" /\ (Clean' <=> Clean)
        /\ UNCHANGED <<DataAddr, EndAddr, delivered>>
    BY <1>5 DEF Wrap, Clean, history
  <2>2. Dist' = Dist
    BY <1>5, <1>t, DistWrap DEF Wrap, Dist, Shape, TypeOK
  <2> QED
    BY <1>c, <2>1, <2>2 DEF Content, Held
<1>6. CASE Advance \/ AdvanceMerged
  <2>1. /\ pc = "advance" /\ pc' \in {"read", "wrap"} /\ (Clean' <=> Clean)
        /\ UNCHANGED <<DataAddr, EndAddr, delivered>>
        /\ \/ HeadAddr' = HeadAddr + len
           \/ HeadAddr + len >= MEMSIZE /\ HeadAddr' = 0
    BY <1>6 DEF Advance, AdvanceMerged, Clean, history
  <2>2. HeadAddr \in Index /\ HeadAddr + len <= MEMSIZE
    BY <1>t, <2>1 DEF Shape, TypeOK, Index
  <2>3. Clean => Dist + len < MEMSIZE
    BY <1>c, <1>n, <1>d, <2>1 DEF Count, Room
  <2>4. Clean => Dist' = Dist + len
    BY <1>n, <2>1, <2>2, <2>3, DistForward DEF Dist
  <2> QED
    BY <1>c, <2>1, <2>4 DEF Content, Held
<1>7. CASE Restart
  <2>1. /\ pc = "restart" /\ pc' = "rest" /\ (Clean' <=> Clean)
        /\ UNCHANGED <<DataAddr, EndAddr, delivered>>
        /\ HeadAddr' = 0 /\ HeadAddr + max_length = MEMSIZE
        /\ max_length < len /\ HeadAddr \in Index
    BY <1>7, <1>t DEF Restart, Clean, history, Shape, TypeOK, Index
  <2>2. Clean => Dist + max_length < MEMSIZE
    BY <1>c, <1>n, <1>d, <2>1 DEF Count, Room
  <2>3. Clean => Dist' = Dist + max_length
    BY <1>n, <2>1, <2>2, DistForward DEF Dist
  <2> QED
    BY <1>c, <2>1, <2>3 DEF Content, Held
<1>8. CASE AdvanceRest
  <2> DEFINE n == len - max_length
  <2>1. /\ pc = "advanceRest" /\ pc' = "read" /\ (Clean' <=> Clean)
        /\ UNCHANGED <<DataAddr, EndAddr, delivered>>
        /\ HeadAddr' = HeadAddr + n /\ HeadAddr \in Index /\ n \in Nat
        /\ HeadAddr + n <= MEMSIZE
    BY <1>8, <1>t DEF AdvanceRest, Clean, history, Shape, TypeOK, Index
  <2>2. Clean => Dist + n < MEMSIZE
    BY <1>c, <1>n, <1>d, <2>1 DEF Count, Room
  <2>3. Clean => Dist' = Dist + n
    BY <1>n, <2>1, <2>2, DistForward DEF Dist
  <2> QED
    BY <1>c, <2>1, <2>3 DEF Content, Held
<1>9. CASE Close
  BY <1>9 DEF Close, Clean, Content, history
<1>10. CASE Read_Byte
  <2>1. /\ Clean' => Clean /\ ~(HeadAddr = MEMSIZE /\ EndAddr = 0)
        /\ Clean => delivered' = delivered + 1
        /\ EndAddr' = Slot(EndAddr, 1)
        /\ UNCHANGED <<HeadAddr, DataAddr, pc, len, max_length>>
    <3>1. Clean' => Clean /\ ~(HeadAddr = MEMSIZE /\ EndAddr = 0)
      BY <1>10 DEF Read_Byte, NextIndex, Clean
    <3>2. EndAddr' = Slot(EndAddr, 1)
      BY <1>10, <1>n DEF Read_Byte, NextIndex, Slot, Index
    <3> QED
      BY <1>10, <3>1, <3>2 DEF Read_Byte, NextIndex
  <2>2. Clean' => Dist >= 1
    BY <1>10, <1>t, <2>1, DistEmpty DEF Read_Byte, NextIndex, Dist, TypeOK
  <2>3. Clean' => Dist' = Dist - 1
    BY <1>t, <2>1, <2>2, DistTake DEF Dist, TypeOK
  <2>4. ASSUME NEW n \in Nat, n >= 1, n <= MEMSIZE, Held(n), Clean'
        PROVE  HeldIn(DataAddr', EndAddr', delivered', n - 1)
    BY <1>n, <2>1, <2>4, HeldShrinks DEF Held
  <2>5. ASSUME Clean', pc \in {"read", "wrap", "store", "rest"} PROVE Held(Dist)'
    <3>1. Held(Dist)
      BY <1>c, <2>1, <2>5 DEF Content
    <3> QED
      BY <1>d, <2>2, <2>3, <2>4, <2>5, <3>1 DEF Held
  <2>6. ASSUME Clean', pc = "advance" PROVE Held(Dist + len)'
    <3>1. Held(Dist + len) /\ Dist + len < MEMSIZE
      BY <1>c, <1>n, <1>d, <2>1, <2>6 DEF Content, Count, Room
    <3>2. HeldIn(DataAddr', EndAddr', delivered', Dist + len - 1)
      BY <1>n, <1>d, <2>2, <2>4, <2>6, <3>1
    <3>3. Dist + len - 1 = (Dist + len)'
      BY <1>n, <1>d, <2>1, <2>3, <2>6
    <3> QED
      BY <3>2, <3>3 DEF Held
  <2>7. ASSUME Clean', pc = "restart" PROVE Held(Dist + max_length)'
    <3>1. Held(Dist + max_length) /\ Dist + max_length < MEMSIZE
      BY <1>c, <1>t, <1>n, <1>d, <2>1, <2>7 DEF Content, Count, Room, Shape
    <3>2. HeldIn(DataAddr', EndAddr', delivered', Dist + max_length - 1)
      BY <1>n, <1>d, <2>2, <2>4, <2>7, <3>1
    <3>3. Dist + max_length - 1 = (Dist + max_length)'
      BY <1>n, <1>d, <2>1, <2>3, <2>7
    <3> QED
      BY <3>2, <3>3 DEF Held
  <2>8. ASSUME Clean', pc = "advanceRest" PROVE Held(Dist + (len - max_length))'
    <3>0. len - max_length \in Nat
      BY <1>t, <1>n, <2>8 DEF Shape
    <3>1. Held(Dist + (len - max_length)) /\ Dist + (len - max_length) < MEMSIZE
      BY <1>c, <1>n, <1>d, <2>1, <2>8 DEF Content, Count, Room
    <3>2. HeldIn(DataAddr', EndAddr', delivered', Dist + (len - max_length) - 1)
      BY <3>0, <1>d, <2>2, <2>4, <2>8, <3>1
    <3>3. Dist + (len - max_length) - 1 = (Dist + (len - max_length))'
      BY <3>0, <1>n, <1>d, <2>1, <2>3, <2>8
    <3> QED
      BY <3>2, <3>3 DEF Held
  <2> QED
    BY <2>1, <2>5, <2>6, <2>7, <2>8 DEF Content
<1>11. CASE UNCHANGED vars
  BY <1>11, <1>c DEF vars, Dist, Clean, Content, Held
<1> QED
  BY <1>1, <1>2, <1>3, <1>4, <1>5, <1>6, <1>7, <1>8, <1>9, <1>10, <1>11
  DEF Next, Callback, Read_Nothing
-----------------------------------------------------------------------------
(* The theorems.                                                           *)

\* The inductive invariant holds in every reachable state.
THEOREM Inductive == Spec => []IInv
<1>1. IInv /\ [Next]_vars => IInv'
  BY TypeStep, CountStep, ContentStep DEF IInv
<1> QED
  BY InitOK, <1>1, PTL DEF Spec

\* Type correctness: neither the callback nor Read_Byte ever takes an index
\* out of the buffer, whatever their interleaving.
THEOREM TypeCorrect == Spec => []TypeOK
<1>1. IInv => TypeOK
  BY DEF IInv
<1> QED
  BY Inductive, <1>1, PTL

\* The bytes come out in order for every size of the ring and of the chunks,
\* and every interleaving of ComReadCallback and Read_Byte, until an overrun
\* or a torn wrap.
THEOREM DeliveredInOrder == Spec => []InOrder
<1>1. IInv => InOrder
  BY DEF IInv
<1> QED
  BY Inductive, <1>1, PTL

\* Every step of the two threads is a step of the abstract queue, or none.
LEMMA FifoStep == IInv /\ IInv' /\ [Next]_vars => [Fifo!Next]_(Fifo!fifoVars)
<1> SUFFICES ASSUME IInv, IInv', [Next]_vars
             PROVE  [Fifo!Next]_(Fifo!fifoVars)
  OBVIOUS
<1> USE DEF Fifo!Next, Fifo!fifoVars
<1>b. Clean \in BOOLEAN /\ Clean' \in BOOLEAN /\ received \in Nat /\ received' \in Nat
  BY DEF Clean, IInv, TypeOK
<1>1. CASE ~Clean'
  BY <1>1, <1>b DEF Fifo!Break
<1>2. CASE Clean' /\ UNCHANGED <<received, delivered, lastByte>> /\ (Clean' <=> Clean)
  BY <1>2, <1>b
<1>3. ASSUME Clean', NEW n \in 1 .. MaxLen, ReadChunk(n) PROVE Fifo!Send
  <2>1. received' > received
    BY <1>3, <1>b, RingSize DEF ReadChunk
  <2>2. Clean' <=> Clean
    BY <1>3 DEF ReadChunk, Clean, history
  <2> QED
    BY <1>3, <1>b, <2>1, <2>2 DEF Fifo!Send, ReadChunk, history
<1>4. CASE Clean' /\ Read_Byte
  <2>1. Clean
    BY <1>4 DEF Read_Byte, NextIndex, Clean
  <2>2. /\ delivered' = delivered + 1 /\ received' = received
        /\ lastByte' = delivered' /\ delivered' <= received'
    BY <1>4, <2>1 DEF Read_Byte, NextIndex, IInv, InOrder
  <2>3. delivered < received
    BY <2>2, <1>b DEF IInv, TypeOK
  <2> QED
    BY <1>4, <1>b, <2>1, <2>2, <2>3 DEF Fifo!Deliver
<1>5. CASE Clean' /\ (Callback \/ Close \/ Read_Nothing \/ UNCHANGED vars)
  <2>1. UNCHANGED <<received, delivered, lastByte>>
    BY <1>5 DEF Callback, Close, Read_Nothing, StoreWhole, Advance, Wrap,
       AdvanceMerged, StoreTop, Restart, StoreRest, AdvanceRest, history, vars
  <2>2. Clean' => Clean
    BY <1>5 DEF Callback, Close, Read_Nothing, StoreWhole, Advance, Wrap,
       AdvanceMerged, StoreTop, Restart, StoreRest, AdvanceRest, history, vars, Clean
  <2> QED
    BY <1>2, <1>5, <2>1, <2>2
<1> QED
  BY <1>1, <1>3, <1>4, <1>5, <1>b DEF Next

\* The unlocked ring implements the byte queue: a reader that knows only
\* ByteFifo cannot tell the difference before an overrun or a torn wrap.
THEOREM Refinement == Spec => FifoSpec
<1>1. Init => Fifo!Init
  BY DEF Init, Fifo!Init, Clean
<1>2. IInv /\ IInv' /\ [Next]_vars => [Fifo!Next]_(Fifo!fifoVars)
  BY FifoStep
<1> QED
  BY Inductive, <1>1, <1>2, PTL DEF Spec, FifoSpec, Fifo!Spec

-----------------------------------------------------------------------------
(* The ring of the debug channel.                                          *)

\* Until the first overlap one printer at most is inside PutData.
Alone == \A p, q \in Printers : N!Inside(p) /\ N!Inside(q) => p = q

\* Bytes between the two positions, and the slot of the k-th of them.
UsedOf(wp, rp) == (wp - rp) % PRINT_BUF_SIZE
Used == UsedOf(g_iWritePos, g_iReadPos)
Ahead(rp, k) == (rp + k) % PRINT_BUF_SIZE

PrintTypes ==
  /\ buf \in [N!Index -> Int]
  /\ g_iWritePos \in N!Index /\ g_iReadPos \in N!Index
  /\ nPc \in [Printers -> {"idle", "check", "write", "advance", "signal"}]
  /\ w \in [Printers -> N!Index]
  /\ written \in Nat /\ sent \in Nat
  /\ raced \in BOOLEAN

\* Inside PutData the position is the thread's own, and there is room for the byte.
PrintRoom ==
  \A p \in Printers :
    nPc[p] \in {"write", "advance"} => w[p] = g_iWritePos /\ Used + 1 < PRINT_BUF_SIZE

\* A byte stored is accounted for before the position says so.
PrintCount ==
  /\ \A p \in Printers : nPc[p] = "advance" => written - sent = Used + 1
  /\ (\A p \in Printers : nPc[p] # "advance") => written - sent = Used

\* The bytes put and not taken lie in order from the read position on.
HoldsFrom(b, rp, out, n) ==
  \A k \in N!Index : k < n => b[Ahead(rp, k)] = out + k + 1

PrintContent ==
  /\ HoldsFrom(buf, g_iReadPos, sent, written - sent)
  /\ nLast = sent

InRing == Alone /\ PrintRoom /\ PrintCount /\ PrintContent

PrintInv == PrintTypes /\ (~raced => InRing)

LEMMA PrintSize == PRINT_BUF_SIZE \in Int /\ PRINT_BUF_SIZE > 1
BY RingsAssumption

LEMMA ModSmall ==
  ASSUME NEW S \in Int, S > 0, NEW a \in Int, 0 <= a, a < S
  PROVE  a % S = a
OBVIOUS

LEMMA ModOver ==
  ASSUME NEW S \in Int, S > 0, NEW a \in Int, S <= a, a < S + S
  PROVE  a % S = a - S
OBVIOUS

LEMMA ModUnder ==
  ASSUME NEW S \in Int, S > 0, NEW a \in Int, -S <= a, a < 0
  PROVE  a % S = a + S
OBVIOUS

\* The three positions of the ring without the remainder.
LEMMA UsedIs ==
  ASSUME NEW wp \in N!Index, NEW rp \in N!Index
  PROVE  /\ UsedOf(wp, rp) = IF wp >= rp THEN wp - rp ELSE wp - rp + PRINT_BUF_SIZE
         /\ UsedOf(wp, rp) \in N!Index
<1>1. UsedOf(wp, rp) = IF wp >= rp THEN wp - rp ELSE wp - rp + PRINT_BUF_SIZE
  BY PrintSize, ModSmall, ModUnder DEF UsedOf, N!Index
<1> QED BY <1>1, PrintSize DEF N!Index

LEMMA FollowingIs ==
  ASSUME NEW n \in N!Index
  PROVE  /\ N!Following(n) = IF n + 1 = PRINT_BUF_SIZE THEN 0 ELSE n + 1
         /\ N!Following(n) \in N!Index
<1>1. N!Following(n) = IF n + 1 = PRINT_BUF_SIZE THEN 0 ELSE n + 1
  BY PrintSize, ModSmall, ModOver DEF N!Following, N!Index
<1> QED BY <1>1, PrintSize DEF N!Index

LEMMA AheadIs ==
  ASSUME NEW rp \in N!Index, NEW k \in N!Index
  PROVE  /\ Ahead(rp, k) = IF rp + k >= PRINT_BUF_SIZE THEN rp + k - PRINT_BUF_SIZE ELSE rp + k
         /\ Ahead(rp, k) \in N!Index
<1>1. Ahead(rp, k) = IF rp + k >= PRINT_BUF_SIZE THEN rp + k - PRINT_BUF_SIZE ELSE rp + k
  BY PrintSize, ModSmall, ModOver DEF Ahead, N!Index
<1> QED BY <1>1, PrintSize DEF N!Index

\* A ring that is not full has room for one more byte, at its write position.
LEMMA RoomForOne ==
  ASSUME NEW wp \in N!Index, NEW rp \in N!Index, N!Following(wp) # rp
  PROVE  UsedOf(wp, rp) + 1 < PRINT_BUF_SIZE
<1>1. UsedOf(wp, rp) = IF wp >= rp THEN wp - rp ELSE wp - rp + PRINT_BUF_SIZE
  BY UsedIs
<1>2. N!Following(wp) = IF wp + 1 = PRINT_BUF_SIZE THEN 0 ELSE wp + 1
  BY FollowingIs
<1> QED BY <1>1, <1>2, PrintSize DEF N!Index

LEMMA WriteForward ==
  ASSUME NEW wp \in N!Index, NEW rp \in N!Index, UsedOf(wp, rp) + 1 < PRINT_BUF_SIZE
  PROVE  UsedOf(N!Following(wp), rp) = UsedOf(wp, rp) + 1
<1>0. PICK f \in N!Index : f = N!Following(wp)
  BY FollowingIs
<1>1. UsedOf(wp, rp) = IF wp >= rp THEN wp - rp ELSE wp - rp + PRINT_BUF_SIZE
  BY UsedIs
<1>2. UsedOf(f, rp) = IF f >= rp THEN f - rp ELSE f - rp + PRINT_BUF_SIZE
  BY UsedIs
<1>3. f = IF wp + 1 = PRINT_BUF_SIZE THEN 0 ELSE wp + 1
  BY <1>0, FollowingIs
<1> QED BY <1>0, <1>1, <1>2, <1>3, PrintSize DEF N!Index

LEMMA ReadForward ==
  ASSUME NEW wp \in N!Index, NEW rp \in N!Index, wp # rp
  PROVE  /\ UsedOf(wp, rp) >= 1
         /\ UsedOf(wp, N!Following(rp)) = UsedOf(wp, rp) - 1
<1>0. PICK f \in N!Index : f = N!Following(rp)
  BY FollowingIs
<1>1. UsedOf(wp, rp) = IF wp >= rp THEN wp - rp ELSE wp - rp + PRINT_BUF_SIZE
  BY UsedIs
<1>2. UsedOf(wp, f) = IF wp >= f THEN wp - f ELSE wp - f + PRINT_BUF_SIZE
  BY UsedIs
<1>3. f = IF rp + 1 = PRINT_BUF_SIZE THEN 0 ELSE rp + 1
  BY <1>0, FollowingIs
<1> QED BY <1>0, <1>1, <1>2, <1>3, PrintSize DEF N!Index

\* The write position is the slot behind the bytes that are there.
LEMMA WriteSlot ==
  ASSUME NEW wp \in N!Index, NEW rp \in N!Index, NEW k \in N!Index, k <= UsedOf(wp, rp)
  PROVE  Ahead(rp, k) = wp <=> k = UsedOf(wp, rp)
<1>1. UsedOf(wp, rp) = IF wp >= rp THEN wp - rp ELSE wp - rp + PRINT_BUF_SIZE
  BY UsedIs
<1>2. Ahead(rp, k) = IF rp + k >= PRINT_BUF_SIZE THEN rp + k - PRINT_BUF_SIZE ELSE rp + k
  BY AheadIs
<1> QED BY <1>1, <1>2, PrintSize DEF N!Index

LEMMA ReadSlot ==
  ASSUME NEW rp \in N!Index, NEW k \in N!Index, k + 1 \in N!Index
  PROVE  /\ Ahead(rp, 0) = rp
         /\ Ahead(N!Following(rp), k) = Ahead(rp, k + 1)
<1>0. PICK f \in N!Index : f = N!Following(rp)
  BY FollowingIs
<1>1. f = IF rp + 1 = PRINT_BUF_SIZE THEN 0 ELSE rp + 1
  BY <1>0, FollowingIs
<1>2. Ahead(f, k) = IF f + k >= PRINT_BUF_SIZE THEN f + k - PRINT_BUF_SIZE ELSE f + k
  BY AheadIs
<1>3. Ahead(rp, k + 1) = IF rp + (k + 1) >= PRINT_BUF_SIZE THEN rp + (k + 1) - PRINT_BUF_SIZE
                         ELSE rp + (k + 1)
  BY AheadIs
<1>4. Ahead(f, k) = Ahead(rp, k + 1)
  BY <1>1, <1>2, <1>3, PrintSize DEF N!Index
<1>5. Ahead(rp, 0) = rp
  <2>1. 0 \in N!Index
    BY PrintSize DEF N!Index
  <2>2. Ahead(rp, 0) = IF rp + 0 >= PRINT_BUF_SIZE THEN rp + 0 - PRINT_BUF_SIZE ELSE rp + 0
    BY <2>1, AheadIs
  <2> QED BY <2>2, PrintSize DEF N!Index
<1> QED BY <1>0, <1>4, <1>5

LEMMA PrintInit == MCInit => PrintInv
<1> SUFFICES ASSUME N!Init PROVE PrintInv
  BY DEF MCInit
<1>1. 0 \in N!Index
  BY PrintSize DEF N!Index
<1>2. UsedOf(0, 0) = 0
  BY <1>1, UsedIs
<1>3. PrintTypes
  <2>1. raced \in BOOLEAN
    BY Zenon DEF N!Init
  <2> QED BY <1>1, <2>1 DEF N!Init, PrintTypes
<1>4. PrintRoom /\ PrintCount /\ Alone
  BY <1>2 DEF N!Init, PrintRoom, PrintCount, Used, Alone, N!Inside
<1>5. PrintContent
  BY DEF N!Init, PrintContent, HoldsFrom, N!Index
<1> QED BY <1>3, <1>4, <1>5 DEF PrintInv, InRing

LEMMA PrintTypesStep == PrintInv /\ N!Next => PrintTypes'
<1> SUFFICES ASSUME PrintInv, N!Next PROVE PrintTypes'
  OBVIOUS
<1> USE DEF PrintInv, PrintTypes, N!ring, N!printing, N!sending, N!history
<1>1. ASSUME NEW p \in Printers, NEW n \in 1 .. MaxString, N!Begin(p, n) PROVE PrintTypes'
  BY <1>1 DEF N!Begin
<1>2. ASSUME NEW p \in Printers, N!PutCheck(p) PROVE PrintTypes'
  BY <1>2 DEF N!PutCheck
<1>3. ASSUME NEW p \in Printers, N!PutWrite(p) PROVE PrintTypes'
  BY <1>3 DEF N!PutWrite
<1>4. ASSUME NEW p \in Printers, N!PutAdvance(p) PROVE PrintTypes'
  <2>1. N!Following(w[p]) \in N!Index /\ 0 \in N!Index
    BY FollowingIs, PrintSize DEF N!Index
  <2> QED BY <1>4, <2>1 DEF N!PutAdvance
<1>5. ASSUME NEW p \in Printers, N!Signal(p) PROVE PrintTypes'
  BY <1>5 DEF N!Signal
<1>6. CASE N!Get
  <2>1. N!Following(g_iReadPos) \in N!Index
    BY FollowingIs
  <2> QED BY <1>6, <2>1 DEF N!Get
<1>7. CASE N!Wait \/ N!Drain \/ N!Send \/ N!Spurious \/ N!SetClient
  BY <1>7 DEF N!Wait, N!Drain, N!Send, N!Spurious, N!SetClient
<1>8. ASSUME NEW p \in Printers, N!Reload(p) PROVE PrintTypes'
  BY <1>8 DEF N!Reload
<1> QED BY <1>1, <1>2, <1>3, <1>4, <1>5, <1>6, <1>7, <1>8 DEF N!Next, N!Put, N!SendThread

\* An overlap is not forgotten.
LEMMA RacedStays == PrintTypes /\ N!Next /\ ~raced' => ~raced
  BY DEF PrintTypes, N!Next, N!Put, N!SendThread, N!Begin, N!PutCheck, N!PutWrite, N!PutAdvance,
         N!Signal, N!Reload, N!Wait, N!Drain, N!Get, N!Send, N!Spurious, N!SetClient, N!history

\* The other parts, with nobody else inside PutData.
LEMMA PrintStep == PrintInv /\ N!Next /\ ~raced' => InRing'
<1> SUFFICES ASSUME PrintInv, N!Next, ~raced' PROVE InRing'
  OBVIOUS
<1>r. ~raced /\ InRing
  BY RacedStays DEF PrintInv
<1> DEFINE Goal == Alone' /\ PrintRoom' /\ PrintCount' /\ PrintContent'
<1>t. /\ buf \in [N!Index -> Int]
      /\ g_iWritePos \in N!Index /\ g_iReadPos \in N!Index
      /\ nPc \in [Printers -> {"idle", "check", "write", "advance", "signal"}]
      /\ w \in [Printers -> N!Index]
      /\ written \in Nat /\ sent \in Nat
  BY DEF PrintInv, PrintTypes
<1>u. Used \in N!Index /\ Used \in Int
  <2>1. Used \in N!Index
    BY <1>t, UsedIs DEF Used
  <2> QED BY <2>1 DEF N!Index
<1>i. /\ \A p \in Printers :
           nPc[p] \in {"write", "advance"} => w[p] = g_iWritePos /\ Used + 1 < PRINT_BUF_SIZE
      /\ \A p \in Printers : nPc[p] = "advance" => written - sent = Used + 1
      /\ (\A p \in Printers : nPc[p] # "advance") => written - sent = Used
      /\ HoldsFrom(buf, g_iReadPos, sent, written - sent)
      /\ nLast = sent
      /\ \A p, q \in Printers :
           nPc[p] \in {"write", "advance"} /\ nPc[q] \in {"write", "advance"} => p = q
  BY <1>r DEF InRing, Alone, N!Inside, PrintRoom, PrintCount, PrintContent
<1> USE DEF N!ring, N!printing, N!sending, N!history
\* Steps that move neither the ring nor a printer.
<1>1. CASE N!Wait \/ N!Drain \/ N!Send \/ N!Spurious \/ N!SetClient
  <2>1. UNCHANGED <<buf, g_iWritePos, g_iReadPos, nPc, w, written, sent, nLast>>
    BY <1>1 DEF N!Wait, N!Drain, N!Send, N!Spurious, N!SetClient
  <2>2. Goal
    BY <1>i, <2>1 DEF Alone, N!Inside, PrintRoom, PrintCount, PrintContent, Used
  <2> QED BY <2>2 DEF InRing
<1>2. ASSUME NEW p \in Printers, N!Signal(p) \/ \E n \in 1 .. MaxString : N!Begin(p, n)
      PROVE  Goal
  <2>1. /\ UNCHANGED <<buf, g_iWritePos, g_iReadPos, w, written, sent, nLast>>
        /\ nPc[p] \notin {"write", "advance"} /\ nPc'[p] \in {"idle", "check"}
        /\ \A q \in Printers : q # p => nPc'[q] = nPc[q]
    BY <1>2, <1>t, <1>u DEF N!Signal, N!Begin
  <2>2. Used' = Used
    BY <2>1 DEF Used
  <2>3. \A q \in Printers : nPc'[q] \in {"write", "advance"} => q # p /\ nPc'[q] = nPc[q]
    BY <2>1
  <2>4. (\A q \in Printers : nPc'[q] # "advance") => \A q \in Printers : nPc[q] # "advance"
    BY <2>1
  <2> QED BY <1>i, <2>1, <2>2, <2>3, <2>4 DEF Alone, N!Inside, PrintRoom, PrintCount, PrintContent
<1>3. ASSUME NEW p \in Printers, N!PutCheck(p)
      PROVE  Goal
  <2>1. /\ UNCHANGED <<buf, g_iWritePos, g_iReadPos, written, sent, nLast>>
        /\ nPc[p] = "check" /\ nPc'[p] \in {"signal", "write"}
        /\ \A q \in Printers : q # p => nPc'[q] = nPc[q] /\ w'[q] = w[q]
        /\ nPc'[p] = "write" => /\ N!Following(g_iWritePos) # g_iReadPos
                                /\ w'[p] = g_iWritePos
                                /\ \A q \in Printers : q # p => nPc[q] \notin {"write", "advance"}
    BY <1>3, <1>t, <1>u DEF N!PutCheck, N!isFull, N!Inside
  <2>2. Used' = Used
    BY <2>1 DEF Used
  <2>3. \A q \in Printers : nPc'[q] = "advance" <=> nPc[q] = "advance"
    BY <2>1
  <2>4. nPc'[p] = "write" => Used + 1 < PRINT_BUF_SIZE
    BY <1>t, <1>u, <2>1, RoomForOne DEF Used
  <2>5. PrintRoom'
    BY <1>i, <2>1, <2>2, <2>4 DEF PrintRoom
  <2>6. PrintCount'
    BY <1>i, <2>1, <2>2, <2>3 DEF PrintCount
  <2>7. Alone'
    BY <1>i, <2>1 DEF Alone, N!Inside
  <2> QED BY <1>i, <2>1, <2>5, <2>6, <2>7 DEF PrintContent
<1>4. ASSUME NEW p \in Printers, N!PutWrite(p)
      PROVE  Goal
  <2>1. /\ UNCHANGED <<g_iWritePos, g_iReadPos, w, sent, nLast>>
        /\ nPc[p] = "write" /\ nPc'[p] = "advance"
        /\ w[p] = g_iWritePos /\ written' = written + 1
        /\ buf' = [buf EXCEPT ![g_iWritePos] = written + 1]
        /\ \A q \in Printers : q # p => nPc'[q] = nPc[q]
    BY <1>4, <1>t, <1>u, <1>i DEF N!PutWrite
  <2>2. Used' = Used
    BY <2>1 DEF Used
  <2>3. \A q \in Printers : q # p => nPc[q] \notin {"write", "advance"}
    BY <1>i, <2>1
  <2>4. Used + 1 < PRINT_BUF_SIZE /\ written - sent = Used
    BY <1>i, <2>1, <2>3
  <2>5. PrintRoom'
    BY <2>1, <2>2, <2>3, <2>4 DEF PrintRoom
  <2>6. PrintCount'
    BY <1>t, <1>u, <2>1, <2>2, <2>3, <2>4 DEF PrintCount
  <2>7. ASSUME NEW k \in N!Index, k < Used + 1
        PROVE  buf'[Ahead(g_iReadPos, k)] = sent + k + 1
    <3>1. k \in Int /\ k <= Used /\ Ahead(g_iReadPos, k) \in N!Index
      BY <1>t, <1>u, <2>7, AheadIs DEF N!Index
    <3>2. Ahead(g_iReadPos, k) = g_iWritePos <=> k = Used
      BY <1>t, <1>u, <3>1, WriteSlot DEF Used
    <3>3. CASE k = Used
      BY <1>t, <1>u, <2>1, <2>4, <3>1, <3>2, <3>3
    <3>4. CASE k # Used
      <4>1. buf'[Ahead(g_iReadPos, k)] = buf[Ahead(g_iReadPos, k)]
        BY <1>t, <1>u, <2>1, <3>1, <3>2, <3>4
      <4>2. k < written - sent
        BY <1>t, <1>u, <2>4, <3>1, <3>4
      <4> QED BY <1>i, <4>1, <4>2 DEF HoldsFrom
    <3> QED BY <3>3, <3>4
  <2>8. written' - sent' = Used + 1
    BY <1>t, <1>u, <2>1, <2>4
  <2>9. Alone'
    BY <2>1, <2>3 DEF Alone, N!Inside
  <2> QED BY <1>i, <2>1, <2>5, <2>6, <2>7, <2>8, <2>9 DEF PrintContent, HoldsFrom
<1>5. ASSUME NEW p \in Printers, N!PutAdvance(p)
      PROVE  Goal
  <2>1. /\ UNCHANGED <<buf, g_iReadPos, written, sent, nLast>>
        /\ nPc[p] = "advance" /\ nPc'[p] = "check"
        /\ \A q \in Printers : q # p => nPc'[q] = nPc[q]
        /\ g_iWritePos' = N!Following(g_iWritePos)
        /\ Used + 1 < PRINT_BUF_SIZE /\ written - sent = Used + 1
    BY <1>5, <1>t, <1>u, <1>i DEF N!PutAdvance
  <2>2. Used' = Used + 1
    BY <1>t, <1>u, <2>1, WriteForward DEF Used
  <2>3. \A q \in Printers : nPc'[q] \notin {"write", "advance"}
    BY <1>i, <2>1
  <2> QED BY <1>i, <2>1, <2>2, <2>3 DEF Alone, N!Inside, PrintRoom, PrintCount, PrintContent
<1>6. CASE N!Get
  <2>1. /\ UNCHANGED <<buf, g_iWritePos, nPc, w, written>>
        /\ g_iWritePos # g_iReadPos /\ g_iReadPos' = N!Following(g_iReadPos)
        /\ sent' = sent + 1 /\ nLast' = buf[g_iReadPos]
    BY <1>6 DEF N!Get, N!isEmpty
  <2>2. Used >= 1 /\ Used' = Used - 1
    BY <1>t, <1>u, <2>1, ReadForward DEF Used
  <2>3. \/ written - sent = Used
        \/ written - sent = Used + 1 /\ Used + 1 < PRINT_BUF_SIZE
    BY <1>i
  <2>4. PrintRoom'
    BY <1>t, <1>u, <1>i, <2>1, <2>2, PrintSize DEF PrintRoom
  <2>5. PrintCount'
    BY <1>t, <1>u, <1>i, <2>1, <2>2 DEF PrintCount
  <2>6. 0 \in N!Index /\ 1 \in N!Index /\ 0 < written - sent
    BY <1>t, <1>u, <2>2, <2>3, PrintSize DEF N!Index
  <2>7. nLast' = sent'
    <3>1. Ahead(g_iReadPos, 0) = g_iReadPos
      BY <1>t, <1>u, <2>6, ReadSlot
    <3>2. buf[Ahead(g_iReadPos, 0)] = sent + 0 + 1
      BY <1>i, <2>6 DEF HoldsFrom
    <3> QED BY <1>t, <1>u, <2>1, <3>1, <3>2
  <2>8. ASSUME NEW k \in N!Index, k < written' - sent'
        PROVE  buf'[Ahead(g_iReadPos', k)] = sent' + k + 1
    <3>1. k + 1 \in N!Index /\ k + 1 < written - sent /\ k \in Int
      BY <1>t, <1>u, <2>1, <2>3, <2>8, PrintSize DEF N!Index
    <3>2. Ahead(g_iReadPos', k) = Ahead(g_iReadPos, k + 1)
      BY <1>t, <1>u, <2>1, <3>1, ReadSlot
    <3>3. buf[Ahead(g_iReadPos, k + 1)] = sent + (k + 1) + 1
      BY <1>i, <3>1 DEF HoldsFrom
    <3> QED BY <1>t, <1>u, <2>1, <3>1, <3>2, <3>3
  <2>9. Alone'
    BY <1>i, <2>1 DEF Alone, N!Inside
  <2>10. PrintContent'
    BY <2>7, <2>8 DEF PrintContent, HoldsFrom
  <2> QED BY <2>4, <2>5, <2>9, <2>10 DEF InRing
\* Nothing has moved the position that a printer inside PutData works with.
<1>7. ASSUME NEW p \in Printers, N!Reload(p) PROVE FALSE
  BY <1>7, <1>i DEF N!Reload, N!Inside
<1> QED BY <1>1, <1>2, <1>3, <1>4, <1>5, <1>6, <1>7 DEF N!Next, N!Put, N!SendThread, InRing

\* Where the debug channel's bytes lie, in every state of the two rings that no
\* overlap of two printers has come before.
THEOREM DebugRing == MCSpec => []PrintInv
<1>1. PrintInv /\ [MCNext]_all => PrintInv'
  <2> SUFFICES ASSUME PrintInv, [MCNext]_all PROVE PrintInv'
    OBVIOUS
  <2>1. CASE N!Next
    BY <2>1, PrintTypesStep, PrintStep DEF PrintInv
  <2>2. CASE UNCHANGED nVars
    <3>1. UNCHANGED <<buf, g_iWritePos, g_iReadPos, nPc, w, written, sent, nLast, raced>>
      BY <2>2 DEF nVars
    <3> QED BY <3>1 DEF PrintInv, PrintTypes, InRing, Alone, N!Inside, PrintRoom, PrintCount,
                        PrintContent, Used
  <2> QED BY <2>1, <2>2 DEF MCNext, all
<1> QED BY PrintInit, <1>1, PTL DEF MCSpec

\* However many threads print: until two of them overlap inside PutData its 0
\* is true whenever none is before its store of the position, and the ring
\* holds exactly the bytes accepted and not yet taken.
THEOREM DebugBytesAccounted == MCSpec => []Accounted
<1>1. PrintInv => Accounted
  BY DEF PrintInv, InRing, PrintCount, Used, UsedOf, Accounted, N!Accounted, N!Kept
<1> QED BY <1>1, DebugRing, PTL

\* However many threads print and mix their strings: until two of them overlap
\* inside PutData the unlocked ring of the debug channel is a byte queue, each
\* byte accepted is sent once, in order, for every size of the ring and of a
\* batch.
THEOREM DebugRingIsFifo == MCSpec => PrintFifo
<1>1. MCInit => N!Fifo!Init
  BY DEF MCInit, N!Init, N!Fifo!Init
<1>2. PrintInv /\ PrintInv' /\ [MCNext]_all => [N!Fifo!Next]_(N!Fifo!fifoVars)
  <2> SUFFICES ASSUME PrintInv, PrintInv', [MCNext]_all
               PROVE  [N!Fifo!Next]_(N!Fifo!fifoVars)
    OBVIOUS
  <2>a. CASE raced'
    BY <2>a DEF N!Fifo!Next, N!Fifo!Break
  <2>b. CASE ~raced'
    <3>0. /\ written \in Nat /\ sent \in Nat /\ nLast' = sent'
          /\ raced' = raced /\ raced = FALSE /\ InRing
      <4>1. MCNext \/ UNCHANGED all
        OBVIOUS
      <4>2. ~raced
        BY <2>b, <4>1, RacedStays DEF MCNext, all, nVars, PrintInv
      <4> QED BY <2>b, <4>2 DEF PrintInv, PrintTypes, InRing, PrintContent
    <3>1. ASSUME NEW p \in Printers, N!PutWrite(p) PROVE N!Fifo!Send
      BY <3>0, <3>1 DEF N!PutWrite, N!Fifo!Send
    <3>2. ASSUME N!Get PROVE N!Fifo!Deliver
      <4>1. sent' = sent + 1 /\ written' = written
        BY <3>2 DEF N!Get
      <4>2. sent < written
        <5>1. g_iWritePos \in N!Index /\ g_iReadPos \in N!Index /\ g_iWritePos # g_iReadPos
          BY <3>2 DEF N!Get, N!isEmpty, PrintInv, PrintTypes
        <5>2. Used >= 1 /\ Used \in Int
          BY <5>1, ReadForward, UsedIs DEF Used, N!Index
        <5>3. written - sent = Used \/ written - sent = Used + 1
          BY <3>0 DEF InRing, PrintCount
        <5> QED BY <3>0, <5>2, <5>3
      <4> QED BY <3>0, <4>1, <4>2 DEF N!Fifo!Deliver
    <3>3. CASE \/ N!Wait \/ N!Drain \/ N!Send \/ N!Spurious \/ N!SetClient \/ UNCHANGED nVars
      BY <3>3 DEF N!Wait, N!Drain, N!Send, N!Spurious, N!SetClient, nVars, N!history,
                  N!Fifo!fifoVars
    <3>4. ASSUME NEW p \in Printers,
                 \/ N!PutCheck(p) \/ N!PutAdvance(p) \/ N!Signal(p) \/ N!Reload(p)
                 \/ \E n \in 1 .. MaxString : N!Begin(p, n)
          PROVE  UNCHANGED N!Fifo!fifoVars
      BY <3>0, <3>4 DEF N!PutCheck, N!PutAdvance, N!Signal, N!Reload, N!Begin, N!history,
                        N!Fifo!fifoVars
    <3> QED BY <3>1, <3>2, <3>3, <3>4
            DEF MCNext, all, N!Next, N!Put, N!SendThread, N!Fifo!Next
  <2> QED BY <2>a, <2>b DEF PrintInv, PrintTypes
<1> QED BY <1>1, <1>2, DebugRing, PTL DEF MCSpec, PrintFifo, N!FifoSpec, N!Fifo!Spec
=============================================================================
