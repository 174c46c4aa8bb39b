---------------------------- MODULE CanLinkProofs ----------------------------
(***************************************************************************)
(* Proofs about CanLink, for every number of slots and of frames.  Each    *)
(* invariant builds on the ones before it: types, where the two threads    *)
(* are, where each frame is, and from these that a frame is dropped only   *)
(* by a full list, that bursts keep their order and that slots are read    *)
(* whole.                                                                  *)
(***************************************************************************)
EXTENDS CanLink, TLAPS

-----------------------------------------------------------------------------
(* Types.                                                                  *)

LEMMA NoFrameType == NoFrame \in Frame
  BY SMT DEF NoFrame, Frame, Kinds

LEMMA NothingType == Nothing \in [data : Frame, length : Frame, can_id : Frame]
  BY NoFrameType DEF Nothing

LEMMA GarbageType == ASSUME NEW k \in Kinds PROVE  Garbage(k) \in Frame
  BY DEF Garbage, Frame

\* The callback got a frame.
Delivered == \E nature \in Nature : Deliver(nature)

LEMMA NumberedType == ASSUME NEW n \in Nat, NEW nature \in Nature PROVE Numbered(n, nature) \in Frame
  BY DEF Numbered, Nature, Frame

LEMMA NextSteps ==
  ASSUME TypeOK, [Next]_vars
  PROVE  Delivered \/ ReadThread \/ Tack_To_PTZ \/ Tack_To_water_cannon \/ MainLoop \/ UNCHANGED vars
<1>1. ASSUME NEW nature \in Natures, Thread_can_read(nature) PROVE Delivered
  <2>1. nature \in Nature /\ Deliver(nature)
    BY <1>1, CanAssumption DEF Thread_can_read
  <2> QED
    BY <2>1 DEF Delivered
<1>2. ASSUME ReadFails PROVE Delivered
  <2>1. [kind |-> hand.kind, whole |-> hand.whole] \in Nature
    BY DEF TypeOK, ReaderOK, Frame, Nature
  <2> QED
    BY <1>2, <2>1 DEF ReadFails, Delivered
<1> QED
  BY <1>1, <1>2 DEF Next

LEMMA InitType == Init => TypeOK
<1> SUFFICES ASSUME Init PROVE TypeOK
  OBVIOUS
<1>1. SlotsOK
  BY NoFrameType DEF Init, SlotsOK
<1>2. ReaderOK
  <2>1. hand \in Frame
    BY NumberedType, CanAssumption DEF Init
  <2> QED
    BY <2>1, CanAssumption DEF Init, ReaderOK, Slots
<1>3. MainOK
  BY NoFrameType, NothingType, CanAssumption DEF Init, MainOK, Slots
<1>4. HistoryOK
  BY DEF Init, HistoryOK, Devices, Arrived
<1> QED
  BY <1>1, <1>2, <1>3, <1>4 DEF TypeOK

LEMMA SlotsStep == TypeOK /\ [Next]_vars => SlotsOK'
<1> SUFFICES ASSUME TypeOK, [Next]_vars PROVE SlotsOK'
  OBVIOUS
<1>1. CASE UNCHANGED slots
  BY <1>1 DEF TypeOK, SlotsOK, slots
<1>2. CASE Copy
  BY <1>2 DEF Copy, TypeOK, SlotsOK, ReaderOK
<1>3. CASE \E field \in Fields : CanReadCallback(field)
  BY <1>3 DEF CanReadCallback, TypeOK, SlotsOK, ReaderOK
<1>4. CASE read_can_data
  BY <1>4 DEF read_can_data, Freed, TypeOK, SlotsOK, MainOK
<1>5. UNCHANGED slots \/ Copy \/ (\E field \in Fields : CanReadCallback(field)) \/ read_can_data
  BY NextSteps DEF ReadThread, MainLoop, vars, Delivered, Deliver, Get_can_Mem, Drop,
         Tack_To_PTZ, Tack_To_water_cannon, Look, get_can_mem_data, CopyData, CopyId
<1> QED
  BY <1>1, <1>2, <1>3, <1>4, <1>5

LEMMA ReaderStep == TypeOK /\ [Next]_vars => ReaderOK'
<1> SUFFICES ASSUME TypeOK, [Next]_vars PROVE ReaderOK'
  OBVIOUS
<1>1. CASE UNCHANGED readerVars
  BY <1>1 DEF TypeOK, ReaderOK, readerVars
<1>2. CASE Delivered
  <2>1. PICK nature \in Nature : Deliver(nature)
    BY <1>2 DEF Delivered
  <2>2. hand' = Numbered(last + 1, nature) /\ last + 1 \in Nat
    BY <2>1 DEF Deliver, TypeOK, ReaderOK
  <2>4. hand' \in Frame
    BY <2>2, NumberedType
  <2> QED
    BY <2>1, <2>4 DEF Deliver, TypeOK, ReaderOK
<1>3. CASE Get_can_Mem
  BY <1>3, CanAssumption DEF Get_can_Mem, LastSlot, TypeOK, ReaderOK, Slots
<1>4. CASE Drop
  BY <1>4, CanAssumption DEF Drop, Return, TypeOK, ReaderOK, Slots
<1>5. CASE Copy
  BY <1>5 DEF Copy, TypeOK, ReaderOK
<1>6. CASE \E field \in Fields : CanReadCallback(field)
  BY <1>6, CanAssumption DEF CanReadCallback, Return, TypeOK, ReaderOK, Slots
<1>8. UNCHANGED readerVars \/ Delivered \/ ReadThread
  BY NextSteps DEF MainLoop, vars,
         Tack_To_PTZ, Tack_To_water_cannon, Look, get_can_mem_data, CopyData, CopyId, read_can_data
<1> QED
  BY <1>1, <1>2, <1>3, <1>4, <1>5, <1>6, <1>8 DEF ReadThread

LEMMA MainStep == TypeOK /\ [Next]_vars => MainOK'
<1> SUFFICES ASSUME TypeOK, [Next]_vars PROVE MainOK'
  OBVIOUS
<1>1. CASE UNCHANGED mainVars
  BY <1>1 DEF TypeOK, MainOK, mainVars
<1>2. CASE Look \/ get_can_mem_data
  BY <1>2, CanAssumption DEF Look, get_can_mem_data, TypeOK, MainOK, Slots
<1>3. CASE CopyData \/ CopyId
  BY <1>3 DEF CopyData, CopyId, TypeOK, MainOK, SlotsOK
<1>4. CASE read_can_data
  <2>1. ptz_angle' \in Frame /\ wc_data' \in Frame
    BY <1>4, GarbageType DEF read_can_data, Dispatch, Cannon, TypeOK, MainOK
  <2>2. main' = "idle" /\ m' = 1 /\ got' = Nothing
    BY <1>4 DEF read_can_data
  <2> QED
    BY <2>1, <2>2, NothingType, CanAssumption DEF MainOK, Slots
<1>5. UNCHANGED mainVars \/ MainLoop
  BY NextSteps DEF ReadThread, vars, Delivered, Deliver, Get_can_Mem, Drop, Copy, CanReadCallback,
         Tack_To_PTZ, Tack_To_water_cannon
<1> QED
  BY <1>1, <1>2, <1>3, <1>4, <1>5 DEF MainLoop

LEMMA HistoryStep == TypeOK /\ [Next]_vars => HistoryOK'
<1> SUFFICES ASSUME TypeOK, [Next]_vars PROVE HistoryOK'
  OBVIOUS
<1> USE DEF Arrived
<1>1. asked' \in [Devices -> Nat]
  <2>1. CASE UNCHANGED asked
    BY <2>1 DEF TypeOK, HistoryOK
  <2>2. CASE \E nature \in Natures : Thread_can_read(nature)
    BY <2>2 DEF Thread_can_read, TypeOK, HistoryOK
  <2>3. CASE Tack_To_PTZ \/ Tack_To_water_cannon
    BY <2>3 DEF Tack_To_PTZ, Tack_To_water_cannon, SDO_write_frame, CAN_senddata,
                TypeOK, HistoryOK, Devices
  <2>4. UNCHANGED asked \/ (\E nature \in Natures : Thread_can_read(nature))
          \/ Tack_To_PTZ \/ Tack_To_water_cannon
    BY DEF vars, Next, ReadThread, MainLoop, Get_can_Mem, Drop, Copy, CanReadCallback,
           ReadFails, Look, get_can_mem_data, CopyData, CopyId, read_can_data
  <2> QED
    BY <2>1, <2>2, <2>3, <2>4
<1>2. sawFull' \in BOOLEAN
  BY NextSteps DEF TypeOK, HistoryOK, vars, ReadThread, MainLoop,
         Delivered, Deliver, Get_can_Mem, Drop, Copy, CanReadCallback,
         Tack_To_PTZ, Tack_To_water_cannon, Look, get_can_mem_data, CopyData, CopyId, read_can_data
<1>3. early' \in BOOLEAN
  BY NextSteps DEF TypeOK, HistoryOK, vars, ReadThread, MainLoop,
         Delivered, Deliver, Get_can_Mem, Drop, Copy, CanReadCallback,
         Tack_To_PTZ, Tack_To_water_cannon, Look, get_can_mem_data, CopyData, CopyId, read_can_data
<1>4. taken' \subseteq Nat /\ dropped' \subseteq Nat /\ freed' \subseteq Arrived'
  <2>1. CASE UNCHANGED <<taken, dropped, freed, last>>
    BY <2>1 DEF TypeOK, HistoryOK
  <2>2. CASE Delivered
    BY <2>2 DEF Delivered, Deliver, TypeOK, HistoryOK, ReaderOK
  <2>3. CASE Drop
    BY <2>3 DEF Drop, TypeOK, HistoryOK, ReaderOK, Frame
  <2>4. CASE read_can_data
    <3>1. got.data \in Frame
      BY DEF TypeOK, MainOK
    <3>2. got.data.n \in Nat
      BY <3>1 DEF Frame
    <3> QED
      BY <2>4, <3>2 DEF read_can_data, readerVars, TypeOK, HistoryOK
  <2>5. UNCHANGED <<taken, dropped, freed, last>> \/ Delivered
          \/ Drop \/ read_can_data
    BY NextSteps DEF vars, readerVars, ReadThread, MainLoop,
         Get_can_Mem, Copy, CanReadCallback,
         Tack_To_PTZ, Tack_To_water_cannon, Look, get_can_mem_data, CopyData, CopyId
  <2> QED
    BY <2>1, <2>2, <2>3, <2>4, <2>5
<1> QED
  BY <1>1, <1>2, <1>3, <1>4 DEF HistoryOK

\* Every variable keeps its type.
THEOREM TypeCorrect == Spec => []TypeOK
<1>1. TypeOK /\ [Next]_vars => TypeOK'
  BY SlotsStep, ReaderStep, MainStep, HistoryStep DEF TypeOK
<1> QED
  BY InitType, <1>1, PTL DEF Spec

-----------------------------------------------------------------------------
(* Where the threads are.                                                  *)

\* A walk begins at the first slot; the stores under way are those of the
\* frame in hand, into a slot that is not marked yet; the main loop stands on
\* a used slot and has copied its data.
ReaderPlace ==
  /\ reader = "read" => r = 1
  /\ reader # "store" => todo = {}
  /\ reader = "store" => data[r] = hand /\ todo # {}
  /\ "eMemState" \in todo => ~used[r]
  /\ reader \in {"walk", "store"} => hand.n = last

MainPlace == main \in {"id", "free"} => used[m] /\ got.data = data[m]

Places == ReaderPlace /\ MainPlace

LEMMA PlacesInit == Init => Places
  BY CanAssumption DEF Init, Places, ReaderPlace, MainPlace

LEMMA ReaderPlaceStep == TypeOK /\ Places /\ [Next]_vars => ReaderPlace'
<1> SUFFICES ASSUME TypeOK, Places, [Next]_vars PROVE ReaderPlace'
  OBVIOUS
<1>1. CASE UNCHANGED <<slots, readerVars>>
  BY <1>1 DEF Places, ReaderPlace, slots, readerVars
<1>2. CASE Delivered
  <2>1. PICK nature \in Nature : Deliver(nature)
    BY <1>2 DEF Delivered
  <2>2. hand'.n = last + 1
    BY <2>1 DEF Deliver, Numbered
  <2> QED
    BY <2>1, <2>2 DEF Deliver, slots, Places, ReaderPlace
<1>3. CASE Get_can_Mem
  BY <1>3 DEF Get_can_Mem, slots, Places, ReaderPlace
<1>4. CASE Drop
  BY <1>4 DEF Drop, Return, slots, Places, ReaderPlace
<1>5. CASE Copy
  BY <1>5 DEF Copy, Free, Fields, TypeOK, SlotsOK, ReaderOK, Places, ReaderPlace
<1>6. CASE \E field \in Fields : CanReadCallback(field)
  <2>1. PICK field \in Fields : CanReadCallback(field)
    BY <1>6
  <2>2. "eMemState" \in todo' => used' = used
    BY <2>1 DEF CanReadCallback
  <2> QED
    BY <2>1, <2>2 DEF CanReadCallback, Return, Places, ReaderPlace
<1>8. CASE read_can_data
  BY <1>8 DEF read_can_data, Freed, readerVars, Places, ReaderPlace, TypeOK, SlotsOK, ReaderOK, MainOK
<1>9. UNCHANGED <<slots, readerVars>> \/ Delivered
        \/ ReadThread \/ read_can_data
  BY NextSteps DEF MainLoop, vars,
         Tack_To_PTZ, Tack_To_water_cannon, Look, get_can_mem_data, CopyData, CopyId
<1> QED
  BY <1>1, <1>2, <1>3, <1>4, <1>5, <1>6, <1>8, <1>9 DEF ReadThread

LEMMA MainPlaceStep == TypeOK /\ Places /\ [Next]_vars => MainPlace'
<1> SUFFICES ASSUME TypeOK, Places, [Next]_vars PROVE MainPlace'
  OBVIOUS
<1>1. CASE UNCHANGED <<used, data, main, m, got>>
  BY <1>1 DEF Places, MainPlace
<1>2. CASE Copy
  BY <1>2 DEF Copy, Free, mainVars, TypeOK, SlotsOK, ReaderOK, MainOK, Places, MainPlace
<1>3. CASE \E field \in Fields : CanReadCallback(field)
  <2>1. \A s \in Slots : used[s] => used'[s]
    BY <1>3 DEF CanReadCallback, TypeOK, SlotsOK, ReaderOK
  <2>2. UNCHANGED <<data, main, m, got>>
    BY <1>3 DEF CanReadCallback, mainVars
  <2> QED
    BY <2>1, <2>2 DEF TypeOK, MainOK, Places, MainPlace
<1>4. CASE Look \/ get_can_mem_data
  BY <1>4 DEF Look, get_can_mem_data, MainPlace
<1>5. CASE CopyData
  BY <1>5 DEF CopyData, slots, MainPlace
<1>6. CASE CopyId
  BY <1>6 DEF CopyId, slots, Places, MainPlace
<1>7. CASE read_can_data
  BY <1>7 DEF read_can_data, MainPlace
<1>8. UNCHANGED <<used, data, main, m, got>> \/ Copy \/ (\E field \in Fields : CanReadCallback(field))
        \/ MainLoop
  BY NextSteps DEF ReadThread, vars, slots, mainVars, Delivered, Deliver, Get_can_Mem, Drop,
         Tack_To_PTZ, Tack_To_water_cannon
<1> QED
  BY <1>1, <1>2, <1>3, <1>4, <1>5, <1>6, <1>7, <1>8 DEF MainLoop

LEMMA PlacesHold == Spec => []Places
<1>1. TypeOK /\ Places /\ [Next]_vars => Places'
  BY ReaderPlaceStep, MainPlaceStep DEF Places
<1> QED
  BY PlacesInit, TypeCorrect, <1>1, PTL DEF Spec

-----------------------------------------------------------------------------
(* Where each frame is.                                                    *)

LEMMA AccountedInit == Init => AccountedFor
  BY DEF Init, AccountedFor, Arrived, InHand, Stored

LEMMA AccountedStep == TypeOK /\ Places /\ AccountedFor /\ [Next]_vars => AccountedFor'
<1> SUFFICES ASSUME TypeOK, Places, AccountedFor, [Next]_vars PROVE AccountedFor'
  OBVIOUS
<1>1. CASE UNCHANGED <<used, data, taken, dropped, last>> /\ InHand' = InHand
  <2>1. Stored' = Stored /\ Arrived' = Arrived
    BY <1>1 DEF Stored, Arrived
  <2> QED
    BY <1>1, <2>1 DEF AccountedFor
<1>2. CASE Delivered
  <2>1. PICK nature \in Nature : Deliver(nature)
    BY <1>2 DEF Delivered
  <2>2. UNCHANGED <<used, data, taken, dropped>>
    BY <2>1 DEF Deliver, slots
  <2>3. Stored' = Stored
    BY <2>2 DEF Stored
  <2>4. InHand = {}
    BY <2>1 DEF Deliver, InHand
  <2>5. InHand' = {last + 1}
    BY <2>1 DEF Deliver, Numbered, InHand
  <2>6. Arrived' = Arrived \cup {last + 1} /\ last + 1 \notin Arrived
    BY <2>1 DEF Deliver, Arrived, TypeOK, ReaderOK
  <2> QED
    BY <2>2, <2>3, <2>4, <2>5, <2>6 DEF AccountedFor
<1>3. CASE Drop
  <2>1. UNCHANGED <<used, data, taken, last>> /\ dropped' = dropped \cup {hand.n}
    BY <1>3 DEF Drop, slots
  <2>2. Stored' = Stored /\ Arrived' = Arrived
    BY <2>1 DEF Stored, Arrived
  <2>3. InHand = {hand.n} /\ InHand' = {}
    BY <1>3 DEF Drop, Return, InHand
  <2> QED
    BY <2>1, <2>2, <2>3 DEF AccountedFor
<1>4. CASE Copy
  <2>1. /\ UNCHANGED <<used, taken, dropped, last>>
        /\ \A s \in Slots : used[s] => data'[s] = data[s]
    BY <1>4 DEF Copy, Free, TypeOK, SlotsOK
  <2>2. Stored' = Stored /\ Arrived' = Arrived
    BY <2>1 DEF Stored, Arrived
  <2>3. InHand = {hand.n} /\ InHand' = {hand.n}
    BY <1>4 DEF Copy, InHand, Fields
  <2> QED
    BY <2>1, <2>2, <2>3 DEF AccountedFor
<1>5. CASE \E field \in Fields : CanReadCallback(field)
  <2>1. PICK field \in Fields : CanReadCallback(field)
    BY <1>5
  <2>2. UNCHANGED <<data, taken, dropped, last>>
    BY <2>1 DEF CanReadCallback
  <2>3. Arrived' = Arrived
    BY <2>2 DEF Arrived
  <2>4. CASE field = "eMemState"
    <3>1. used' = [used EXCEPT ![r] = TRUE] /\ data[r] = hand /\ ~used[r] /\ r \in Slots
      BY <2>1, <2>4 DEF CanReadCallback, Places, ReaderPlace, TypeOK, ReaderOK
    <3>2. Stored' = Stored \cup {hand.n}
      BY <2>2, <3>1 DEF Stored, TypeOK, SlotsOK
    <3>3. InHand = {hand.n} /\ InHand' = {}
      BY <2>1, <2>4 DEF CanReadCallback, Return, InHand
    <3>4. \A s \in Slots : used[s] => data[s].n # hand.n
      BY <3>3 DEF AccountedFor, Stored
    <3>5. \A s, t \in Slots : used'[s] /\ used'[t] /\ data'[s].n = data'[t].n => s = t
      BY <2>2, <3>1, <3>4 DEF AccountedFor, TypeOK, SlotsOK
    <3> QED
      BY <2>2, <2>3, <3>2, <3>3, <3>5 DEF AccountedFor
  <2>5. CASE field # "eMemState"
    <3>1. used' = used
      BY <2>1, <2>5 DEF CanReadCallback
    <3>2. Stored' = Stored
      BY <2>2, <3>1 DEF Stored
    <3>3. InHand' = InHand
      BY <2>1, <2>5 DEF CanReadCallback, Return, InHand
    <3> QED
      BY <2>2, <2>3, <3>1, <3>2, <3>3 DEF AccountedFor
  <2> QED
    BY <2>4, <2>5
<1>6. CASE read_can_data
  <2>1. /\ used' = [used EXCEPT ![m] = FALSE] /\ used[m] /\ m \in Slots
        /\ taken' = taken \cup {data[m].n}
        /\ UNCHANGED <<data, dropped, last, readerVars>>
    BY <1>6 DEF read_can_data, Freed, readerVars, Places, MainPlace, TypeOK, MainOK
  <2>2. InHand' = InHand /\ Arrived' = Arrived
    BY <2>1 DEF InHand, Arrived, readerVars
  <2>3. Stored' = Stored \ {data[m].n} /\ data[m].n \in Stored
    BY <2>1 DEF Stored, AccountedFor, TypeOK, SlotsOK
  <2>4. \A s \in Slots : used'[s] => used[s]
    BY <2>1 DEF TypeOK, SlotsOK
  <2> QED
    BY <2>1, <2>2, <2>3, <2>4 DEF AccountedFor
<1>7. (UNCHANGED <<used, data, taken, dropped, last>> /\ InHand' = InHand)
        \/ Delivered
        \/ Drop \/ Copy \/ (\E field \in Fields : CanReadCallback(field)) \/ read_can_data
  BY NextSteps DEF ReadThread, MainLoop, vars, slots, readerVars, InHand, Get_can_Mem,
         Tack_To_PTZ, Tack_To_water_cannon, Look, get_can_mem_data, CopyData, CopyId
<1> QED
  BY <1>1, <1>2, <1>3, <1>4, <1>5, <1>6, <1>7

\* Every frame the callback got is at exactly one place: in the read thread's
\* hand, in one used slot, processed, or dropped; so the callback's one call is
\* answered by one processing at most.
THEOREM FramesAccounted == Spec => []AccountedFor
  BY AccountedInit, AccountedStep, TypeCorrect, PlacesHold, PTL DEF Spec

-----------------------------------------------------------------------------
(* Dropped frames.                                                         *)

\* As long as the walk goes on, a slot that was free when the frame arrived
\* can only lie ahead: the main loop frees slots, it never fills one.
FreeAhead == reader = "walk" /\ ~sawFull => \E s \in Slots : s >= r /\ ~used[s]

LEMMA FreeAheadStep == TypeOK /\ Places /\ FreeAhead /\ [Next]_vars => FreeAhead'
<1> SUFFICES ASSUME TypeOK, Places, FreeAhead, [Next]_vars PROVE FreeAhead'
  OBVIOUS
<1>1. CASE reader' # "walk"
  BY <1>1 DEF FreeAhead
<1>2. CASE UNCHANGED <<used, reader, r, sawFull>>
  BY <1>2 DEF FreeAhead
<1>3. CASE Delivered
  BY <1>3 DEF Delivered, Deliver, slots, Places, ReaderPlace, FreeAhead, Slots
<1>4. CASE Get_can_Mem
  BY <1>4 DEF Get_can_Mem, Free, slots, FreeAhead, TypeOK, ReaderOK, Slots
<1>5. CASE read_can_data
  BY <1>5 DEF read_can_data, Freed, readerVars, FreeAhead, TypeOK, SlotsOK
<1>6. reader' # "walk" \/ UNCHANGED <<used, reader, r, sawFull>>
        \/ Delivered \/ Get_can_Mem \/ read_can_data
  BY NextSteps DEF ReadThread, MainLoop, vars, slots, readerVars, Drop, Copy, CanReadCallback, Return,
         Tack_To_PTZ, Tack_To_water_cannon, Look, get_can_mem_data, CopyData, CopyId
<1> QED
  BY <1>1, <1>2, <1>3, <1>4, <1>5, <1>6

LEMMA FreeAheadHolds == Spec => []FreeAhead
<1>1. Init => FreeAhead
  BY DEF Init, FreeAhead
<1> QED
  BY <1>1, FreeAheadStep, TypeCorrect, PlacesHold, PTL DEF Spec

\* A frame is dropped only if every slot was used when the callback got it.
THEOREM DropsFull == Spec => DropsOnlyWhenFull
<1>1. TypeOK /\ FreeAhead /\ [Next]_vars => [dropped' # dropped => sawFull]_vars
  <2> SUFFICES ASSUME TypeOK, FreeAhead, [Next]_vars, dropped' # dropped PROVE sawFull
    OBVIOUS
  <2>1. Drop
    BY NextSteps DEF ReadThread, MainLoop, vars, Delivered, Deliver, Get_can_Mem, Copy, CanReadCallback,
           Tack_To_PTZ, Tack_To_water_cannon, Look, get_can_mem_data, CopyData,
           CopyId, read_can_data
  <2> QED
    BY <2>1 DEF Drop, Free, LastSlot, FreeAhead, TypeOK, ReaderOK, HistoryOK, Slots
<1> QED
  BY <1>1, TypeCorrect, FreeAheadHolds, PTL DEF Spec, DropsOnlyWhenFull

-----------------------------------------------------------------------------
(* The order of a burst.                                                   *)

\* No slot is free before a frame after whose arrival no slot was freed, be it
\* stored or on its way into a slot.
PackedBefore ==
  /\ \A s, t \in Slots : used[t] /\ data[t].n \notin freed /\ s < t => used[s]
  /\ InHand # {} /\ hand.n \notin freed => \A s \in Slots : s < r => used[s]

BurstInv == PackedBefore /\ BurstInOrder

LEMMA BurstInit == Init => BurstInv
  BY DEF Init, BurstInv, PackedBefore, BurstInOrder, InHand

\* The main loop freed a slot: every frame that waits has seen it.
LEMMA WaitingSeen ==
  ASSUME TypeOK, AccountedFor', read_can_data
  PROVE  InHand' \cup Stored' \subseteq freed'
<1>1. freed' = Arrived \ (taken' \cup dropped) /\ dropped' = dropped /\ last' = last
  BY DEF read_can_data, readerVars
<1>2. Arrived' = Arrived
  BY <1>1 DEF Arrived
<1> QED
  BY <1>1, <1>2 DEF AccountedFor

LEMMA BurstStep ==
  TypeOK /\ Places /\ AccountedFor /\ AccountedFor' /\ BurstInv /\ [Next]_vars => BurstInv'
<1> SUFFICES ASSUME TypeOK, Places, AccountedFor, AccountedFor', BurstInv, [Next]_vars
             PROVE  BurstInv'
  OBVIOUS
<1>1. CASE UNCHANGED <<used, data, hand, r, freed>> /\ InHand' = InHand
  BY <1>1 DEF BurstInv, PackedBefore, BurstInOrder
<1>2. CASE Delivered
  <2>1. UNCHANGED <<used, data, freed, r>> /\ r = 1
    BY <1>2 DEF Delivered, Deliver, slots, Places, ReaderPlace
  <2> QED
    BY <2>1 DEF BurstInv, PackedBefore, BurstInOrder, Slots
<1>3. CASE Get_can_Mem
  <2>1. UNCHANGED <<used, data, hand, freed>> /\ r' = r + 1 /\ used[r] /\ InHand # {}
    BY <1>3 DEF Get_can_Mem, Free, slots, InHand
  <2>2. \A s \in Slots : s < r + 1 => s < r \/ s = r
    BY DEF Slots, TypeOK, ReaderOK
  <2> QED
    BY <2>1, <2>2 DEF BurstInv, PackedBefore, BurstInOrder
<1>4. CASE Drop
  <2>1. UNCHANGED <<used, data>> /\ freed' = freed \ {hand.n} /\ InHand = {hand.n} /\ InHand' = {}
    BY <1>4 DEF Drop, Return, slots, InHand
  <2>2. \A s \in Slots : used[s] => data[s].n # hand.n
    BY <2>1 DEF AccountedFor, Stored
  <2> QED
    BY <2>1, <2>2 DEF BurstInv, PackedBefore, BurstInOrder
<1>5. CASE Copy
  <2>1. /\ UNCHANGED <<used, hand, r, freed>> /\ InHand # {}
        /\ \A s \in Slots : used[s] => data'[s] = data[s]
    BY <1>5 DEF Copy, Free, TypeOK, SlotsOK, InHand
  <2> QED
    BY <2>1 DEF BurstInv, PackedBefore, BurstInOrder
<1>6. CASE \E field \in Fields : CanReadCallback(field)
  <2>1. PICK field \in Fields : CanReadCallback(field)
    BY <1>6
  <2>2. UNCHANGED <<data, freed>>
    BY <2>1 DEF CanReadCallback
  <2>3. CASE field = "eMemState"
    <3>1. /\ used' = [used EXCEPT ![r] = TRUE] /\ data[r] = hand /\ ~used[r] /\ r \in Slots
          /\ hand.n = last
      BY <2>1, <2>3 DEF CanReadCallback, Places, ReaderPlace, TypeOK, ReaderOK
    <3>2. InHand = {hand.n} /\ InHand' = {}
      BY <2>1, <2>3 DEF CanReadCallback, Return, InHand
    <3>3. \A s \in Slots : used'[s] <=> used[s] \/ s = r
      BY <3>1 DEF TypeOK, SlotsOK
    <3>4. \A t \in Slots : used[t] => data[t].n \in 1 .. last
      BY DEF AccountedFor, Stored, Arrived
    <3>5. PackedBefore'
      BY <2>2, <3>1, <3>2, <3>3 DEF BurstInv, PackedBefore
    <3>6. ASSUME NEW s \in Slots, NEW t \in Slots,
                 used'[s], used'[t], s < t, data'[s].n > data'[t].n
          PROVE  data'[t].n \in freed'
      <4>1. CASE t = r
        <5>1. s # r
          BY <3>6, <4>1 DEF Slots
        <5>2. data[s].n \in 1 .. last
          BY <3>3, <3>4, <3>6, <5>1
        <5> QED
          BY <2>2, <3>1, <3>6, <4>1, <5>2 DEF TypeOK, ReaderOK
      <4>2. CASE s = r /\ t # r
        BY <2>2, <3>1, <3>3, <3>6, <4>2 DEF BurstInv, PackedBefore
      <4>3. CASE s # r /\ t # r
        BY <2>2, <3>3, <3>6, <4>3 DEF BurstInv, BurstInOrder
      <4> QED
        BY <4>1, <4>2, <4>3
    <3> QED
      BY <3>5, <3>6 DEF BurstInv, BurstInOrder
  <2>4. CASE field # "eMemState"
    <3>1. used' = used
      BY <2>1, <2>4 DEF CanReadCallback
    <3>2. InHand' = InHand
      BY <2>1, <2>4 DEF CanReadCallback, Return, InHand
    <3>3. InHand # {} => UNCHANGED <<hand, r>>
      BY <2>1, <2>4 DEF CanReadCallback, Return, InHand
    <3> QED
      BY <2>2, <3>1, <3>2, <3>3 DEF BurstInv, PackedBefore, BurstInOrder
  <2> QED
    BY <2>3, <2>4
<1>7. CASE read_can_data
  <2>1. \A t \in Slots : used'[t] => data'[t].n \in freed'
    BY <1>7, WaitingSeen DEF Stored
  <2>2. InHand' # {} => hand'.n \in freed'
    BY <1>7, WaitingSeen DEF InHand
  <2> QED
    BY <2>1, <2>2 DEF BurstInv, PackedBefore, BurstInOrder
<1>8. (UNCHANGED <<used, data, hand, r, freed>> /\ InHand' = InHand)
        \/ Delivered
        \/ ReadThread \/ read_can_data
  BY NextSteps DEF MainLoop, vars, slots, readerVars, InHand,
         Tack_To_PTZ, Tack_To_water_cannon, Look, get_can_mem_data, CopyData, CopyId
<1> QED
  BY <1>1, <1>2, <1>3, <1>4, <1>5, <1>6, <1>7, <1>8 DEF ReadThread

\* A younger frame stands before an older one only if a slot was freed after
\* the older one arrived.
THEOREM BurstOrdered == Spec => []BurstInOrder
<1>1. BurstInv => BurstInOrder
  BY DEF BurstInv
<1> QED
  BY <1>1, BurstInit, BurstStep, TypeCorrect, PlacesHold, FramesAccounted, PTL DEF Spec

-----------------------------------------------------------------------------
(* Slots are read whole.                                                   *)

\* A used slot is written through unless its stores are under way, and those
\* that are visible are the frame's in hand.
Written ==
  /\ \A s \in Slots : used[s] /\ ~UnderWay(s) => length[s] = data[s] /\ can_id[s] = data[s]
  /\ reader = "store" /\ "DataLen" \notin todo => length[r] = hand
  /\ reader = "store" /\ "can_id" \notin todo => can_id[r] = hand

Copied ==
  /\ main \in {"id", "free"} /\ ~early => got.length = got.data
  /\ main = "free" /\ ~early => got.can_id = got.data

IntactInv == Written /\ Copied

LEMMA IntactInit == Init => IntactInv
  BY DEF Init, IntactInv, Written, Copied

LEMMA WrittenStep == TypeOK /\ Places /\ Written /\ [Next]_vars => Written'
<1> SUFFICES ASSUME TypeOK, Places, Written, [Next]_vars PROVE Written'
  OBVIOUS
<1>1. CASE UNCHANGED <<slots, readerVars>>
  BY <1>1 DEF Written, UnderWay, slots, readerVars
<1>2. CASE UNCHANGED slots /\ reader # "store" /\ reader' # "store"
  BY <1>2 DEF Written, UnderWay, slots
<1>3. CASE Copy
  <2>1. /\ UNCHANGED <<used, length, can_id, r, hand>> /\ ~used[r] /\ todo' = Fields
        /\ \A s \in Slots : s # r => data'[s] = data[s]
    BY <1>3 DEF Copy, Free, TypeOK, SlotsOK
  <2>2. \A s \in Slots : ~UnderWay(s)
    BY <1>3 DEF Copy, UnderWay
  <2> QED
    BY <2>1, <2>2 DEF Written, Fields
<1>4. CASE \E field \in Fields : CanReadCallback(field)
  <2>1. PICK field \in Fields : CanReadCallback(field)
    BY <1>4
  <2>2. /\ data' = data /\ data[r] = hand /\ r \in Slots /\ reader = "store"
        /\ todo' = todo \ {field} /\ field \in todo
    BY <2>1 DEF CanReadCallback, Places, ReaderPlace, TypeOK, ReaderOK
  <2>3. \A s \in Slots : s # r => /\ used'[s] = used[s] /\ length'[s] = length[s]
                                  /\ can_id'[s] = can_id[s] /\ ~UnderWay(s)
    BY <2>1 DEF CanReadCallback, UnderWay, TypeOK, SlotsOK
  <2>4. "DataLen" \notin todo' => length'[r] = hand
    BY <2>1, <2>2 DEF CanReadCallback, Written, TypeOK, SlotsOK
  <2>5. "can_id" \notin todo' => can_id'[r] = hand
    BY <2>1, <2>2 DEF CanReadCallback, Written, TypeOK, SlotsOK
  <2>6. \/ todo' # {} /\ UNCHANGED <<reader, r, hand>>
        \/ todo' = {} /\ reader' = "read"
    BY <2>1 DEF CanReadCallback, Return
  <2>7. ASSUME NEW s \in Slots, used'[s], ~UnderWay(s)'
        PROVE  length'[s] = data'[s] /\ can_id'[s] = data'[s]
    <3>1. CASE s # r
      BY <2>2, <2>3, <2>7, <3>1 DEF Written
    <3>2. CASE s = r
      BY <2>2, <2>4, <2>5, <2>6, <2>7, <3>2 DEF UnderWay
    <3> QED
      BY <3>1, <3>2
  <2> QED
    BY <2>4, <2>5, <2>6, <2>7 DEF Written
<1>5. CASE read_can_data
  BY <1>5 DEF read_can_data, Freed, readerVars, Written, UnderWay, TypeOK, SlotsOK, MainOK
<1>6. UNCHANGED <<slots, readerVars>> \/ (UNCHANGED slots /\ reader # "store" /\ reader' # "store")
        \/ Copy \/ (\E field \in Fields : CanReadCallback(field)) \/ read_can_data
  BY NextSteps DEF ReadThread, MainLoop, vars, slots, readerVars, Delivered, Deliver, Get_can_Mem, Drop,
         Return, Tack_To_PTZ, Tack_To_water_cannon, Look, get_can_mem_data, CopyData, CopyId
<1> QED
  BY <1>1, <1>2, <1>3, <1>4, <1>5, <1>6

LEMMA CopiedStep == TypeOK /\ Places /\ IntactInv /\ [Next]_vars => Copied'
<1> SUFFICES ASSUME TypeOK, Places, IntactInv, [Next]_vars PROVE Copied'
  OBVIOUS
<1>1. CASE UNCHANGED <<main, got, early>>
  BY <1>1 DEF IntactInv, Copied
<1>2. CASE main' \notin {"id", "free"}
  BY <1>2 DEF Copied
<1>3. CASE CopyData
  <2>1. /\ got' = [data |-> data[m], length |-> length[m], can_id |-> got.can_id]
        /\ main' = "id" /\ used[m] /\ m \in Slots /\ (~early' => ~UnderWay(m))
    BY <1>3 DEF CopyData, TypeOK, MainOK
  <2>2. got'.data = data[m] /\ got'.length = length[m]
    BY <2>1
  <2> QED
    BY <2>1, <2>2 DEF IntactInv, Written, Copied
<1>4. CASE CopyId
  <2>1. /\ got' = [data |-> got.data, length |-> got.length, can_id |-> can_id[m]]
        /\ used[m] /\ got.data = data[m] /\ m \in Slots /\ main = "id"
        /\ (~early' => ~UnderWay(m) /\ ~early)
    BY <1>4 DEF CopyId, TypeOK, MainOK, Places, MainPlace
  <2>2. got'.data = data[m] /\ got'.length = got.length /\ got'.can_id = can_id[m]
    BY <2>1
  <2> QED
    BY <2>1, <2>2 DEF IntactInv, Written, Copied
<1>5. UNCHANGED <<main, got, early>> \/ main' \notin {"id", "free"} \/ CopyData \/ CopyId
  BY NextSteps DEF ReadThread, MainLoop, vars, mainVars, Delivered, Deliver, Get_can_Mem, Drop, Copy,
         CanReadCallback, Tack_To_PTZ, Tack_To_water_cannon, Look, get_can_mem_data,
         read_can_data
<1> QED
  BY <1>1, <1>2, <1>3, <1>4, <1>5

\* The main loop sees the data, the length and the identifier of one frame,
\* unless it came before the callback's stores were visible.
THEOREM SlotsIntact == Spec => []Intact
<1>1. TypeOK /\ Places /\ IntactInv /\ [Next]_vars => IntactInv'
  BY WrittenStep, CopiedStep DEF IntactInv
<1>2. IntactInv => Intact
  BY DEF IntactInv, Copied, Intact
<1> QED
  BY <1>1, <1>2, IntactInit, TypeCorrect, PlacesHold, PTL DEF Spec
=============================================================================
