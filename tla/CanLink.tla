------------------------------ MODULE CanLink ------------------------------
(***************************************************************************)
(* The receive slots of the CAN bus.  The read thread (can/can.c) puts     *)
(* each frame into the first free slot of a list (CanReadCallback of       *)
(* can/can_manager.c), the main loop takes one frame per round from the    *)
(* first used slot (read_can_data of can/canopen.c, canopen_data_pro of    *)
(* communication/communication.c).  The slots are not locked: both threads *)
(* walk the list one slot per step, and what the callback stores after its *)
(* memcpy becomes visible in any order.                                    *)
(*                                                                         *)
(* A frame is its number in the order in which the callback got it, what   *)
(* it answers (kind) and whether it has all eight bytes (whole).  Each     *)
(* field of a slot holds the frame it was written from.  The read thread   *)
(* compares what read() returned, an int, with sizeof: -1 counts as large, *)
(* and a failed read gives the callback the frame before it once more,     *)
(* under a number of its own.                                              *)
(***************************************************************************)
EXTENDS Integers, FiniteSets

CONSTANTS
  N,         \* slots (129 in the code: Alloc_can_Mem makes one more than asked)
  Natures,   \* kind and wholeness of the frames on this bus
  MaxFrames, \* bound of the model: calls of the callback in one behaviour
  MaxAsked   \* bound of the model: commands waiting for their answer, per kind

\* Kinds: the pan-tilt's angle (0x42 or 0x43, index 5); the water cannon's
\* answer (0x68 from node 0x33); 0x68 from another node; anything else.
Kinds == {"ptz", "cannon", "stray", "other"}

\* The devices that speak only when asked.
Devices == {"ptz", "cannon"}

Nature == [kind : Kinds, whole : BOOLEAN]

ASSUME CanAssumption ==
  /\ N \in Nat \ {0}
  /\ Natures \subseteq Nature /\ Natures # {}
  /\ MaxFrames \in Nat
  /\ MaxAsked \in Nat

Slots == 1 .. N
Fields == {"DataLen", "can_id", "eMemState"}

\* No frame: a slot never used.  Garbage: bytes the stack held, which read
\* like a frame of kind k.
NoFrame == [n |-> 0, kind |-> "other", whole |-> FALSE]
Garbage(k) == [n |-> 0, kind |-> k, whole |-> FALSE]
Frame == [n : Nat, kind : Kinds, whole : BOOLEAN]
Numbered(n, nature) == [n |-> n, kind |-> nature.kind, whole |-> nature.whole]
Nothing == [data |-> NoFrame, length |-> NoFrame, can_id |-> NoFrame]

VARIABLES
  used,     \* eMemState = NMS_USED_FOR_CUR
  data,     \* DataAddr: the frame whose bytes are there
  length,   \* DataLen: the frame whose length is there
  can_id,   \* the frame whose identifier is there
  reader,   \* where the read thread is
  r,        \* the slot it looks at
  hand,     \* frdup: the frame in its buffer
  last,     \* number of frames the callback got
  todo,     \* stores of CanReadCallback that are not visible yet
  main,     \* where the main loop is
  m,        \* the slot it looks at
  got,      \* the frames its copies of the data, length and id come from
  ptz_angle, wc_data,  \* the frames their values come from
  asked,    \* commands on the bus that the devices have not answered
  taken, dropped, \* history: frames processed; frames that found no slot
  sawFull,  \* history: every slot was used when the frame in hand arrived
  freed,    \* history: waiting frames after whose arrival a slot was freed
  early     \* history: the main loop copied a slot before its stores were visible

slots == <<used, data, length, can_id>>
readerVars == <<reader, r, hand, todo, last>>
mainVars == <<main, m, got, ptz_angle, wc_data>>
vars == <<slots, readerVars, mainVars, asked, taken, dropped, sawFull, freed, early>>

Arrived == 1 .. last

\* Alloc_can_Mem
Init ==
  /\ used = [s \in Slots |-> FALSE]
  /\ data = [s \in Slots |-> NoFrame]
  /\ length = [s \in Slots |-> NoFrame]
  /\ can_id = [s \in Slots |-> NoFrame]
  /\ reader = "read" /\ r = 1 /\ todo = {} /\ last = 0
  /\ hand \in {Numbered(0, nature) : nature \in Natures}  \* what the stack held
  /\ main = "idle" /\ m = 1
  /\ got = Nothing
  /\ ptz_angle = NoFrame /\ wc_data = NoFrame
  /\ asked = [k \in Devices |-> 0]
  /\ taken = {} /\ dropped = {} /\ sawFull = FALSE /\ freed = {}
  /\ early = FALSE

-----------------------------------------------------------------------------
(* The read thread.                                                        *)

\* CanReadCallback gets a frame and begins to walk the list.  (A frame without
\* data is ignored by the callback and left out.)
Deliver(nature) ==
  /\ reader = "read"
  /\ last < MaxFrames
  /\ last' = last + 1
  /\ hand' = Numbered(last + 1, nature)
  /\ sawFull' = (\A s \in Slots : used[s])
  /\ reader' = "walk"
  /\ UNCHANGED <<slots, r, todo, mainVars, taken, dropped, freed, early>>

\* read() returns a frame.  The pan-tilt and the cannon speak when asked, the
\* others at any time.
Thread_can_read(nature) ==
  /\ IF nature.kind \in Devices
     THEN /\ asked[nature.kind] > 0
          /\ asked' = [asked EXCEPT ![nature.kind] = @ - 1]
     ELSE UNCHANGED asked
  /\ Deliver(nature)

\* read() fails and nobody notices: the callback gets what is still in the
\* buffer, before the first frame whatever the stack held.
ReadFails ==
  /\ Deliver([kind |-> hand.kind, whole |-> hand.whole])
  /\ UNCHANGED asked

\* The callback returns; the next walk begins at the head of the list.
Return == reader' = "read" /\ r' = 1

\* Mutant: the walk ends before the last slot.
LastButOne == IF N = 1 THEN 1 ELSE N - 1

\* The tail of the list.
LastSlot == N

\* Mutants: a used slot is taken; the last free slot of the list is taken.
UsedToo(s) == s \in Slots
LastFree(s) == ~used[s] /\ \A t \in Slots : t > s => used[t]

\* eMemState = NMS_CAN_FREE
Free(s) == ~used[s]

\* Get_can_Mem: this slot is used, the next one is looked at ...
Get_can_Mem ==
  /\ reader = "walk" /\ ~Free(r) /\ r # LastSlot
  /\ r' = r + 1
  /\ UNCHANGED <<slots, reader, hand, todo, last, mainVars, asked, taken, dropped, sawFull, freed, early>>

\* ... there is none: the frame is dropped ...
Drop ==
  /\ reader = "walk" /\ ~Free(r) /\ r = LastSlot
  /\ dropped' = dropped \cup {hand.n}
  /\ freed' = freed \ {hand.n}
  /\ Return
  /\ UNCHANGED <<slots, hand, todo, last, mainVars, asked, taken, sawFull, early>>

\* ... or it is free: memcpy into it.  (The main loop never touches a free slot.)
Copy ==
  /\ reader = "walk" /\ Free(r)
  /\ data' = [data EXCEPT ![r] = hand]
  /\ todo' = Fields
  /\ reader' = "store"
  /\ UNCHANGED <<used, length, can_id, r, hand, last, mainVars, asked, taken, dropped, sawFull, freed, early>>

\* The three stores after it, which nothing orders.
CanReadCallback(field) ==
  /\ reader = "store" /\ field \in todo
  /\ todo' = todo \ {field}
  /\ IF todo' = {} THEN Return ELSE UNCHANGED <<reader, r>>
  /\ length' = IF field = "DataLen" THEN [length EXCEPT ![r] = hand] ELSE length
  /\ can_id' = IF field = "can_id" THEN [can_id EXCEPT ![r] = hand] ELSE can_id
  /\ used' = IF field = "eMemState" THEN [used EXCEPT ![r] = TRUE] ELSE used
  /\ UNCHANGED <<data, hand, last, mainVars, asked, taken, dropped, sawFull, freed, early>>

-----------------------------------------------------------------------------
(* The main loop.                                                          *)

\* CAN_senddata puts a command on the bus; when its write fails nothing
\* changes and nobody looks at the result.
CAN_senddata(device) ==
  /\ asked[device] < MaxAsked
  /\ asked' = [asked EXCEPT ![device] = @ + 1]

\* can0_SDO_write_frame packs up to four bytes behind an index and sends them.
SDO_write_frame(device) == CAN_senddata(device)

\* (The second frame that byte 3 of the operator's can make Tack_To_PTZ send
\* has index 8: nobody uses the answer.)
Tack_To_PTZ ==
  /\ main = "idle"
  /\ SDO_write_frame("ptz")
  /\ UNCHANGED <<slots, readerVars, mainVars, taken, dropped, sawFull, freed, early>>

Tack_To_water_cannon ==
  /\ main = "idle"
  /\ CAN_senddata("cannon")
  /\ UNCHANGED <<slots, readerVars, mainVars, taken, dropped, sawFull, freed, early>>

\* canopen_data_pro looks for a frame.
Look ==
  /\ main = "idle"
  /\ main' = "walk"
  /\ UNCHANGED <<slots, readerVars, m, got, ptz_angle, wc_data, asked, taken, dropped, sawFull, freed, early>>

\* get_can_mem_data: a free slot, then the next one; none is used.
get_can_mem_data ==
  /\ main = "walk" /\ ~used[m]
  /\ IF m = N THEN main' = "idle" /\ m' = 1
              ELSE m' = m + 1 /\ UNCHANGED main
  /\ UNCHANGED <<slots, readerVars, got, ptz_angle, wc_data, asked, taken, dropped, sawFull, freed, early>>

\* The slot is one whose stores are still under way.
UnderWay(s) == reader = "store" /\ r = s /\ todo # {}

\* read_can_data copies DataLen bytes of the first used slot (never more than
\* eight: the length is the kernel's) ...
CopyData ==
  /\ main = "walk" /\ used[m]
  /\ got' = [data |-> data[m], length |-> length[m], can_id |-> got.can_id]
  /\ early' = (early \/ UnderWay(m))
  /\ main' = "id"
  /\ UNCHANGED <<slots, readerVars, m, ptz_angle, wc_data, asked, taken, dropped, sawFull, freed>>

\* ... then can_id ...
CopyId ==
  /\ main = "id"
  /\ got' = [data |-> got.data, length |-> got.length, can_id |-> can_id[m]]
  /\ early' = (early \/ UnderWay(m))
  /\ main' = "free"
  /\ UNCHANGED <<slots, readerVars, m, ptz_angle, wc_data, asked, taken, dropped, sawFull, freed>>

\* The water cannon's answer is told by its command and its node.
Cannon(seen) ==
  wc_data' = IF seen.kind \in {"cannon", "stray"} /\ got.can_id.kind = "cannon"
             THEN seen ELSE wc_data

\* canopen_data_pro: the angle is taken from whichever node sent it.
Dispatch(seen) ==
  /\ ptz_angle' = IF seen.kind = "ptz" THEN seen ELSE ptz_angle
  /\ Cannon(seen)

\* Mutant: the slot stays used.
Kept == used

\* eMemState = NMS_CAN_FREE
Freed == [used EXCEPT ![m] = FALSE]

\* ... and frees the slot.  Bytes beyond DataLen are what the stack held:
\* they may read as any frame.
read_can_data ==
  /\ main = "free"
  /\ used' = Freed
  /\ taken' = taken \cup {got.data.n}
  /\ freed' = Arrived \ (taken' \cup dropped)
  /\ \/ got.length.whole /\ Dispatch(got.data)
     \/ ~got.length.whole /\ \E k \in Kinds : Dispatch(Garbage(k))
  /\ main' = "idle" /\ m' = 1 /\ got' = Nothing
  /\ UNCHANGED <<data, length, can_id, readerVars, asked, dropped, sawFull, early>>

-----------------------------------------------------------------------------
ReadThread ==
  \/ Get_can_Mem \/ Drop \/ Copy
  \/ \E field \in Fields : CanReadCallback(field)

MainLoop == Look \/ get_can_mem_data \/ CopyData \/ CopyId \/ read_can_data

Next ==
  \/ \E nature \in Natures : Thread_can_read(nature)
  \/ ReadThread
  \/ ReadFails
  \/ Tack_To_PTZ
  \/ Tack_To_water_cannon
  \/ MainLoop

Spec == Init /\ [][Next]_vars

\* Both threads run on; nobody has to send anything.
FairSpec == Spec /\ WF_vars(ReadThread) /\ WF_vars(MainLoop)

-----------------------------------------------------------------------------
(* Properties.                                                             *)

\* The frames in used slots.
Stored == {data[s].n : s \in {t \in Slots : used[t]}}

\* The frame the read thread has not put anywhere yet.
InHand == IF reader = "walk" THEN {hand.n}
          ELSE IF reader = "store" /\ "eMemState" \in todo THEN {hand.n}
          ELSE {}

\* Type invariant.
SlotsOK ==
  /\ used \in [Slots -> BOOLEAN]
  /\ data \in [Slots -> Frame] /\ length \in [Slots -> Frame] /\ can_id \in [Slots -> Frame]

ReaderOK ==
  /\ reader \in {"read", "walk", "store"} /\ r \in Slots
  /\ hand \in Frame /\ todo \in SUBSET Fields /\ last \in Nat

MainOK ==
  /\ main \in {"idle", "walk", "id", "free"} /\ m \in Slots
  /\ got \in [data : Frame, length : Frame, can_id : Frame]
  /\ ptz_angle \in Frame /\ wc_data \in Frame

HistoryOK ==
  /\ asked \in [Devices -> Nat]
  /\ taken \subseteq Nat /\ dropped \subseteq Nat /\ freed \subseteq Arrived
  /\ sawFull \in BOOLEAN /\ early \in BOOLEAN

TypeOK == SlotsOK /\ ReaderOK /\ MainOK /\ HistoryOK

\* Every frame the callback got, a stale one after a failed read included, is
\* at exactly one place: in the read thread's hand, in one used slot,
\* processed, or dropped.  Between the two unlocked walks none is lost, and
\* what the callback got once is processed once at most.
AccountedFor ==
  /\ Arrived = InHand \cup Stored \cup taken \cup dropped
  /\ taken \cap dropped = {}
  /\ (InHand \cup Stored) \cap (taken \cup dropped) = {}
  /\ InHand \cap Stored = {}
  /\ \A s, t \in Slots : used[s] /\ used[t] /\ data[s].n = data[t].n => s = t

\* A frame is dropped only if every slot was used when the callback got it, although the
\* walk looks at the slots at different moments.
DropsOnlyWhenFull == [][dropped' # dropped => sawFull]_vars

\* Frames that came in one burst leave in the order of their arrival: a younger
\* frame stands before an older one only if a slot was freed in between.
BurstInOrder ==
  \A s, t \in Slots :
    used[s] /\ used[t] /\ s < t /\ data[s].n > data[t].n => data[t].n \in freed

\* The main loop sees the data, the length and the identifier of one frame,
\* unless it came before the callback's unordered stores were visible.
Intact ==
  main = "free" /\ ~early =>
    got.length = got.data /\ got.can_id = got.data

\* Once the callback is not called any more (after MaxFrames times at the
\* latest) every frame that was stored is processed.  (While reads fail, the
\* callback stores the last frame every millisecond.)
SlotsDrain == []<>(Stored = {})
=============================================================================
