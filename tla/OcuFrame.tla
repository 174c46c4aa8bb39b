------------------------------ MODULE OcuFrame ------------------------------
(***************************************************************************)
(* The parser of the operator's frames: ReadOcuBufdata and ReadOcuBuf of   *)
(* communication/communication.c, byte by byte.  A frame is                *)
(*   SOH0 SOH1 id length ... crc crc                                       *)
(* and carries its own length.  The parser never looks back: a frame it    *)
(* rejects has swallowed its bytes, a false header in them included.       *)
(*                                                                         *)
(* One receive structure (OcuRx) serves the radio, the fibre, the wifi     *)
(* port and the network: what the other links deliver is, to a frame of    *)
(* this one, a byte too many.  It is covered by Insert.                    *)
(*                                                                         *)
(* Of Rx_Data the model keeps the length byte and whether what has been    *)
(* stored is the beginning of the frame under way (whole): the CRC matches *)
(* exactly a whole frame.                                                  *)
(***************************************************************************)
EXTENDS Integers

CONSTANTS
  SOH0, SOH1,  \* OCURXHAEDDATA, OCURXHAEDDATA1
  Length,      \* bytes of a frame of this operator unit
  Payload,     \* values of the bytes that are not header or length
  MaxByte,     \* the largest value of a byte (255)
  MaxMissed    \* bound of the model: missed counts no further

ASSUME FrameAssumption ==
  /\ SOH0 \in 0 .. MaxByte /\ SOH1 \in 0 .. MaxByte /\ SOH0 # SOH1
  /\ MaxByte \in Nat
  /\ Length \in 7 .. MaxByte
  /\ Payload \subseteq 0 .. MaxByte
  /\ MaxMissed \in Nat \ {0}

Byte == Payload \cup {SOH0, SOH1, Length}

VARIABLES
  Rx_Bot,  \* index the next byte is stored at
  RxLen,   \* Rx_Data[3], the length the parser believes
  whole,   \* Rx_Data[0 .. Rx_Bot-1] is the beginning of the frame under way
  at,      \* bytes of the frame under way the link has sent
  intact,  \* none of them was altered or lost, nor a byte inserted
  plain,   \* the operator's payloads hold no SOH1
  noisy,   \* the link may still alter, lose or insert bytes
  calm,    \* history: the link never did
  missed   \* history: frames since the noise (or the last accepted one) that
           \* arrived intact and were not accepted

vars == <<Rx_Bot, RxLen, whole, at, intact, plain, noisy, calm, missed>>

\* The bytes a frame may have at an index.
Sent(i) == CASE i = 0 -> {SOH0}
             [] i = 1 -> {SOH1}
             [] i = 3 -> {Length}
             [] OTHER -> IF plain THEN Payload \ {SOH1} ELSE Payload

Init ==
  /\ Rx_Bot = 0 /\ RxLen = 0 /\ whole = TRUE
  /\ at = 0 /\ intact = TRUE
  /\ plain \in BOOLEAN /\ noisy \in BOOLEAN /\ calm = TRUE
  /\ missed = 0

-----------------------------------------------------------------------------
\* Mutant: one byte more than the frame has is waited for.
OneMore(i, n) == i >= 6 /\ i >= n

\* The byte at index i is the frame's last one: never before index 6, however
\* small the length byte.
Last(i, n) == i >= 6 /\ i >= n - 1

\* Mutant: a byte that is not SOH1 sends the parser back to the first index.
ResetHunt(i, v, n) ==
  CASE i = 0      -> IF v = SOH0 THEN 1 ELSE 0
    [] i = 1      -> IF v = SOH1 THEN 2 ELSE 0
    [] i \in 2 .. 5 -> i + 1
    [] OTHER      -> IF Last(i, n) THEN 0 ELSE i + 1

\* Rx_Bot after value v was stored at index i, the length byte being n.
NextBot(i, v, n) ==
  CASE i = 0      -> IF v = SOH0 THEN 1 ELSE 0
    [] i = 1      -> IF v = SOH1 THEN 2 ELSE 1
    [] i \in 2 .. 5 -> i + 1
    [] OTHER      -> IF Last(i, n) THEN 0 ELSE i + 1

\* The bytes stored are still the frame's: header bytes are told by their
\* value alone, so whichever SOH0 came before, the frame's own SOH1 makes it one.
Continues(genuine) ==
  /\ genuine
  /\ at = Rx_Bot
  /\ whole \/ Rx_Bot <= 1

\* ReadOcuBufdata with the byte v of Read_Byte; genuine: the frame's next byte.
Parse(v, genuine) ==
  /\ Rx_Bot' = NextBot(Rx_Bot, v, RxLen)
  /\ RxLen' = IF Rx_Bot = 3 THEN v ELSE RxLen
  /\ whole' = Continues(genuine)

\* Rx_OK: the CRC of a complete frame matches; ReadOcuBuf reports it.
Accepts(genuine) == Last(Rx_Bot, RxLen) /\ Continues(genuine)

\* The next byte of the operator's frame arrives as it was sent.
Receive(v) ==
  /\ v \in Sent(at)
  /\ Parse(v, TRUE)
  /\ IF at < Length - 1
     THEN at' = at + 1 /\ UNCHANGED <<intact, missed>>
     ELSE /\ at' = 0 /\ intact' = TRUE
          /\ missed' = IF Accepts(TRUE) \/ noisy THEN 0
                       ELSE IF intact /\ missed < MaxMissed THEN missed + 1
                       ELSE missed
  /\ UNCHANGED <<plain, noisy, calm>>

\* Noise: a byte altered, a byte lost, a byte that is not of this frame.
Damage == /\ at' = IF at < Length - 1 THEN at + 1 ELSE 0
          /\ intact' = (at = Length - 1)

Alter(v) ==
  /\ noisy
  /\ Parse(v, FALSE)
  /\ Damage
  /\ calm' = FALSE
  /\ UNCHANGED <<plain, noisy, missed>>

Lose ==
  /\ noisy
  /\ Damage
  /\ calm' = FALSE
  /\ UNCHANGED <<Rx_Bot, RxLen, whole, plain, noisy, missed>>

Insert(v) ==
  /\ noisy
  /\ Parse(v, FALSE)
  /\ intact' = (at = 0)
  /\ calm' = FALSE
  /\ UNCHANGED <<at, plain, noisy, missed>>

Quiet ==
  /\ noisy
  /\ noisy' = FALSE
  /\ UNCHANGED <<Rx_Bot, RxLen, whole, at, intact, plain, calm, missed>>

Next ==
  \/ \E v \in Byte : Receive(v) \/ Alter(v) \/ Insert(v)
  \/ Lose
  \/ Quiet

Spec == Init /\ [][Next]_vars

-----------------------------------------------------------------------------
(* Properties.                                                             *)

\* Type invariant; the index never runs past what a length byte can ask for.
TypeOK ==
  /\ Rx_Bot \in 0 .. (MaxByte - 1)
  /\ RxLen \in 0 .. MaxByte
  /\ whole \in BOOLEAN
  /\ at \in 0 .. (Length - 1)
  /\ intact \in BOOLEAN
  /\ plain \in BOOLEAN
  /\ noisy \in BOOLEAN
  /\ calm \in BOOLEAN
  /\ missed \in 0 .. MaxMissed

\* On a link without noise every frame is accepted with its last byte,
\* whatever its payload looks like (a header in it included).
EveryFrameAccepted == calm => missed = 0

\* Once the link is quiet the parser is back in step after the frames that one
\* false frame can swallow: a header made of noise and MaxByte - 2 bytes.
\* (For payloads without SOH1: with it a false header can repeat for ever.)
Resynchronises == plain => missed <= (MaxByte - 3) \div Length + 1
=============================================================================
