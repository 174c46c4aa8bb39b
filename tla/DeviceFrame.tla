----------------------------- MODULE DeviceFrame -----------------------------
(***************************************************************************)
(* The parsers of what the robot's own boards send, byte by byte           *)
(* (communication/communication.c):                                        *)
(*   "head"    ReadHeadBuf: a frame of 23 bytes behind two header bytes,   *)
(*   "motion"  ReadMotionBuf: the drives' answers, one header byte, their  *)
(*             length told by a command bit and a count of words,          *)
(*   "gas"     ReadArmBuf on the port of the gas sensor: text from a colon *)
(*             to a carriage return.                                       *)
(* A behaviour is one port's.  The bytes are abstracted to the values a    *)
(* parser tells apart; a check sum matches exactly a whole frame, as in    *)
(* OcuFrame, and so do the link and its noise.                             *)
(***************************************************************************)
EXTENDS Integers

CONSTANTS
  DevPorts,   \* the ports to look at, among "head", "motion" and "gas"
  MaxIndex,   \* bound of the model: noise grows a gas frame no further
  MaxRefused  \* bound of the model: refused counts no further

ASSUME DeviceAssumption ==
  /\ DevPorts \subseteq {"head", "motion", "gas"}
  /\ MaxIndex \in Nat /\ MaxRefused \in Nat \ {0}

VARIABLES
  port,     \* the port of this behaviour
  Bot,      \* Rx_Bot, the index the next byte is stored at
  Only,     \* Rx_Data[2] & 1 of a drive's answer: a header without data
  Count,    \* Rx_Data[5] of a drive's answer, GasSensorData.Len
  Rx_OK,    \* a frame waits to be used
  begun,    \* Rx_Data[0 .. Bot-1] is the beginning of the frame under way
  size,     \* bytes of the frame under way
  place,    \* bytes of it the link has sent
  sound,    \* none of them was altered or lost, nor a byte inserted
  taken,    \* the frame under way was accepted
  simple,   \* no payload holds the byte that begins a frame
  noise,    \* the link may still alter, lose or insert bytes
  quiet,    \* history: the link never did
  heard,    \* history: a sound frame has passed since the noise
  refused   \* history: sound frames since the noise (or the last one accepted)
            \* that were not accepted

link == <<size, place, sound, taken, simple, noise, quiet, heard, refused>>
devVars == <<port, Bot, Only, Count, Rx_OK, begun, link>>

CR == \h0D
LF == \h0A
Digit(c) == c - \h30

\* HEAD_BOARD_HAEDDATA, AMC_Pro_SOH and ARMRXHAEDDATA.
SOH == CASE port = "head" -> \h48 [] port = "motion" -> \hA5 [] OTHER -> \h3A

\* The byte a payload must be free of for a false header to stay alone.
Mark == IF port = "head" THEN \h44 ELSE SOH

\* Values a byte may have.  For a drive 0, 1, 11 and 12 are counts of words
\* (the largest a frame may tell is 11), for the sensor \h30, \h32 and \h3D are
\* the digits 0, 2 and one beyond 12.
DevByte == CASE port = "head" -> {0, \h44, \h48}
             [] port = "motion" -> {0, 1, 11, 12, \hA5}
             [] OTHER -> {LF, CR, \h30, \h32, \h3A, \h3D}

Sizes == CASE port = "head" -> {23} [] port = "motion" -> {8, 12} [] OTHER -> {15}

\* The values of a byte that says nothing of its frame.
Carried == IF simple THEN DevByte \ {Mark} ELSE DevByte

\* The bytes a frame may have at an index: a drive's answer of 12 bytes carries
\* one word, the sensor's two bytes as four digits.
Said(i) ==
  IF i = 0 THEN {SOH}
  ELSE CASE port = "head"   -> IF i = 1 THEN {\h44} ELSE Carried
         [] port = "motion" -> (CASE i = 2 -> IF size = 8 THEN {0, 1} ELSE {0}
                                  [] i = 5 -> IF size = 8 THEN {0} ELSE {1}
                                  [] OTHER -> Carried)
         [] OTHER           -> (CASE i = 5  -> {\h30}
                                  [] i = 6  -> {\h32}
                                  [] i = 13 -> {CR}
                                  [] i = 14 -> {LF}
                                  [] OTHER  -> {\h30, \h32})

DevInit ==
  /\ port \in DevPorts
  /\ Bot = 0 /\ Only = FALSE /\ Count = 0 /\ Rx_OK = FALSE /\ begun = FALSE
  /\ size \in Sizes /\ place = 0 /\ sound = TRUE /\ taken = FALSE
  /\ simple \in BOOLEAN /\ noise \in BOOLEAN
  /\ quiet = TRUE /\ heard = FALSE /\ refused = 0

-----------------------------------------------------------------------------
\* Bytes of a drive's answer of n words.
FrameSize(n) == 2 * n + 8 + (IF n > 0 THEN 2 ELSE 0)

\* Mutant: a drive's length is believed whatever it is.
Believes(i) == port = "gas" /\ i >= 7 /\ Count > 12

\* The length told is refused, and the byte at hand with it.
TooLong(i) == \/ port = "motion" /\ i >= 6 /\ FrameSize(Count) > 32
              \/ port = "gas" /\ i >= 7 /\ Count > 12

\* Mutant: one byte more than the frame has is waited for.
DevOneMore(i, v) ==
  CASE port = "head"   -> i > 22
    [] port = "motion" -> i > IF Only THEN 7 ELSE FrameSize(Count) - 1
    [] OTHER           -> i >= 7 /\ v = LF

\* The byte v at index i is the last one.
LastByte(i, v) ==
  CASE port = "head"   -> i >= 22
    [] port = "motion" -> i >= 6 /\ i >= IF Only THEN 7 ELSE FrameSize(Count) - 1
    [] OTHER           -> i >= 7 /\ v = CR

\* Mutant: a header byte begins a new frame, in the middle of one too.
AtEachHeader(i, v) == v = SOH \/ TooLong(i) \/ LastByte(i, v)

\* The parser begins anew.
StartsOver(i, v) == \/ i = 0 /\ v # SOH
                    \/ TooLong(i)
                    \/ LastByte(i, v)

\* Bot after v was stored at index i: the head's second header byte is waited for.
DevBot(i, v) == CASE StartsOver(i, v) -> 0
                  [] port = "head" /\ i = 1 /\ v # \h44 -> 1
                  [] OTHER -> i + 1

\* The bytes stored are still the frame's (OcuFrame's Continues).
Follows(genuine) == /\ genuine /\ place = Bot
                    /\ begun \/ Bot = 0 \/ (port = "head" /\ Bot = 1)

\* The check sums match; the sensor's text is long enough for its count.
Matches(v, genuine) == /\ ~TooLong(Bot) /\ LastByte(Bot, v) /\ Follows(genuine)
                       /\ port = "gas" => Bot > 2 * Count + 8

\* The loop over ReadMotionBuf or ReadArmBuf ends with a frame, and its caller
\* uses the frame at once; nobody waits for the head's, of which the last one
\* before a report is used.
Reading == port = "head" \/ ~Rx_OK

\* ReadHeadBuf, ReadMotionBuf or ReadArmBuf with the byte v of Read_Byte.
DevParse(v, genuine) ==
  /\ Reading
  /\ Bot' = DevBot(Bot, v)
  /\ Only' = (Bot' > 0 /\ IF port = "motion" /\ Bot = 2 THEN v % 2 = 1 ELSE Only)
  /\ Count' = CASE Bot' = 0 -> 0
                [] port = "motion" /\ Bot = 5 -> v
                [] port = "gas" /\ Bot = 6 -> Digit(v)
                [] OTHER -> Count
  /\ Rx_OK' = IF LastByte(Bot, v) /\ ~TooLong(Bot) THEN Matches(v, genuine) ELSE Rx_OK
  /\ begun' = Follows(genuine)
  /\ UNCHANGED port

\* The link goes on to the next byte of the frame or to the next frame.
Passes == IF place < size - 1
          THEN place' = place + 1 /\ UNCHANGED size
          ELSE place' = 0 /\ size' \in Sizes

Ends == place = size - 1

Refuses == IF refused < MaxRefused THEN refused + 1 ELSE refused

\* The next byte of the frame arrives as it was sent.
DevReceive(v) ==
  /\ v \in Said(place)
  /\ DevParse(v, TRUE)
  /\ Passes
  /\ sound' = (sound \/ Ends)
  /\ taken' = (~Ends /\ (taken \/ Matches(v, TRUE)))
  /\ heard' = (heard \/ (Ends /\ sound /\ ~noise))
  /\ refused' = IF Matches(v, TRUE) THEN 0
                ELSE IF Ends /\ sound /\ ~taken /\ ~noise THEN Refuses ELSE refused
  /\ UNCHANGED <<simple, noise, quiet>>

\* Noise may not grow the text of the sensor for ever.
Noise == noise /\ (port = "gas" => Bot < MaxIndex)

DevAlter(v) ==
  /\ Noise /\ DevParse(v, FALSE)
  /\ Passes /\ sound' = Ends /\ taken' = (~Ends /\ taken)
  /\ quiet' = FALSE
  /\ UNCHANGED <<simple, noise, heard, refused>>

DevLose ==
  /\ Noise
  /\ Passes /\ sound' = Ends /\ taken' = (~Ends /\ taken)
  /\ quiet' = FALSE
  /\ UNCHANGED <<port, Bot, Only, Count, Rx_OK, begun, simple, noise, heard, refused>>

DevInsert(v) ==
  /\ Noise /\ DevParse(v, FALSE)
  /\ sound' = (place = 0) /\ quiet' = FALSE
  /\ UNCHANGED <<size, place, taken, simple, noise, heard, refused>>

DevQuiet ==
  /\ noise /\ noise' = FALSE
  /\ UNCHANGED <<port, Bot, Only, Count, Rx_OK, begun, size, place, sound, taken,
                 simple, quiet, heard, refused>>

\* Rx_Motion_Prs and Rx_Ptz_Prs use the frame (DriveWatchdog models what an answer
\* does); Tacker_To_Ocu forgets the head's.
Use == /\ Rx_OK /\ Rx_OK' = FALSE
       /\ UNCHANGED <<port, Bot, Only, Count, begun, link>>

DevNext == \/ \E v \in DevByte : DevReceive(v) \/ DevAlter(v) \/ DevInsert(v)
           \/ DevLose \/ DevQuiet \/ Use

DevSpec == DevInit /\ [][DevNext]_devVars

-----------------------------------------------------------------------------
(* Properties.                                                             *)

DevTypeOK ==
  /\ port \in DevPorts /\ size \in Sizes /\ place \in 0 .. (size - 1)
  /\ Bot \in Nat /\ Count \in Int /\ refused \in 0 .. MaxRefused
  /\ {Only, Rx_OK, begun, sound, taken, simple, noise, quiet, heard} \subseteq BOOLEAN

\* On a line without noise every frame of a board is accepted with its last byte,
\* whatever it carries: no header byte or count of words in a payload puts a parser
\* out of step.
EveryBoardFrameAccepted == quiet => refused = 0

\* Once the line is quiet a parser is back in step after the frames a false header
\* can swallow: none of the head's and the sensor's but the one under way, four of
\* the drives' shortest.
DevResynchronises ==
  simple => refused <= IF port = "motion" THEN (32 - 1) \div 8 + 1 ELSE 1

\* Where a byte is stored stays below the longest frame, in noise too; only a text
\* of the sensor grows with the noise, and the first frame after it ends that.
InsideFrame == CASE port = "head"   -> Bot < 23
                 [] port = "motion" -> Bot < 32
                 [] OTHER           -> heard => Bot < 14
=============================================================================
