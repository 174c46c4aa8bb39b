---------------------------- MODULE ReceiveProofs ----------------------------
(***************************************************************************)
(* Theorems about the receive path (MCReceive): the parser of the ground   *)
(* link for every frame length, payload and header, the parsers of the     *)
(* boards for every bound, the buffer of a network client for every size.  *)
(***************************************************************************)
EXTENDS MCReceive, TLAPS

-----------------------------------------------------------------------------
(* The ground link without noise.                                          *)

\* Parser and sender are at the same byte of the same frame.
InStep ==
  /\ Rx_Bot = at
  /\ Rx_Bot >= 2 => whole
  /\ Rx_Bot >= 4 => RxLen = Length
  /\ intact
  /\ missed = 0

IInv == TypeOK /\ (calm => InStep)

-----------------------------------------------------------------------------

\* Every byte a link sends or makes up fits in a byte.
LEMMA ByteRange == \A v \in Byte : v \in 0 .. MaxByte
BY FrameAssumption DEF Byte

\* Where the parser goes, index by index.
LEMMA NextBotRange ==
  ASSUME NEW i \in 0 .. (MaxByte - 1), NEW n \in 0 .. MaxByte, NEW v
  PROVE  /\ NextBot(i, v, n) \in 0 .. (MaxByte - 1)
         /\ i = 0 /\ v = SOH0 => NextBot(i, v, n) = 1
         /\ i = 1 /\ v = SOH1 => NextBot(i, v, n) = 2
         /\ i \in 2 .. 5 => NextBot(i, v, n) = i + 1
         /\ i >= 6 /\ i < n - 1 => NextBot(i, v, n) = i + 1
         /\ i >= 6 /\ i >= n - 1 => NextBot(i, v, n) = 0
<1>0. MaxByte \in Nat /\ MaxByte >= 7
  BY FrameAssumption
<1>1. CASE i = 0
  BY <1>0, <1>1 DEF NextBot
<1>2. CASE i = 1
  BY <1>0, <1>2 DEF NextBot
<1>3. CASE i \in 2 .. 5
  BY <1>0, <1>3 DEF NextBot
<1>4. CASE i >= 6
  BY <1>0, <1>4 DEF NextBot, Last
<1> QED BY <1>0, <1>1, <1>2, <1>3, <1>4

\* A byte parsed keeps the type of the parser's variables.
LEMMA ParseType ==
  ASSUME TypeOK, NEW v \in Byte, NEW g \in BOOLEAN, Parse(v, g)
  PROVE  /\ Rx_Bot' \in 0 .. (MaxByte - 1)
         /\ RxLen' \in 0 .. MaxByte
         /\ whole' \in BOOLEAN
<1>1. Rx_Bot' \in 0 .. (MaxByte - 1)
  BY NextBotRange DEF TypeOK, Parse
<1>2. RxLen' \in 0 .. MaxByte
  BY ByteRange DEF TypeOK, Parse
<1>3. whole' \in BOOLEAN
  BY DEF Parse, Continues
<1> QED BY <1>1, <1>2, <1>3

\* A frame's own byte keeps parser and sender in step and, if it is the last,
\* is the one that makes the parser accept.
LEMMA ReceiveInStep ==
  ASSUME TypeOK, InStep, NEW v \in Byte, Receive(v)
  PROVE  InStep'
<1>0. /\ Length \in Nat /\ Length >= 7 /\ Length <= MaxByte /\ MaxByte \in Nat
      /\ at \in Nat /\ at <= Length - 1 /\ Rx_Bot = at
      /\ Rx_Bot \in 0 .. (MaxByte - 1) /\ RxLen \in 0 .. MaxByte
  BY FrameAssumption DEF TypeOK, InStep
<1>1. /\ Rx_Bot' = NextBot(Rx_Bot, v, RxLen)
      /\ RxLen' = IF Rx_Bot = 3 THEN v ELSE RxLen
      /\ whole' = Continues(TRUE)
  BY DEF Receive, Parse
<1>2. /\ at = 0 => v = SOH0
      /\ at = 1 => v = SOH1
      /\ at = 3 => v = Length
  BY DEF Receive, Sent
<1>3. Continues(TRUE)
  BY <1>0 DEF Continues, InStep
<1>4. Rx_Bot >= 4 => RxLen = Length
  BY DEF InStep
<1>5. CASE at < Length - 1
  <2>0. NextBot(Rx_Bot, v, RxLen) = Rx_Bot + 1
    <3>1. CASE Rx_Bot = 0
      BY <1>0, <1>2, <3>1, NextBotRange
    <3>2. CASE Rx_Bot = 1
      BY <1>0, <1>2, <3>2, NextBotRange
    <3>3. CASE Rx_Bot \in 2 .. 5
      BY <1>0, <3>3, NextBotRange
    <3>4. CASE Rx_Bot >= 6
      BY <1>0, <1>4, <1>5, <3>4, NextBotRange
    <3> QED BY <1>0, <3>1, <3>2, <3>3, <3>4
  <2>1. Rx_Bot' = at + 1
    BY <1>0, <1>1, <2>0
  <2>2. at' = at + 1 /\ UNCHANGED <<intact, missed>>
    BY <1>5 DEF Receive
  <2>3. Rx_Bot' >= 4 => RxLen' = Length
    BY <1>0, <1>1, <1>2, <1>4, <2>1
  <2> QED BY <1>1, <1>3, <2>1, <2>2, <2>3 DEF InStep
<1>6. CASE at = Length - 1
  <2>1. Rx_Bot' = 0
    BY <1>0, <1>1, <1>4, <1>6, NextBotRange
  <2>2. Accepts(TRUE)
    <3>1. Rx_Bot >= 6 /\ RxLen = Length /\ Rx_Bot >= RxLen - 1
      BY <1>0, <1>4, <1>6
    <3>2. Last(Rx_Bot, RxLen)
      BY <3>1 DEF Last
    <3> QED BY <1>3, <3>2 DEF Accepts
  <2>3. at' = 0 /\ intact' = TRUE /\ missed' = 0
    BY <1>0, <1>6, <2>2 DEF Receive
  <2> QED BY <2>1, <2>3 DEF InStep
<1> QED BY <1>0, <1>5, <1>6

-----------------------------------------------------------------------------

\* IInv holds at the start and is kept by every step.
THEOREM Inductive == Spec => []IInv
<1>1. Init => IInv
  BY FrameAssumption DEF Init, IInv, TypeOK, InStep
<1>2. IInv /\ [Next]_vars => IInv'
  <2> SUFFICES ASSUME IInv, [Next]_vars PROVE IInv'
    OBVIOUS
  <2>0. TypeOK /\ (calm => InStep) /\ Length \in 7 .. MaxByte /\ MaxByte \in Nat
        /\ MaxMissed \in Nat \ {0}
    BY FrameAssumption DEF IInv
  <2>1. ASSUME NEW v \in Byte, Receive(v) PROVE IInv'
    <3>1. TypeOK'
      <4>1. Rx_Bot' \in 0 .. (MaxByte - 1) /\ RxLen' \in 0 .. MaxByte /\ whole' \in BOOLEAN
        BY <2>0, <2>1, ParseType DEF Receive
      <4>2. /\ at' \in 0 .. (Length - 1) /\ intact' \in BOOLEAN
            /\ missed' \in 0 .. MaxMissed
        <5>0. at \in 0 .. (Length - 1) /\ intact \in BOOLEAN /\ missed \in 0 .. MaxMissed
          BY <2>0 DEF TypeOK
        <5>1. CASE at < Length - 1
          BY <2>0, <2>1, <5>0, <5>1 DEF Receive
        <5>2. CASE ~(at < Length - 1)
          <6>1. at' = 0 /\ intact' = TRUE
            BY <2>1, <5>2 DEF Receive
          <6>2. missed' = IF Accepts(TRUE) \/ noisy THEN 0
                          ELSE IF intact /\ missed < MaxMissed THEN missed + 1
                          ELSE missed
            BY <2>1, <5>2 DEF Receive
          <6>3. missed' \in {0, missed, missed + 1} /\ (missed' = missed + 1 => missed < MaxMissed)
            <7>1. CASE Accepts(TRUE) \/ noisy
              <8>1. missed' = 0
                BY <6>2, <7>1
              <8> QED BY <2>0, <5>0, <8>1
            <7>2. CASE ~(Accepts(TRUE) \/ noisy)
              BY <2>0, <5>0, <6>2, <7>2
            <7> QED BY <7>1, <7>2
          <6>4. missed' \in 0 .. MaxMissed
            BY <2>0, <5>0, <6>3
          <6>5. at' \in 0 .. (Length - 1)
            BY <2>0, <6>1
          <6> QED BY <6>1, <6>4, <6>5
        <5> QED BY <5>1, <5>2
      <4> QED BY <2>0, <2>1, <4>1, <4>2 DEF TypeOK, Receive
    <3>2. calm' => InStep'
      BY <2>0, <2>1, ReceiveInStep DEF Receive
    <3> QED BY <3>1, <3>2 DEF IInv
  <2>2. ASSUME NEW v \in Byte, Alter(v) PROVE IInv'
    <3>1. Rx_Bot' \in 0 .. (MaxByte - 1) /\ RxLen' \in 0 .. MaxByte /\ whole' \in BOOLEAN
      BY <2>0, <2>2, ParseType DEF Alter
    <3>2. at' \in 0 .. (Length - 1) /\ intact' \in BOOLEAN
      BY <2>0, <2>2 DEF TypeOK, Alter, Damage
    <3> QED BY <2>0, <2>2, <3>1, <3>2 DEF IInv, TypeOK, Alter
  <2>3. ASSUME NEW v \in Byte, Insert(v) PROVE IInv'
    <3>1. Rx_Bot' \in 0 .. (MaxByte - 1) /\ RxLen' \in 0 .. MaxByte /\ whole' \in BOOLEAN
      BY <2>0, <2>3, ParseType DEF Insert
    <3> QED BY <2>0, <2>3, <3>1 DEF IInv, TypeOK, Insert
  <2>4. CASE Lose
    <3>1. at' \in 0 .. (Length - 1) /\ intact' \in BOOLEAN
      BY <2>0, <2>4 DEF TypeOK, Lose, Damage
    <3> QED BY <2>0, <2>4, <3>1 DEF IInv, TypeOK, Lose
  <2>5. CASE Quiet
    BY <2>0, <2>5 DEF IInv, TypeOK, InStep, Quiet
  <2>6. CASE UNCHANGED vars
    BY <2>0, <2>6 DEF IInv, TypeOK, InStep, vars
  <2> QED BY <2>1, <2>2, <2>3, <2>4, <2>5, <2>6 DEF Next
<1> QED BY <1>1, <1>2, PTL DEF Spec

\* The parser's index stays inside what a length byte can ask for.
THEOREM TypeCorrect == Spec => []TypeOK
<1>1. IInv => TypeOK
  BY DEF IInv
<1> QED BY <1>1, Inductive, PTL

\* Without noise no frame is ever missed, whatever its payload.
THEOREM CleanLink == Spec => []EveryFrameAccepted
<1>1. IInv => EveryFrameAccepted
  BY DEF IInv, InStep, EveryFrameAccepted
<1> QED BY <1>1, Inductive, PTL

-----------------------------------------------------------------------------
(* After noise.  While the parser is astray it is inside a false frame,    *)
(* and every byte of the frames missed since lies in that one; or it hunts *)
(* for a header, and will take the next true one.                          *)

\* The header under way, or the one to come, is the frame's own.
Synced == IF Rx_Bot <= 1 THEN at = 0 \/ (at = 1 /\ Rx_Bot = 1) ELSE whole /\ Rx_Bot = at

\* Bytes of the frames missed, and of the one under way.
Swallowed == missed * Length + (IF intact THEN at ELSE 0)

LengthSeen == whole /\ Rx_Bot >= 4 => RxLen = Length

Amid == noisy \/ ~intact => missed = 0

Astray ==
  plain /\ ~Synced => IF Rx_Bot >= 2 THEN Swallowed <= Rx_Bot - 2
                                     ELSE missed * Length <= MaxByte - 3

ResyncInv == TypeOK /\ LengthSeen /\ Amid /\ Astray /\ Resynchronises

\* Frames that fit into so many bytes.
LEMMA FramesIn ==
  ASSUME NEW m \in Nat, NEW n \in Nat, n > 0, NEW b \in Nat, m * n <= b
  PROVE  m <= b \div n
<1>1. b \div n \in Nat
  OBVIOUS
<1>2. PICK q \in Nat : q = b \div n
  BY <1>1
<1>3. b < n * q + n
  <2>1. b < n * (b \div n) + n
    OBVIOUS
  <2> QED
    BY <1>2, <2>1
<1>4. m * n < (q + 1) * n
  BY <1>3
<1>5. m < q + 1
  <2> SUFFICES ASSUME m >= q + 1 PROVE FALSE
    OBVIOUS
  <2>1. PICK k \in Nat : m = q + 1 + k
    <3>1. m - (q + 1) \in Nat /\ m = q + 1 + (m - (q + 1))
      OBVIOUS
    <3> QED
      BY <3>1
  <2>2. m * n = (q + 1) * n + k * n /\ k * n >= 0
    BY <2>1
  <2> QED
    BY <1>4, <2>2
<1> QED
  BY <1>2, <1>5

\* The variables as numbers.
LEMMA FrameNumbers ==
  ASSUME TypeOK
  PROVE  /\ Length \in Nat /\ Length >= 7 /\ Length <= MaxByte /\ MaxByte \in Nat
         /\ at \in Nat /\ at <= Length - 1
         /\ Rx_Bot \in Nat /\ Rx_Bot <= MaxByte - 1 /\ RxLen \in Nat
         /\ missed \in Nat /\ missed * Length \in Nat
         /\ Rx_Bot \in 0 .. (MaxByte - 1) /\ RxLen \in 0 .. MaxByte
  BY FrameAssumption DEF TypeOK

\* One byte of a frame moves parser and sender on; they fall out of step only
\* where they were, and what the parser has swallowed grows with its index.
LEMMA ReceiveAstray ==
  ASSUME SOH1 # Length, TypeOK, LengthSeen, Amid, Astray, NEW v \in Byte, Receive(v)
  PROVE  /\ LengthSeen' /\ Amid' /\ Astray'
         /\ plain' = plain /\ missed' \in Nat
         /\ missed' > missed => /\ missed' = missed + 1
                                /\ plain => missed * Length <= MaxByte - 3
<1> USE FrameNumbers
<1>1. /\ Rx_Bot' = NextBot(Rx_Bot, v, RxLen) /\ RxLen' = IF Rx_Bot = 3 THEN v ELSE RxLen
      /\ plain' = plain /\ noisy' = noisy /\ v \in Sent(at)
  BY DEF Receive, Parse
<1>2. whole' <=> at = Rx_Bot /\ (whole \/ Rx_Bot <= 1)
  BY DEF Receive, Parse, Continues
<1>3. /\ at = 0 => v = SOH0
      /\ at = 1 => v = SOH1
      /\ at = 3 => v = Length
      /\ plain /\ at # 1 => v # SOH1
  BY <1>1, FrameAssumption DEF Sent
<1>4. SOH0 # SOH1
  BY FrameAssumption
<1>5. /\ Rx_Bot = 0 => Rx_Bot' = IF v = SOH0 THEN 1 ELSE 0
      /\ Rx_Bot = 1 => Rx_Bot' = IF v = SOH1 THEN 2 ELSE 1
      /\ Rx_Bot \in 2 .. 5 => Rx_Bot' = Rx_Bot + 1
      /\ Rx_Bot >= 6 => Rx_Bot' = IF Rx_Bot >= RxLen - 1 THEN 0 ELSE Rx_Bot + 1
  BY <1>1 DEF NextBot, Last
<1>6. CASE at < Length - 1
  <2>1. at' = at + 1 /\ intact' = intact /\ missed' = missed
    BY <1>6 DEF Receive
  <2>2. LengthSeen'
    BY <1>1, <1>2, <1>3, <1>5 DEF LengthSeen
  <2>3. Amid'
    BY <1>1, <2>1 DEF Amid
  <2>4. ASSUME plain, Synced PROVE Synced'
    <3>1. CASE Rx_Bot <= 1
      BY <1>2, <1>3, <1>4, <1>5, <2>1, <2>4, <3>1 DEF Synced
    <3>2. CASE Rx_Bot >= 2
      <4>1. whole /\ Rx_Bot = at
        BY <2>4, <3>2 DEF Synced
      <4>2. Rx_Bot' = Rx_Bot + 1
        BY <1>5, <1>6, <3>2, <4>1 DEF LengthSeen
      <4> QED
        BY <1>2, <2>1, <3>2, <4>1, <4>2 DEF Synced
    <3> QED
      BY <3>1, <3>2
  <2>5. ASSUME plain, ~Synced, ~Synced', Rx_Bot <= 1 PROVE Astray'
    <3>1. at # 0 /\ (at = 1 => Rx_Bot = 0)
      BY <2>5 DEF Synced
    <3>2. Rx_Bot' <= 1
      BY <1>3, <1>4, <1>5, <2>5, <3>1
    <3>3. missed * Length <= MaxByte - 3
      BY <2>5 DEF Astray
    <3>4. missed' * Length <= MaxByte - 3
      BY <2>1, <3>3
    <3>5. Rx_Bot' \in Nat /\ ~(Rx_Bot' >= 2)
      BY <1>5, <3>2
    <3> QED
      BY <3>4, <3>5 DEF Astray
  <2>6. ASSUME plain, ~Synced, ~Synced', Rx_Bot >= 2 PROVE Astray'
    <3>1. PICK p \in Nat : p = missed * Length
      OBVIOUS
    <3>2. p + (IF intact THEN at ELSE 0) <= Rx_Bot - 2
      BY <2>6, <3>1 DEF Astray, Swallowed
    <3>3. p = missed' * Length
      BY <2>1, <3>1
    <3>4. CASE Rx_Bot' = Rx_Bot + 1
      <4>1. p + (IF intact' THEN at' ELSE 0) <= Rx_Bot' - 2
        BY <2>1, <3>2, <3>4
      <4> QED
        BY <2>6, <3>3, <3>4, <4>1 DEF Astray, Swallowed
    <3>5. CASE Rx_Bot' = 0
      <4>1. p <= MaxByte - 3
        BY <3>2
      <4> QED
        BY <3>3, <3>5, <4>1 DEF Astray
    <3> QED
      BY <1>5, <2>6, <3>4, <3>5
  <2>7. Astray'
    <3> SUFFICES ASSUME plain, ~Synced' PROVE Astray'
      BY <1>1 DEF Astray
    <3> QED
      BY <2>4, <2>5, <2>6
  <2> QED
    BY <1>1, <2>1, <2>2, <2>3, <2>7
<1>7. CASE ~(at < Length - 1)
  <2>0. at = Length - 1
    BY <1>7
  <2>1. at' = 0 /\ intact' = TRUE
    BY <1>7 DEF Receive
  <2>2. missed' = IF Accepts(TRUE) \/ noisy THEN 0
                  ELSE IF intact /\ missed < MaxMissed THEN missed + 1 ELSE missed
    BY <1>7 DEF Receive
  <2>10. missed' = 0 \/ missed' = missed \/ (missed' = missed + 1 /\ intact)
    BY <2>2
  <2>3. LengthSeen'
    BY <1>1, <1>2, <1>3, <1>5 DEF LengthSeen
  <2>4. Amid'
    BY <1>1, <2>1, <2>2 DEF Amid
  <2>5. ASSUME Synced PROVE missed' = 0 /\ Rx_Bot' = 0
    <3>1. whole /\ Rx_Bot = at /\ RxLen = Length
      BY <2>0, <2>5 DEF Synced, LengthSeen
    <3>2. Last(Rx_Bot, RxLen)
      BY <2>0, <3>1 DEF Last
    <3>3. Accepts(TRUE)
      BY <3>1, <3>2 DEF Accepts, Continues
    <3> QED
      BY <1>5, <2>0, <2>2, <3>1, <3>3
  <2>6. ASSUME plain, ~Synced, Rx_Bot <= 1
        PROVE  missed * Length <= MaxByte - 3 /\ Rx_Bot' \in {0, 1}
    BY <1>3, <1>5, <2>0, <2>6 DEF Astray
  <2>7. ASSUME plain, ~Synced, Rx_Bot >= 2
        PROVE  /\ missed * Length <= MaxByte - 3
               /\ Rx_Bot' >= 2 => missed' * Length <= Rx_Bot' - 2
    <3>1. PICK p \in Nat : p = missed * Length
      OBVIOUS
    <3>2. p + (IF intact THEN at ELSE 0) <= Rx_Bot - 2
      BY <2>7, <3>1 DEF Astray, Swallowed
    <3>3. p <= MaxByte - 3
      BY <3>2
    <3>4. ASSUME Rx_Bot' >= 2 PROVE missed' * Length <= Rx_Bot' - 2
      <4>1. Rx_Bot' = Rx_Bot + 1
        BY <1>5, <2>7, <3>4
      <4>2. CASE missed' = 0
        BY <2>7, <4>1, <4>2
      <4>3. CASE missed' = missed
        BY <3>1, <3>2, <4>1, <4>3
      <4>4. CASE missed' = missed + 1 /\ intact
        <5>1. missed' * Length = p + Length
          BY <3>1, <4>4
        <5> QED
          BY <2>0, <3>2, <4>1, <4>4, <5>1
      <4> QED
        BY <2>10, <4>2, <4>3, <4>4
    <3> QED
      BY <3>1, <3>3, <3>4
  <2>8. Astray'
    <3> SUFFICES ASSUME plain, ~Synced' PROVE Astray'
      BY <1>1 DEF Astray
    <3>1. Rx_Bot' >= 2
      BY <1>5, <2>1, <2>5, <2>6, <2>7 DEF Synced
    <3>2. missed' * Length + 0 <= Rx_Bot' - 2
      <4>0. Rx_Bot >= 2 /\ ~Synced
        <5>1. ~Synced
          BY <2>5, <3>1
        <5>2. ~(Rx_Bot <= 1)
          BY <2>6, <3>1, <5>1
        <5> QED
          BY <5>1, <5>2
      <4>1. missed' * Length <= Rx_Bot' - 2
        BY <2>7, <3>1, <4>0
      <4>2. missed' \in Nat
        BY <2>10
      <4>3. missed' * Length \in Nat
        BY <4>2
      <4> QED
        BY <4>1, <4>3
    <3> QED
      BY <2>1, <3>1, <3>2 DEF Astray, Swallowed
  <2>9. missed' > missed /\ plain => missed * Length <= MaxByte - 3
    BY <2>5, <2>6, <2>7
  <2>11. missed' \in Nat /\ (missed' > missed => missed' = missed + 1)
    BY <2>10
  <2> QED
    BY <1>1, <2>3, <2>4, <2>8, <2>9, <2>11
<1> QED
  BY <1>6, <1>7

\* Noise: no frame counts as missed yet, whatever the parser makes of it.
LEMMA NoiseAstray ==
  ASSUME TypeOK, LengthSeen, Amid, noisy, noisy', missed' = missed,
         intact' => at' = 0, TypeOK',
         whole' => whole /\ Rx_Bot' = Rx_Bot /\ RxLen' = RxLen
  PROVE  LengthSeen' /\ Amid' /\ Astray'
<1>1. missed = 0
  BY DEF Amid
<1>2. LengthSeen'
  BY DEF LengthSeen
<1>3. Swallowed' = 0 /\ missed' * Length = 0
  BY <1>1, FrameNumbers DEF Swallowed
<1>4. Rx_Bot' \in Nat
  BY FrameNumbers DEF TypeOK
<1>5. 0 <= MaxByte - 3 /\ (Rx_Bot' >= 2 => 0 <= Rx_Bot' - 2)
  <2>1. 0 <= MaxByte - 3
    BY FrameAssumption
  <2>2. \A k \in Nat : k >= 2 => 0 <= k - 2
    OBVIOUS
  <2> QED
    BY <1>4, <2>1, <2>2, Zenon
<1>6. Astray'
  BY <1>3, <1>5 DEF Astray
<1> QED
  BY <1>1, <1>2, <1>6 DEF Amid

\* Once the link is quiet, the frames missed fit into one false frame and one
\* more, for every frame length but the value of the second header byte.
THEOREM BackInStep == ASSUME SOH1 # Length PROVE Spec => []Resynchronises
<1>1. Init => LengthSeen /\ Amid /\ Astray /\ Resynchronises
  BY FrameAssumption DEF Init, LengthSeen, Amid, Astray, Synced, Resynchronises
<1>2. TypeOK /\ TypeOK' /\ LengthSeen /\ Amid /\ Astray /\ Resynchronises /\ [Next]_vars
        => (LengthSeen /\ Amid /\ Astray /\ Resynchronises)'
  <2> SUFFICES ASSUME TypeOK, TypeOK', LengthSeen, Amid, Astray, Resynchronises, [Next]_vars
               PROVE  (LengthSeen /\ Amid /\ Astray /\ Resynchronises)'
    OBVIOUS
  <2>1. ASSUME NEW v \in Byte, Receive(v)
        PROVE  (LengthSeen /\ Amid /\ Astray /\ Resynchronises)'
    <3>1. /\ LengthSeen' /\ Amid' /\ Astray'
          /\ plain' = plain /\ missed' \in Nat
          /\ missed' > missed => /\ missed' = missed + 1
                                 /\ plain => missed * Length <= MaxByte - 3
      BY <2>1, ReceiveAstray
    <3>6. missed' > missed => missed' = missed + 1 /\ (plain => missed * Length <= MaxByte - 3)
      BY <3>1, Zenon
    <3>2. PICK b \in Nat : b = (MaxByte - 3) \div Length
      <4>1. MaxByte - 3 \in Nat /\ Length \in Nat /\ Length > 0
        BY FrameNumbers
      <4> QED
        BY <4>1
    <3>3. plain /\ missed' > missed => missed <= b
      <4>1. Length \in Nat /\ Length > 0 /\ missed \in Nat
        BY FrameNumbers
      <4>2. PICK c \in Nat : c = MaxByte - 3
        BY FrameAssumption
      <4>3. missed * Length <= c => missed <= c \div Length
        BY <4>1, FramesIn
      <4>4. b = c \div Length
        BY <3>2, <4>2
      <4>5. plain /\ missed' > missed => missed * Length <= c
        BY <3>6, <4>1, <4>2
      <4> QED
        BY <4>3, <4>4, <4>5
    <3>4. plain => missed <= b + 1
      BY <3>2 DEF Resynchronises
    <3>5. plain' => missed' <= b + 1
      <4>1. missed \in Nat
        BY FrameNumbers
      <4>2. CASE missed' > missed
        <5>1. missed' = missed + 1
          BY <3>6, <4>1, <4>2
        <5> QED
          BY <3>1, <3>3, <4>1, <4>2, <5>1
      <4>3. CASE missed' <= missed
        BY <3>1, <3>4, <4>1, <4>3
      <4> QED
        BY <3>1, <4>1, <4>2, <4>3
    <3> QED
      BY <3>1, <3>2, <3>5 DEF Resynchronises
  <2>2. ASSUME NEW v \in Byte, Alter(v) \/ Insert(v)
        PROVE  (LengthSeen /\ Amid /\ Astray /\ Resynchronises)'
    <3>1. /\ noisy /\ noisy' /\ missed' = missed /\ plain' = plain /\ ~whole'
          /\ intact' => at' = 0
      <4>0. at \in Nat /\ Length \in Nat
        BY FrameNumbers
      <4>1. CASE Alter(v)
        <5>1. noisy /\ noisy' /\ missed' = missed /\ plain' = plain
          BY <4>1 DEF Alter
        <5>2. ~whole'
          BY <4>1 DEF Alter, Parse, Continues
        <5>3. at = Length - 1 => at' = 0
          BY <4>0, <4>1 DEF Alter, Damage
        <5>4. intact' => at = Length - 1
          BY <4>1 DEF Alter, Damage
        <5> QED
          BY <5>1, <5>2, <5>3, <5>4
      <4>2. CASE Insert(v)
        BY <4>2 DEF Insert, Parse, Continues
      <4> QED
        BY <2>2, <4>1, <4>2
    <3>2. LengthSeen' /\ Amid' /\ Astray'
      BY <3>1, NoiseAstray
    <3> QED
      BY <3>1, <3>2 DEF Resynchronises
  <2>3. CASE Lose
    <3>1. /\ noisy /\ noisy' /\ missed' = missed /\ plain' = plain
          /\ UNCHANGED <<Rx_Bot, RxLen, whole>> /\ (intact' => at' = 0)
      <4>1. at \in Nat /\ Length \in Nat
        BY FrameNumbers
      <4>2. at = Length - 1 => at' = 0
        BY <2>3, <4>1 DEF Lose, Damage
      <4>3. intact' => at = Length - 1
        BY <2>3 DEF Lose, Damage
      <4> QED
        BY <2>3, <4>2, <4>3 DEF Lose
    <3>2. LengthSeen' /\ Amid' /\ Astray'
      BY <3>1, NoiseAstray
    <3> QED
      BY <3>1, <3>2 DEF Resynchronises
  <2>4. CASE Quiet
    BY <2>4 DEF Quiet, LengthSeen, Amid, Astray, Synced, Swallowed, Resynchronises
  <2>5. CASE UNCHANGED vars
    BY <2>5 DEF vars, LengthSeen, Amid, Astray, Synced, Swallowed, Resynchronises
  <2> QED
    BY <2>1, <2>2, <2>3, <2>4, <2>5 DEF Next
<1> QED
  BY <1>1, <1>2, TypeCorrect, PTL DEF Spec

-----------------------------------------------------------------------------
(* The parsers of the boards.  One notion of being in step serves all      *)
(* three: the header under way, or the one to come, is the frame's own,    *)
(* and the parser has been told the frame's length.                        *)

\* What a parser has stored of the frame's length is right.
Told ==
  CASE port = "motion" -> /\ Bot >= 3 /\ Only => size = 8
                          /\ Bot >= 6 => Count = IF size = 8 THEN 0 ELSE 1
    [] port = "gas"    -> place < 14 /\ (Bot >= 7 => Count = 2)
    [] OTHER           -> TRUE

\* The parser waits for a header.
Hunting == IF port = "head" THEN Bot <= 1 ELSE Bot = 0

DevSynced ==
  IF Hunting THEN \/ place = 0
                  \/ port = "head" /\ place = 1 /\ Bot = 1
                  \/ port = "gas" /\ place = 14 /\ taken
             ELSE begun /\ Bot = place /\ Told

Fits == (port = "head" => Bot < 23) /\ (port = "motion" => Bot < 32)

DevAmid == noise \/ ~sound => refused = 0

\* A whole text of the sensor ends whatever its parser was in: its carriage
\* return comes at index 7 or later, or is not stored at all.
GasText == port = "gas" /\ sound => Bot = 0 \/ (place < 14 /\ Bot >= place)

GasHeard == heard => ~noise /\ (port = "gas" => DevSynced)

InLine == quiet => DevSynced /\ refused = 0

\* Bytes of the frame under way a false frame has swallowed.
Since == IF sound THEN place ELSE 0

DevAstray ==
  simple /\ ~DevSynced =>
    IF port = "motion"
    THEN IF Bot = 0 THEN refused <= 3 ELSE 8 * refused + Since <= Bot - 1
    ELSE refused = 0 /\ (port = "head" /\ Bot >= 2 => Since <= Bot - 2)

DevInv == /\ DevTypeOK /\ Fits /\ DevAmid /\ GasText /\ GasHeard /\ InLine /\ DevAstray
          /\ DevResynchronises

\* The variables as numbers.
LEMMA DevNumbers ==
  ASSUME DevTypeOK
  PROVE  /\ port = "head" \/ port = "motion" \/ port = "gas"
         /\ Bot \in Nat /\ Count \in Int /\ place \in Nat /\ place <= size - 1
         /\ size \in Nat /\ refused \in Nat
         /\ port = "head" => size = 23
         /\ port = "motion" => size = 8 \/ size = 12
         /\ port = "gas" => size = 15
<1>1. port = "head" \/ port = "motion" \/ port = "gas"
  BY DeviceAssumption DEF DevTypeOK
<1>2. /\ port = "head" => size = 23
      /\ port = "motion" => size = 8 \/ size = 12
      /\ port = "gas" => size = 15
  BY <1>1 DEF DevTypeOK, Sizes
<1>3. size \in Nat /\ size >= 8
  BY <1>1, <1>2
<1>4. place \in Nat /\ place <= size - 1
  BY <1>3 DEF DevTypeOK
<1> QED
  BY <1>1, <1>2, <1>3, <1>4, DeviceAssumption DEF DevTypeOK

\* Where the head's parser goes, index by index.
LEMMA HeadBot ==
  ASSUME port = "head", NEW i \in Nat, NEW v
  PROVE  DevBot(i, v) = IF i = 0 THEN IF v = 72 THEN 1 ELSE 0
                        ELSE IF i = 1 THEN IF v = 68 THEN 2 ELSE 1
                        ELSE IF i >= 22 THEN 0 ELSE i + 1
  BY DEF DevBot, StartsOver, TooLong, LastByte, SOH

\* The drives': a count of words told at index 5 decides from index 6 on.
LEMMA MotionBot ==
  ASSUME port = "motion", NEW i \in Nat, NEW v, Count \in Int
  PROVE  DevBot(i, v) = IF i = 0 THEN IF v = 165 THEN 1 ELSE 0
                        ELSE IF i < 6 THEN i + 1
                        ELSE IF \/ FrameSize(Count) > 32
                                \/ i >= IF Only THEN 7 ELSE FrameSize(Count) - 1
                             THEN 0 ELSE i + 1
  BY DEF DevBot, StartsOver, TooLong, LastByte, SOH

\* The sensor's: a count told at index 6, and a carriage return.
LEMMA GasBot ==
  ASSUME port = "gas", NEW i \in Nat, NEW v, Count \in Int
  PROVE  DevBot(i, v) = IF i = 0 THEN IF v = 58 THEN 1 ELSE 0
                        ELSE IF i < 7 THEN i + 1
                        ELSE IF Count > 12 \/ v = 13 THEN 0 ELSE i + 1
  BY DEF DevBot, StartsOver, TooLong, LastByte, SOH, CR

LEMMA WordsFit ==
  /\ FrameSize(0) = 8 /\ FrameSize(1) = 12
  /\ \A n \in Int : FrameSize(n) \in Int
  BY DEF FrameSize

\* A byte parsed keeps the type of the parser's variables.
LEMMA DevParseType ==
  ASSUME DevTypeOK, NEW v \in DevByte, NEW g \in BOOLEAN, DevParse(v, g)
  PROVE  /\ port' = port /\ Bot' \in Nat /\ Count' \in Int
         /\ {Only', Rx_OK', begun'} \subseteq BOOLEAN
<1> USE DevNumbers
<1>1. v \in Int /\ Digit(v) \in Int
  BY DEF DevByte, Digit, CR, LF
<1>2. port' = port /\ Bot' = DevBot(Bot, v)
  BY DEF DevParse
<1>3. Bot' \in Nat
  <2>1. DevBot(Bot, v) \in {0, 1, Bot + 1}
    BY DEF DevBot
  <2> QED
    BY <1>2, <2>1
<1>4. Count' \in {0, v, Digit(v), Count}
  BY DEF DevParse
<1>5. Only' \in BOOLEAN
  BY DEF DevParse
<1>6. Rx_OK' \in BOOLEAN
  BY DEF DevParse, DevTypeOK, Matches
<1>7. begun' \in BOOLEAN
  BY DEF DevParse, Follows
<1> QED
  BY <1>1, <1>2, <1>3, <1>4, <1>5, <1>6, <1>7

\* The link goes on.
LEMMA PassesType ==
  ASSUME DevTypeOK, port' = port, Passes
  PROVE  /\ size' \in Sizes' /\ place' \in 0 .. (size' - 1)
         /\ IF place < size - 1 THEN place' = place + 1 /\ size' = size ELSE place' = 0
<1>1. Sizes' = Sizes /\ \A s \in Sizes : s \in Nat /\ s >= 8
  BY DevNumbers DEF Sizes
<1>2. CASE place < size - 1
  BY <1>1, <1>2, DevNumbers DEF DevTypeOK, Passes
<1>3. CASE ~(place < size - 1)
  <2>1. place' = 0 /\ size' \in Sizes
    BY <1>3 DEF Passes
  <2>2. size' \in Nat /\ size' >= 8
    BY <1>1, <2>1
  <2>3. \A s \in Nat : s >= 8 => 0 \in 0 .. (s - 1)
    OBVIOUS
  <2>4. 0 \in 0 .. (size' - 1)
    BY <2>2, <2>3, Zenon
  <2> QED
    BY <1>1, <1>3, <2>1, <2>4
<1> QED
  BY <1>2, <1>3

LEMMA DevTypeStep == DevTypeOK /\ [DevNext]_devVars => DevTypeOK'
<1> SUFFICES ASSUME DevTypeOK, [DevNext]_devVars PROVE DevTypeOK'
  OBVIOUS
<1> USE DeviceAssumption
<1>1. ASSUME NEW v \in DevByte, DevReceive(v) PROVE DevTypeOK'
  <2>1. /\ port' = port /\ Bot' \in Nat /\ Count' \in Int
        /\ {Only', Rx_OK', begun'} \subseteq BOOLEAN
    BY <1>1, DevParseType DEF DevReceive
  <2>2. size' \in Sizes' /\ place' \in 0 .. (size' - 1)
    BY <1>1, <2>1, PassesType DEF DevReceive
  <2>3. UNCHANGED <<simple, noise, quiet>>
    BY <1>1 DEF DevReceive
  <2>4. sound' \in BOOLEAN
    BY <1>1 DEF DevReceive, Ends, DevTypeOK
  <2>5. taken' \in BOOLEAN
    BY <1>1 DEF DevReceive, Ends
  <2>6. heard' \in BOOLEAN
    BY <1>1 DEF DevReceive, DevTypeOK
  <2>7. refused' \in {0, refused, Refuses}
    BY <1>1 DEF DevReceive
  <2>8. Refuses \in 0 .. MaxRefused
    BY DEF Refuses, DevTypeOK
  <2>9. refused' \in 0 .. MaxRefused
    BY <2>7, <2>8 DEF DevTypeOK
  <2> QED
    BY <2>1, <2>2, <2>3, <2>4, <2>5, <2>6, <2>9 DEF DevTypeOK
<1>2. ASSUME NEW v \in DevByte, DevAlter(v) PROVE DevTypeOK'
  <2>1. /\ port' = port /\ Bot' \in Nat /\ Count' \in Int
        /\ {Only', Rx_OK', begun'} \subseteq BOOLEAN
    BY <1>2, DevParseType DEF DevAlter
  <2>2. size' \in Sizes' /\ place' \in 0 .. (size' - 1)
    BY <1>2, <2>1, PassesType DEF DevAlter
  <2>3. /\ UNCHANGED <<simple, noise, heard, refused>>
        /\ sound' = Ends /\ taken' = (~Ends /\ taken) /\ quiet' = FALSE
    BY <1>2 DEF DevAlter
  <2>4. sound' \in BOOLEAN /\ taken' \in BOOLEAN
    BY <2>3 DEF Ends
  <2> QED
    BY <2>1, <2>2, <2>3, <2>4 DEF DevTypeOK
<1>3. ASSUME NEW v \in DevByte, DevInsert(v) PROVE DevTypeOK'
  <2>1. /\ port' = port /\ Bot' \in Nat /\ Count' \in Int
        /\ {Only', Rx_OK', begun'} \subseteq BOOLEAN
    BY <1>3, DevParseType DEF DevInsert
  <2>2. /\ UNCHANGED <<size, place, taken, simple, noise, heard, refused>>
        /\ sound' = (place = 0) /\ quiet' = FALSE
    BY <1>3 DEF DevInsert
  <2>3. sound' \in BOOLEAN
    BY <2>2
  <2> QED
    BY <2>1, <2>2, <2>3 DEF DevTypeOK, Sizes
<1>4. CASE DevLose
  <2>1. /\ UNCHANGED <<port, Bot, Only, Count, Rx_OK, begun, simple, noise, heard, refused>>
        /\ sound' = Ends /\ taken' = (~Ends /\ taken) /\ quiet' = FALSE
    BY <1>4 DEF DevLose
  <2>2. size' \in Sizes' /\ place' \in 0 .. (size' - 1)
    BY <1>4, <2>1, PassesType DEF DevLose
  <2>3. sound' \in BOOLEAN /\ taken' \in BOOLEAN
    BY <2>1 DEF Ends
  <2> QED
    BY <2>1, <2>2, <2>3 DEF DevTypeOK
<1>5. CASE DevQuiet
  BY <1>5 DEF DevQuiet, DevTypeOK, Sizes
<1>6. CASE Use
  BY <1>6 DEF Use, link, DevTypeOK, Sizes
<1>7. CASE UNCHANGED devVars
  BY <1>7 DEF devVars, link, DevTypeOK, Sizes
<1> QED
  BY <1>1, <1>2, <1>3, <1>4, <1>5, <1>6, <1>7 DEF DevNext

\* What each port's frames carry.
LEMMA SaidHead ==
  ASSUME port = "head", NEW v \in Said(place)
  PROVE  /\ place = 0 => v = 72
         /\ place = 1 => v = 68
         /\ simple /\ place # 0 /\ place # 1 => v # 68
<1>1. CASE place = 0
  BY <1>1 DEF Said, SOH
<1>2. CASE place = 1
  BY <1>2 DEF Said
<1>3. CASE place # 0 /\ place # 1
  BY <1>3 DEF Said, Carried, Mark
<1> QED
  BY <1>1, <1>2, <1>3

LEMMA SaidMotion ==
  ASSUME port = "motion", NEW v \in Said(place)
  PROVE  /\ place = 0 => v = 165
         /\ place = 2 /\ size # 8 => v = 0
         /\ place = 5 => v = IF size = 8 THEN 0 ELSE 1
         /\ simple /\ place # 0 => v # 165
<1>1. CASE place = 0
  BY <1>1 DEF Said, SOH
<1>2. CASE place # 0
  <2>1. v \in CASE place = 2 -> IF size = 8 THEN {0, 1} ELSE {0}
                [] place = 5 -> IF size = 8 THEN {0} ELSE {1}
                [] OTHER     -> Carried
    BY <1>2 DEF Said
  <2>2. simple => 165 \notin Carried
    BY DEF Carried, Mark, SOH
  <2> QED
    BY <1>2, <2>1, <2>2
<1> QED
  BY <1>1, <1>2

LEMMA SaidGas ==
  ASSUME port = "gas", NEW v \in Said(place)
  PROVE  /\ place = 0 => v = 58
         /\ place # 0 => v # 58
         /\ place = 6 => v = 50
         /\ place = 13 <=> v = 13
<1>1. CASE place = 0
  BY <1>1 DEF Said, SOH
<1>2. CASE place # 0
  <2>1. v \in CASE place = 5  -> {48}
                [] place = 6  -> {50}
                [] place = 13 -> {13}
                [] place = 14 -> {10}
                [] OTHER      -> {48, 50}
    BY <1>2 DEF Said, CR, LF
  <2> QED
    BY <1>2, <2>1
<1> QED
  BY <1>1, <1>2

\* A frame's own byte, port apart.
LEMMA Received ==
  ASSUME DevTypeOK, NEW v \in DevByte, DevReceive(v)
  PROVE  /\ port' = port /\ v \in Said(place) /\ Bot' = DevBot(Bot, v)
         /\ begun' <=> place = Bot /\ (begun \/ Bot = 0 \/ (port = "head" /\ Bot = 1))
         /\ IF place < size - 1 THEN place' = place + 1 /\ size' = size ELSE place' = 0
         /\ Ends <=> ~(place < size - 1)
         /\ simple' = simple /\ noise' = noise /\ quiet' = quiet
         /\ sound' <=> sound \/ Ends
         /\ taken' <=> ~Ends /\ (taken \/ Matches(v, TRUE))
         /\ heard' <=> heard \/ (Ends /\ sound /\ ~noise)
         /\ \/ refused' = 0 /\ Matches(v, TRUE)
            \/ refused' = refused
            \/ refused' = refused + 1 /\ Ends /\ sound /\ ~taken /\ ~Matches(v, TRUE) /\ ~noise
<1>1. /\ port' = port /\ v \in Said(place) /\ Bot' = DevBot(Bot, v)
      /\ simple' = simple /\ noise' = noise /\ quiet' = quiet
  BY DEF DevReceive, DevParse
<1>2. begun' <=> place = Bot /\ (begun \/ Bot = 0 \/ (port = "head" /\ Bot = 1))
  BY DEF DevReceive, DevParse, Follows
<1>3. IF place < size - 1 THEN place' = place + 1 /\ size' = size ELSE place' = 0
  BY <1>1, PassesType DEF DevReceive
<1>4. Ends <=> ~(place < size - 1)
  BY DevNumbers DEF Ends
<1>5. /\ sound' <=> sound \/ Ends
      /\ taken' <=> ~Ends /\ (taken \/ Matches(v, TRUE))
      /\ heard' <=> heard \/ (Ends /\ sound /\ ~noise)
  BY DEF DevReceive
<1>6. \/ refused' = 0 /\ Matches(v, TRUE)
      \/ refused' = refused
      \/ refused' = refused + 1 /\ Ends /\ sound /\ ~taken /\ ~Matches(v, TRUE) /\ ~noise
  <2>1. refused' = IF Matches(v, TRUE) THEN 0
                   ELSE IF Ends /\ sound /\ ~taken /\ ~noise THEN Refuses ELSE refused
    BY DEF DevReceive
  <2>2. CASE Matches(v, TRUE)
    BY <2>1, <2>2
  <2>3. CASE ~Matches(v, TRUE) /\ Ends /\ sound /\ ~taken /\ ~noise
    <3>1. refused' = Refuses
      BY <2>1, <2>3
    <3>2. Refuses = refused + 1 \/ Refuses = refused
      BY DEF Refuses
    <3> QED
      BY <2>3, <3>1, <3>2
  <2>4. CASE ~Matches(v, TRUE) /\ ~(Ends /\ sound /\ ~taken /\ ~noise)
    BY <2>1, <2>4
  <2> QED
    BY <2>2, <2>3, <2>4
<1> QED
  BY <1>1, <1>2, <1>3, <1>4, <1>5, <1>6

LEMMA HeadInStep ==
  ASSUME DevTypeOK, NEW v \in DevByte, DevReceive(v), port = "head", DevSynced
  PROVE  DevSynced' /\ (Ends => Matches(v, TRUE))
<1>1. size = 23 /\ place \in Nat /\ place <= 22 /\ Bot \in Nat
  BY DevNumbers
<1>2. /\ port' = "head" /\ Bot' = DevBot(Bot, v)
      /\ place = Bot /\ (begun \/ Bot = 0 \/ Bot = 1) => begun'
      /\ IF place < 22 THEN place' = place + 1 ELSE place' = 0
      /\ Ends <=> ~(place < 22)
  <2>1. 23 - 1 = 22
    OBVIOUS
  <2> QED
    BY <1>1, <2>1, Received
<1>3. /\ place = 0 => v = 72
      /\ place = 1 => v = 68
  <2>1. v \in Said(place)
    BY Received
  <2> QED
    BY <2>1, SaidHead
<1>4. Bot' = IF Bot = 0 THEN IF v = 72 THEN 1 ELSE 0
             ELSE IF Bot = 1 THEN IF v = 68 THEN 2 ELSE 1
             ELSE IF Bot >= 22 THEN 0 ELSE Bot + 1
  BY <1>1, <1>2, HeadBot
<1>5. CASE Bot <= 1
  <2>1. place = 0 \/ (place = 1 /\ Bot = 1)
    BY <1>5 DEF DevSynced, Hunting
  <2>2. CASE place = 0
    <3>1. Bot = 0 \/ Bot = 1
      BY <1>1, <1>5
    <3>2. Bot' = 1
      BY <1>3, <1>4, <2>2, <3>1
    <3>3. place' = 1 /\ ~Ends /\ port' = "head"
      BY <1>2, <2>2
    <3>4. DevSynced'
      BY <3>2, <3>3 DEF DevSynced, Hunting
    <3> QED
      BY <3>3, <3>4
  <2>3. CASE place = 1 /\ Bot = 1
    <3>1. Bot' = 2
      BY <1>3, <1>4, <2>3
    <3>2. place' = 2 /\ begun' /\ ~Ends /\ port' = "head"
      BY <1>2, <2>3
    <3>3. DevSynced'
      BY <3>1, <3>2 DEF DevSynced, Hunting, Told
    <3> QED
      BY <3>2, <3>3
  <2> QED
    BY <2>1, <2>2, <2>3
<1>6. CASE ~(Bot <= 1)
  <2>1. begun /\ Bot = place
    BY <1>6 DEF DevSynced, Hunting
  <2>2. DevSynced'
    BY <1>1, <1>2, <1>4, <1>6, <2>1 DEF DevSynced, Hunting, Told
  <2>3. ASSUME Ends PROVE Matches(v, TRUE)
    <3>1. Bot >= 22
      BY <1>1, <1>2, <2>1, <2>3
    <3> QED
      BY <2>1, <3>1 DEF Matches, TooLong, LastByte, Follows
  <2> QED
    BY <2>2, <2>3
<1> QED
  BY <1>5, <1>6

LEMMA MotionInStep ==
  ASSUME DevTypeOK, NEW v \in DevByte, DevReceive(v), port = "motion", DevSynced
  PROVE  DevSynced' /\ (Ends => Matches(v, TRUE))
<1>1. /\ size \in {8, 12} /\ place \in Nat /\ place <= size - 1 /\ Bot \in Nat /\ Count \in Int
      /\ Only \in BOOLEAN
  BY DevNumbers DEF DevTypeOK
<1>2. /\ port' = "motion" /\ Bot' = DevBot(Bot, v)
      /\ place = Bot /\ (begun \/ Bot = 0) => begun'
      /\ IF place < size - 1 THEN place' = place + 1 /\ size' = size ELSE place' = 0
      /\ Ends <=> ~(place < size - 1)
  BY Received
<1>3. /\ place = 0 => v = 165
      /\ place = 2 /\ size # 8 => v = 0
      /\ place = 5 => v = IF size = 8 THEN 0 ELSE 1
  BY Received, SaidMotion
<1>4. Bot' = IF Bot = 0 THEN IF v = 165 THEN 1 ELSE 0
             ELSE IF Bot < 6 THEN Bot + 1
             ELSE IF \/ FrameSize(Count) > 32
                     \/ Bot >= IF Only THEN 7 ELSE FrameSize(Count) - 1
                  THEN 0 ELSE Bot + 1
  BY <1>1, <1>2, MotionBot
<1>5. /\ Only' => IF Bot = 2 THEN v % 2 = 1 ELSE Only
      /\ Bot' # 0 => Count' = IF Bot = 5 THEN v ELSE Count
  <2>1. Only' => IF Bot = 2 THEN v % 2 = 1 ELSE Only
    BY DEF DevReceive, DevParse
  <2>2. Bot' # 0 => Count' = IF Bot = 5 THEN v ELSE Count
    BY DEF DevReceive, DevParse
  <2> QED
    BY <2>1, <2>2
<1>6. CASE Bot = 0
  <2>1. place = 0
    BY <1>6 DEF DevSynced, Hunting
  <2>2. Bot' = 1
    BY <1>3, <1>4, <1>6, <2>1
  <2>3. place' = 1 /\ begun' /\ ~Ends /\ port' = "motion"
    BY <1>1, <1>2, <1>6, <2>1
  <2>4. DevSynced'
    BY <2>2, <2>3 DEF DevSynced, Hunting, Told
  <2> QED
    BY <2>3, <2>4
<1>7. CASE Bot # 0
  <2>1. /\ begun /\ Bot = place
        /\ Bot >= 3 /\ Only => size = 8
        /\ Bot >= 6 => Count = IF size = 8 THEN 0 ELSE 1
    BY <1>7 DEF DevSynced, Hunting, Told
  <2>2. CASE Bot < 6
    <3>1. Bot' = Bot + 1 /\ place' = Bot + 1 /\ size' = size /\ begun' /\ ~Ends
      BY <1>1, <1>2, <1>4, <1>7, <2>1, <2>2
    <3>2. Bot' >= 3 /\ Only' => size' = 8
      <4>1. CASE Bot = 2
        <5>1. size # 8 => v = 0
          BY <1>3, <2>1, <4>1
        <5>2. Only' => v % 2 = 1
          BY <1>5, <4>1
        <5>3. v = 0 => ~Only'
          BY <5>2
        <5> QED
          BY <3>1, <5>1, <5>3
      <4>2. CASE Bot # 2
        BY <1>1, <1>5, <2>1, <3>1, <4>2
      <4> QED
        BY <4>1, <4>2
    <3>3. Bot' >= 6 => Count' = IF size' = 8 THEN 0 ELSE 1
      <4>1. ASSUME Bot' >= 6 PROVE Bot = 5
        BY <1>1, <2>2, <3>1, <4>1
      <4>2. Bot = 5 => Count' = v /\ v = IF size = 8 THEN 0 ELSE 1
        BY <1>3, <1>5, <2>1, <3>1
      <4> QED
        BY <3>1, <4>1, <4>2
    <3>4. Bot' # 0
      BY <1>1, <3>1
    <3> QED
      BY <1>2, <3>1, <3>2, <3>3, <3>4 DEF DevSynced, Hunting, Told
  <2>3. CASE Bot >= 6
    <3>1. Count = IF size = 8 THEN 0 ELSE 1
      BY <2>1, <2>3
    <3>2. FrameSize(Count) = size
      BY <1>1, <3>1, WordsFit
    <3>3. (IF Only THEN 7 ELSE size - 1) = size - 1
      BY <1>1, <2>1, <2>3
    <3>4. Bot' = IF Bot >= size - 1 THEN 0 ELSE Bot + 1
      BY <1>1, <1>4, <2>3, <3>2, <3>3
    <3>5. CASE place < size - 1
      <4>1. Bot' = Bot + 1 /\ place' = Bot + 1 /\ size' = size /\ begun' /\ ~Ends
        BY <1>1, <1>2, <2>1, <3>4, <3>5
      <4>2. (Only' => Only) /\ Count' = Count
        BY <1>1, <1>5, <2>3, <4>1
      <4>3. (Bot' >= 3 /\ Only' => size' = 8) /\ Count' = IF size' = 8 THEN 0 ELSE 1
        BY <1>1, <2>1, <2>3, <3>1, <4>1, <4>2
      <4>4. Bot' # 0
        BY <1>1, <4>1
      <4> QED
        BY <1>2, <4>1, <4>3, <4>4 DEF DevSynced, Hunting, Told
    <3>6. CASE ~(place < size - 1)
      <4>1. Bot' = 0 /\ place' = 0
        BY <1>1, <1>2, <2>1, <3>4, <3>6
      <4>2. LastByte(Bot, v) /\ ~TooLong(Bot)
        BY <1>1, <2>1, <2>3, <3>2, <3>3, <3>6 DEF LastByte, TooLong
      <4>3. Matches(v, TRUE)
        BY <2>1, <4>2 DEF Matches, Follows
      <4> QED
        BY <1>2, <4>1, <4>3 DEF DevSynced, Hunting
    <3> QED
      BY <3>5, <3>6
  <2>4. Bot < 6 \/ Bot >= 6
    BY <1>1
  <2> QED
    BY <2>2, <2>3, <2>4
<1> QED
  BY <1>6, <1>7

LEMMA GasInStep ==
  ASSUME DevTypeOK, NEW v \in DevByte, DevReceive(v), port = "gas", DevSynced
  PROVE  DevSynced' /\ (Ends => taken)
<1>1. size = 15 /\ place \in Nat /\ place <= 14 /\ Bot \in Nat /\ Count \in Int
  BY DevNumbers
<1>2. /\ port' = "gas" /\ Bot' = DevBot(Bot, v)
      /\ place = Bot /\ (begun \/ Bot = 0) => begun'
      /\ IF place < 14 THEN place' = place + 1 ELSE place' = 0
      /\ Ends <=> ~(place < 14)
      /\ ~Ends /\ Matches(v, TRUE) => taken'
  <2>1. 15 - 1 = 14
    OBVIOUS
  <2> QED
    BY <1>1, <2>1, Received
<1>3. /\ place = 0 => v = 58
      /\ place # 0 => v # 58
      /\ place = 6 => v = 50
      /\ place = 13 <=> v = 13
  BY Received, SaidGas
<1>4. Bot' = IF Bot = 0 THEN IF v = 58 THEN 1 ELSE 0
             ELSE IF Bot < 7 THEN Bot + 1
             ELSE IF Count > 12 \/ v = 13 THEN 0 ELSE Bot + 1
  BY <1>1, <1>2, GasBot
<1>5. Bot' # 0 => Count' = IF Bot = 6 THEN v - 48 ELSE Count
  BY DEF DevReceive, DevParse, Digit
<1>6. CASE Bot = 0
  <2>1. place = 0 \/ (place = 14 /\ taken)
    BY <1>6 DEF DevSynced, Hunting
  <2>2. CASE place = 0
    BY <1>1, <1>2, <1>3, <1>4, <1>6, <2>2 DEF DevSynced, Hunting, Told
  <2>3. CASE place = 14 /\ taken
    BY <1>1, <1>2, <1>3, <1>4, <1>6, <2>3 DEF DevSynced, Hunting
  <2> QED
    BY <2>1, <2>2, <2>3
<1>7. CASE Bot # 0
  <2>1. begun /\ Bot = place /\ place < 14 /\ (Bot >= 7 => Count = 2)
    BY <1>7 DEF DevSynced, Hunting, Told
  <2>2. ~Ends /\ place' = Bot + 1 /\ begun'
    BY <1>2, <2>1
  <2>3. CASE Bot = 13
    <3>1. v = 13 /\ Count = 2 /\ Bot' = 0
      BY <1>3, <1>4, <2>1, <2>3
    <3>2. LastByte(Bot, v) /\ ~TooLong(Bot)
      BY <2>3, <3>1 DEF LastByte, TooLong, CR
    <3>3. Bot > 2 * Count + 8
      BY <2>3, <3>1
    <3>4. Matches(v, TRUE)
      BY <2>1, <3>2, <3>3 DEF Matches, Follows
    <3> QED
      BY <1>2, <2>2, <2>3, <3>1, <3>4 DEF DevSynced, Hunting
  <2>4. CASE Bot # 13
    <3>1. Bot' = Bot + 1
      BY <1>1, <1>3, <1>4, <1>7, <2>1, <2>4
    <3>2. Bot' >= 7 => Count' = 2
      BY <1>1, <1>3, <1>5, <2>1, <3>1
    <3>3. place' < 14 /\ Bot' # 0
      BY <1>1, <2>1, <2>2, <2>4, <3>1
    <3> QED
      BY <1>2, <2>2, <3>1, <3>2, <3>3 DEF DevSynced, Hunting, Told
  <2> QED
    BY <2>3, <2>4
<1> QED
  BY <1>6, <1>7

\* A parser in step stays in step, and the frame it is in is accepted.
LEMMA StaysInStep ==
  ASSUME DevTypeOK, NEW v \in DevByte, DevReceive(v), DevSynced
  PROVE  DevSynced' /\ (refused' = 0 \/ refused' = refused)
<1>1. DevSynced' /\ (Ends => taken \/ Matches(v, TRUE))
  BY DevNumbers, HeadInStep, MotionInStep, GasInStep
<1> QED
  BY <1>1, Received

\* Out of step: the head's parser is back in step after the frame under way.
LEMMA HeadAstray ==
  ASSUME DevTypeOK, NEW v \in DevByte, DevReceive(v), port = "head", simple, ~DevSynced,
         Fits, DevAstray
  PROVE  /\ ~DevSynced' => refused' = 0 /\ (Bot' >= 2 => Since' <= Bot' - 2)
         /\ refused' <= 1
<1>1. size = 23 /\ place \in Nat /\ place <= 22 /\ Bot \in Nat /\ Bot < 23 /\ refused = 0
  BY DevNumbers DEF Fits, DevAstray
<1>2. /\ port' = "head" /\ Bot' = DevBot(Bot, v)
      /\ IF place < 22 THEN place' = place + 1 ELSE place' = 0
      /\ Ends <=> ~(place < 22)
      /\ sound' <=> sound \/ Ends
      /\ refused' = 0 \/ (refused' = 1 /\ Ends /\ sound)
  <2>1. 23 - 1 = 22 /\ 0 + 1 = 1
    OBVIOUS
  <2> QED
    BY <1>1, <2>1, Received
<1>3. Bot' = IF Bot = 0 THEN IF v = 72 THEN 1 ELSE 0
             ELSE IF Bot = 1 THEN IF v = 68 THEN 2 ELSE 1
             ELSE IF Bot >= 22 THEN 0 ELSE Bot + 1
  BY <1>1, <1>2, HeadBot
<1>4. CASE Bot <= 1
  <2>1. place # 0 /\ ~(place = 1 /\ Bot = 1)
    BY <1>4 DEF DevSynced, Hunting
  <2>2. Bot' \in {0, 1}
    <3>1. CASE Bot = 0
      BY <1>3, <3>1
    <3>2. CASE Bot = 1
      <4>1. v # 68
        BY <2>1, <3>2, Received, SaidHead
      <4> QED
        BY <1>3, <3>2, <4>1
    <3> QED
      BY <1>1, <1>4, <3>1, <3>2
  <2>3. Ends => DevSynced'
    <3>1. Ends => place' = 0
      BY <1>2
    <3>2. Bot' <= 1 /\ port' = "head"
      BY <1>2, <2>2
    <3> QED
      BY <3>1, <3>2 DEF DevSynced, Hunting
  <2> QED
    BY <1>2, <2>2, <2>3
<1>5. CASE Bot >= 2
  <2>1. Since <= Bot - 2
    BY <1>5 DEF DevAstray
  <2>2. ~(Ends /\ sound)
    <3> SUFFICES ASSUME Ends, sound PROVE FALSE
      OBVIOUS
    <3>1. place = 22 /\ Since = place
      BY <1>1, <1>2 DEF Since
    <3> QED
      BY <1>1, <2>1, <3>1
  <2>3. refused' = 0
    BY <1>2, <2>2
  <2>4. ASSUME Bot' >= 2 PROVE Since' <= Bot' - 2
    <3>1. Bot' = Bot + 1
      BY <1>1, <1>3, <1>5, <2>4
    <3>2. CASE Ends
      <4>1. Since' = 0
        BY <1>2, <3>2 DEF Since
      <4> QED
        BY <1>1, <1>5, <3>1, <4>1
    <3>3. CASE ~Ends
      <4>1. Since' = IF sound THEN place + 1 ELSE 0
        BY <1>2, <3>3 DEF Since
      <4>2. Since = IF sound THEN place ELSE 0
        BY DEF Since
      <4> QED
        BY <1>1, <1>5, <2>1, <3>1, <4>1, <4>2
    <3> QED
      BY <3>2, <3>3
  <2> QED
    BY <2>3, <2>4
<1> QED
  BY <1>1, <1>4, <1>5

\* So is the sensor's: its frame ends with a carriage return.
LEMMA GasAstray ==
  ASSUME DevTypeOK, NEW v \in DevByte, DevReceive(v), port = "gas", GasText
  PROVE  /\ GasText'
         /\ sound /\ Ends => DevSynced'
<1>1. size = 15 /\ place \in Nat /\ place <= 14 /\ Bot \in Nat /\ Count \in Int
  BY DevNumbers
<1>2. /\ port' = "gas" /\ Bot' = DevBot(Bot, v)
      /\ IF place < 14 THEN place' = place + 1 ELSE place' = 0
      /\ Ends <=> ~(place < 14)
      /\ sound' <=> sound \/ Ends
  <2>1. 15 - 1 = 14
    OBVIOUS
  <2> QED
    BY <1>1, <2>1, Received
<1>3. /\ place = 0 => v = 58
      /\ place # 0 => v # 58
      /\ place = 13 <=> v = 13
  BY Received, SaidGas
<1>4. Bot' = IF Bot = 0 THEN IF v = 58 THEN 1 ELSE 0
             ELSE IF Bot < 7 THEN Bot + 1
             ELSE IF Count > 12 \/ v = 13 THEN 0 ELSE Bot + 1
  BY <1>1, <1>2, GasBot
<1>5. CASE Ends
  <2>1. place' = 0 /\ place = 14
    BY <1>1, <1>2, <1>5
  <2>2. Bot' \in Nat
    BY <1>1, <1>4
  <2>3. GasText'
    BY <2>1, <2>2 DEF GasText
  <2>4. ASSUME sound PROVE DevSynced'
    <3>1. Bot = 0
      BY <2>1, <2>4 DEF GasText
    <3>2. Bot' = 0
      BY <1>3, <1>4, <2>1, <3>1
    <3> QED
      BY <1>2, <2>1, <3>2 DEF DevSynced, Hunting
  <2> QED
    BY <2>3, <2>4
<1>6. CASE ~Ends
  <2> SUFFICES ASSUME sound PROVE Bot' = 0 \/ (place' < 14 /\ Bot' >= place')
    BY <1>2, <1>6 DEF GasText
  <2>1. place < 14 /\ place' = place + 1 /\ (Bot = 0 \/ Bot >= place)
    BY <1>2, <1>6 DEF GasText
  <2>2. CASE Bot = 0
    <3>1. place # 0 => Bot' = 0
      BY <1>3, <1>4, <2>2
    <3>2. place = 0 => Bot' = 1 /\ place' = 1
      BY <1>3, <1>4, <2>1, <2>2
    <3> QED
      BY <3>1, <3>2
  <2>3. CASE Bot # 0
    <3>1. Bot' = 0 \/ Bot' = Bot + 1
      BY <1>4, <2>3
    <3>2. place = 13 => Bot' = 0
      BY <1>1, <1>3, <1>4, <2>1, <2>3
    <3>3. place # 13 => place' < 14
      BY <1>1, <2>1
    <3>4. Bot + 1 >= place + 1
      BY <1>1, <2>1, <2>3
    <3> QED
      BY <2>1, <3>1, <3>2, <3>3, <3>4
  <2> QED
    BY <2>2, <2>3
<1> QED
  BY <1>5, <1>6

\* A false frame of a drive has swallowed no more bytes than it holds, its header
\* apart, and ends after 32 of them.
LEMMA MotionAstray ==
  ASSUME DevTypeOK, NEW v \in DevByte, DevReceive(v), port = "motion", simple, ~DevSynced,
         Fits, DevAstray
  PROVE  /\ ~DevSynced' => IF Bot' = 0 THEN refused' <= 3
                           ELSE 8 * refused' + Since' <= Bot' - 1
         /\ refused' <= 4
<1>1. /\ size \in Nat /\ size >= 8 /\ place \in Nat /\ place <= size - 1
      /\ Bot \in Nat /\ Bot < 32 /\ Count \in Int /\ refused \in Nat
  BY DevNumbers DEF Fits
<1>2. /\ port' = "motion" /\ Bot' = DevBot(Bot, v)
      /\ IF place < size - 1 THEN place' = place + 1 ELSE place' = 0
      /\ Ends <=> ~(place < size - 1)
      /\ sound' <=> sound \/ Ends
      /\ refused' = 0 \/ refused' = refused \/ (refused' = refused + 1 /\ Ends /\ sound)
  BY Received
<1>3. Bot' = IF Bot = 0 THEN IF v = 165 THEN 1 ELSE 0
             ELSE IF Bot < 6 THEN Bot + 1
             ELSE IF \/ FrameSize(Count) > 32
                     \/ Bot >= IF Only THEN 7 ELSE FrameSize(Count) - 1
                  THEN 0 ELSE Bot + 1
  BY <1>1, <1>2, MotionBot
<1>4. place' = 0 /\ Bot' = 0 => DevSynced'
  BY <1>2 DEF DevSynced, Hunting
<1>5. CASE Bot = 0
  <2>1. place # 0 /\ refused <= 3
    BY <1>5 DEF DevSynced, Hunting, DevAstray
  <2>2. Bot' = 0
    BY <1>3, <1>5, <2>1, Received, SaidMotion
  <2>3. Ends => DevSynced'
    BY <1>2, <1>4, <2>2
  <2> QED
    BY <1>1, <1>2, <2>1, <2>2, <2>3
<1>6. CASE Bot # 0
  <2>1. Bot' = 0 \/ Bot' = Bot + 1
    BY <1>3, <1>6
  <2>2. 8 * refused + Since <= Bot - 1
    BY <1>6 DEF DevAstray
  <2>3. Since = IF sound THEN place ELSE 0
    BY DEF Since
  <2>4. CASE Ends
    <3>1. place = size - 1 /\ place' = 0 /\ Since' = 0
      BY <1>1, <1>2, <2>4 DEF Since
    <3>2. 8 * refused <= Bot - 1 /\ (sound => 8 * (refused + 1) <= Bot)
      BY <1>1, <2>2, <2>3, <3>1
    <3>3. PICK k \in Nat : k = refused'
      BY <1>1, <1>2
    <3>4. 8 * k <= Bot
      <4>1. refused' = 0 \/ refused' = refused \/ (refused' = refused + 1 /\ sound)
        BY <1>2
      <4>2. CASE k = 0
        BY <1>1, <4>2
      <4>3. CASE k = refused
        BY <1>1, <3>2, <4>3
      <4>4. CASE k = refused + 1 /\ sound
        BY <1>1, <3>2, <4>4
      <4> QED
        BY <3>3, <4>1, <4>2, <4>3, <4>4
    <3>5. k <= 4
      BY <1>1, <3>4
    <3>6. 8 * k + 0 <= (Bot + 1) - 1
      BY <1>1, <3>4
    <3>7. ASSUME Bot' = Bot + 1 PROVE 8 * refused' + Since' <= Bot' - 1
      BY <3>1, <3>3, <3>6, <3>7, Zenon
    <3> QED
      BY <1>1, <1>4, <2>1, <3>1, <3>3, <3>5, <3>7
  <2>5. CASE ~Ends
    <3>1. refused' = 0 \/ refused' = refused
      BY <1>2, <2>5
    <3>2. Since' = IF sound THEN place + 1 ELSE 0
      BY <1>2, <2>5 DEF Since
    <3>3. PICK k \in Nat : k = refused' /\ k <= refused
      BY <1>1, <3>1
    <3>4. PICK s \in Nat : s = Since' /\ s <= Since + 1
      BY <1>1, <2>3, <3>2
    <3>7. PICK n \in Nat : n = Since
      BY <1>1, <2>3
    <3>5. 8 * k + s <= (Bot + 1) - 1 /\ k <= 3
      <4>1. 8 * refused + n <= Bot - 1 /\ k <= refused /\ s <= n + 1
        BY <2>2, <3>3, <3>4, <3>7
      <4> QED
        BY <1>1, <4>1
    <3>6. ASSUME Bot' = Bot + 1 PROVE 8 * refused' + Since' <= Bot' - 1
      BY <3>3, <3>4, <3>5, <3>6, Zenon
    <3> QED
      BY <2>1, <3>3, <3>5, <3>6
  <2> QED
    BY <2>4, <2>5
<1> QED
  BY <1>5, <1>6

\* Where a byte goes, noise or not.
LEMMA FitsParse ==
  ASSUME DevTypeOK, Fits, NEW v \in DevByte, NEW g \in BOOLEAN, DevParse(v, g)
  PROVE  Fits'
<1>1. port' = port /\ Bot' = DevBot(Bot, v) /\ Bot \in Nat /\ Count \in Int
  BY DevNumbers DEF DevParse
<1>2. CASE port = "head"
  <2>1. Bot' < 23
    BY <1>1, <1>2, HeadBot DEF Fits
  <2> QED
    BY <1>1, <1>2, <2>1 DEF Fits
<1>3. CASE port = "motion"
  <2>1. Bot' < 32
    BY <1>1, <1>3, MotionBot, WordsFit DEF Fits
  <2> QED
    BY <1>1, <1>3, <2>1 DEF Fits
<1>4. CASE port = "gas"
  BY <1>1, <1>4 DEF Fits
<1> QED
  BY <1>2, <1>3, <1>4, DevNumbers

LEMMA SameStep ==
  ASSUME UNCHANGED <<port, Bot, Only, Count, begun, size, place, taken>>
  PROVE  DevSynced' <=> DevSynced
  BY DEF DevSynced, Hunting, Told

\* A frame's own byte.
LEMMA ReceiveInv ==
  ASSUME DevInv, NEW v \in DevByte, DevReceive(v), DevTypeOK'
  PROVE  DevInv'
<1> USE DEF DevInv
<1>1. Fits'
  BY FitsParse DEF DevReceive
<1>2. DevAmid'
  BY Received DEF DevAmid
<1>3. GasText'
  BY Received, GasAstray DEF GasText
<1>4. GasHeard'
  <2>1. heard' => ~noise'
    BY Received DEF GasHeard
  <2>2. heard' /\ port' = "gas" => DevSynced'
    BY Received, GasAstray, StaysInStep DEF GasHeard
  <2> QED
    BY <2>1, <2>2 DEF GasHeard
<1>5. InLine'
  BY Received, StaysInStep DEF InLine
<1>6. DevAstray' /\ DevResynchronises'
  <2>0. (32 - 1) \div 8 + 1 = 4
    OBVIOUS
  <2> SUFFICES ASSUME simple
               PROVE  /\ ~DevSynced' =>
                           IF port' = "motion"
                           THEN IF Bot' = 0 THEN refused' <= 3
                                ELSE 8 * refused' + Since' <= Bot' - 1
                           ELSE refused' = 0 /\ (port' = "head" /\ Bot' >= 2 => Since' <= Bot' - 2)
                      /\ refused' <= IF port' = "motion" THEN 4 ELSE 1
    BY <2>0, Received DEF DevAstray, DevResynchronises
  <2>1. CASE DevSynced
    <3>1. refused <= IF port = "motion" THEN 4 ELSE 1
      BY <2>0 DEF DevResynchronises
    <3>2. DevSynced' /\ (refused' = 0 \/ refused' = refused)
      BY <2>1, StaysInStep
    <3>3. port' = port
      BY Received
    <3>4. refused' <= IF port = "motion" THEN 4 ELSE 1
      BY <3>1, <3>2
    <3> QED
      BY <3>2, <3>3, <3>4
  <2>2. CASE ~DevSynced /\ port = "head"
    BY <2>2, Received, HeadAstray
  <2>3. CASE ~DevSynced /\ port = "motion"
    BY <2>3, Received, MotionAstray
  <2>4. CASE ~DevSynced /\ port = "gas"
    <3>1. refused = 0
      BY <2>4 DEF DevAstray
    <3>2. port' = "gas" /\ (sound /\ Ends => DevSynced')
      BY <2>4, Received, GasAstray
    <3>3. refused' = 0 \/ (refused' = 1 /\ Ends /\ sound)
      <4>1. 0 + 1 = 1
        OBVIOUS
      <4> QED
        BY <3>1, <4>1, Received
    <3> QED
      BY <3>2, <3>3
  <2> QED
    BY <2>1, <2>2, <2>3, <2>4, DevNumbers
<1> QED
  BY <1>1, <1>2, <1>3, <1>4, <1>5, <1>6

\* Noise: no frame counts as refused yet.
LEMMA DevNoise ==
  ASSUME DevInv, DevTypeOK', Fits', noise, noise', ~quiet',
         UNCHANGED <<port, simple, heard, refused>>, sound' => place' = 0
  PROVE  DevInv'
<1> USE DEF DevInv
<1>1. refused = 0 /\ refused' = 0 /\ ~heard'
  BY DEF DevAmid, GasHeard
<1>2. Bot' \in Nat /\ (sound' => place' = 0) /\ Since' = 0
  BY DEF DevTypeOK, Since
<1>3. DevAmid' /\ GasHeard' /\ InLine'
  BY <1>1 DEF DevAmid, GasHeard, InLine
<1>4. GasText'
  BY <1>2 DEF GasText
<1>5. DevAstray'
  <2>1. Bot' # 0 => 8 * refused' + Since' <= Bot' - 1
    <3>1. \A k \in Nat : k # 0 => 8 * 0 + 0 <= k - 1
      OBVIOUS
    <3> QED
      BY <1>1, <1>2, <3>1
  <2>2. Bot' >= 2 => Since' <= Bot' - 2
    <3>1. \A k \in Nat : k >= 2 => 0 <= k - 2
      OBVIOUS
    <3> QED
      BY <1>2, <3>1
  <2> QED
    BY <1>1, <2>1, <2>2 DEF DevAstray
<1>6. DevResynchronises'
  BY <1>1 DEF DevResynchronises
<1> QED
  BY <1>3, <1>4, <1>5, <1>6

LEMMA DevInvInit == DevInit => DevInv
<1> SUFFICES ASSUME DevInit PROVE DevInv
  OBVIOUS
<1>1. port \in DevPorts /\ size \in Sizes /\ size \in Nat /\ size >= 8
  BY DeviceAssumption DEF DevInit, Sizes
<1>2. DevTypeOK
  <2>1. place \in 0 .. (size - 1) /\ refused \in 0 .. MaxRefused
    BY <1>1, DeviceAssumption DEF DevInit
  <2>2. Bot \in Nat /\ Count \in Int
    BY DEF DevInit
  <2>3. {Only, Rx_OK, begun, sound, taken, simple, noise, quiet, heard} \subseteq BOOLEAN
    BY DEF DevInit
  <2> QED
    BY <1>1, <2>1, <2>2, <2>3 DEF DevTypeOK
<1>3. DevSynced
  BY DEF DevInit, DevSynced, Hunting
<1>4. Fits /\ DevAmid /\ GasText /\ GasHeard /\ InLine /\ DevAstray
  BY <1>3 DEF DevInit, Fits, DevAmid, GasText, GasHeard, InLine, DevAstray
<1>5. DevResynchronises
  BY DEF DevInit, DevResynchronises
<1> QED
  BY <1>2, <1>4, <1>5 DEF DevInv

LEMMA DevInvStep == DevInv /\ [DevNext]_devVars => DevInv'
<1> SUFFICES ASSUME DevInv, [DevNext]_devVars PROVE DevInv'
  OBVIOUS
<1>0. DevTypeOK /\ Fits /\ DevTypeOK'
  BY DevTypeStep DEF DevInv
<1>1. ASSUME NEW v \in DevByte, DevReceive(v) PROVE DevInv'
  BY <1>0, <1>1, ReceiveInv
<1>2. ASSUME NEW v \in DevByte, DevAlter(v) PROVE DevInv'
  <2>1. port' = port /\ Fits'
    BY <1>0, <1>2, FitsParse DEF DevAlter, DevParse
  <2>2. noise /\ noise' /\ ~quiet' /\ UNCHANGED <<simple, heard, refused>>
    BY <1>2 DEF DevAlter, Noise
  <2>3. sound' => place' = 0
    <3>1. sound' => Ends
      BY <1>2 DEF DevAlter
    <3>2. Ends => ~(place < size - 1)
      BY <1>0, DevNumbers DEF Ends
    <3>3. IF place < size - 1 THEN place' = place + 1 /\ size' = size ELSE place' = 0
      BY <1>0, <1>2, <2>1, PassesType DEF DevAlter
    <3> QED
      BY <3>1, <3>2, <3>3
  <2> QED
    BY <1>0, <2>1, <2>2, <2>3, DevNoise
<1>3. ASSUME NEW v \in DevByte, DevInsert(v) PROVE DevInv'
  <2>1. port' = port /\ Fits'
    BY <1>0, <1>3, FitsParse DEF DevInsert, DevParse
  <2>2. /\ noise /\ noise' /\ ~quiet' /\ UNCHANGED <<simple, heard, refused>>
        /\ sound' => place' = 0
    BY <1>3 DEF DevInsert, Noise
  <2> QED
    BY <1>0, <2>1, <2>2, DevNoise
<1>4. CASE DevLose
  <2>1. UNCHANGED <<port, Bot, simple, noise, heard, refused>> /\ noise /\ ~quiet'
    BY <1>4 DEF DevLose, Noise
  <2>2. Fits'
    BY <1>0, <2>1 DEF Fits
  <2>3. sound' => place' = 0
    <3>1. sound' => Ends
      BY <1>4 DEF DevLose
    <3>2. Ends => ~(place < size - 1)
      BY <1>0, DevNumbers DEF Ends
    <3>3. IF place < size - 1 THEN place' = place + 1 /\ size' = size ELSE place' = 0
      BY <1>0, <1>4, <2>1, PassesType DEF DevLose
    <3> QED
      BY <3>1, <3>2, <3>3
  <2> QED
    BY <1>0, <2>1, <2>2, <2>3, DevNoise
<1>5. CASE DevQuiet
  <2>1. /\ UNCHANGED <<port, Bot, Only, Count, begun, size, place, sound, taken, simple, quiet,
                       heard, refused>>
        /\ noise /\ ~noise'
    BY <1>5 DEF DevQuiet
  <2>2. DevSynced' <=> DevSynced
    BY <2>1, SameStep
  <2> QED
    BY <1>0, <2>1, <2>2 DEF DevInv, Fits, DevAmid, GasText, GasHeard, InLine, DevAstray,
                             Since, DevResynchronises
<1>6. CASE Use \/ UNCHANGED devVars
  <2>1. UNCHANGED <<port, Bot, Only, Count, begun, link>>
    BY <1>6 DEF Use, devVars
  <2>2. UNCHANGED <<port, Bot, Only, Count, begun, size, place, sound, taken, simple, noise,
                    quiet, heard, refused>>
    BY <2>1 DEF link
  <2>3. DevSynced' <=> DevSynced
    BY <2>2, SameStep
  <2> QED
    BY <1>0, <2>2, <2>3 DEF DevInv, Fits, DevAmid, GasText, GasHeard, InLine, DevAstray,
                             Since, DevResynchronises
<1> QED
  BY <1>1, <1>2, <1>3, <1>4, <1>5, <1>6 DEF DevNext

\* The invariant of the boards' parsers.
THEOREM BoardsAreSound == DevSpec => []DevInv
  BY DevInvInit, DevInvStep, PTL DEF DevSpec

\* On a line without noise every frame of a board is accepted with its last byte,
\* whatever it carries.
THEOREM EveryFrameCounts == DevSpec => []EveryBoardFrameAccepted
<1>1. DevInv => EveryBoardFrameAccepted
  BY DEF DevInv, InLine, EveryBoardFrameAccepted
<1> QED
  BY <1>1, BoardsAreSound, PTL

\* After noise the head's and the sensor's parsers lose no frame but the one under
\* way, a drive's at most four.
THEOREM BoardsBackInStep == DevSpec => []DevResynchronises
<1>1. DevInv => DevResynchronises
  BY DEF DevInv
<1> QED
  BY <1>1, BoardsAreSound, PTL

\* Bytes are stored below the longest frame's length, in noise too but for the
\* sensor's text, which the first frame after the noise brings back.
THEOREM BytesStayInside == DevSpec => []InsideFrame
<1>1. DevInv => InsideFrame
  <2> SUFFICES ASSUME DevInv PROVE InsideFrame
    OBVIOUS
  <2>1. DevTypeOK /\ Fits /\ GasHeard
    BY DEF DevInv
  <2>2. ASSUME port = "gas", heard PROVE Bot < 14
    <3>1. DevSynced
      BY <2>1, <2>2 DEF GasHeard
    <3>2. Bot = 0 \/ (Bot = place /\ place < 14)
      BY <2>2, <3>1 DEF DevSynced, Hunting, Told
    <3> QED
      BY <3>2
  <2> QED
    BY <2>1, <2>2, DevNumbers DEF Fits, InsideFrame
<1> QED
  BY <1>1, BoardsAreSound, PTL

-----------------------------------------------------------------------------
(* The buffer of a network client.  At any moment the reader has the bytes *)
(* up to fresh; the others lie between its index and HeadAddr, in one      *)
(* piece or, after a restart, in two, with old bytes between them.         *)

\* The index the reader goes on with, and whether it still has to come to the
\* end of the buffer to get there.
ReadAt == IF held = Ring!None THEN EndAddr ELSE Ring!NextIndex(held)
Behind == behind /\ held # MEMSIZE - 1

\* Bytes that lie behind HeadAddr.
Storing == {"test", "restarted", "advance"}
Stored == IF pc \in Storing THEN received - len ELSE received

RingSteps ==
  /\ pc = "claim" => ~used /\ clients < MaxClients
  /\ pc \in Storing => used
  /\ pc \in Storing \cup {"claim"} => len \in 1 .. MaxLen /\ len <= received
  /\ pc = "restarted" => HeadAddr = 0
  /\ pc = "advance" => HeadAddr + len < MEMSIZE
  /\ pc = "put" /\ "state" \notin todo => ~used

\* The node is given back, and free, as GetMem expects it.
RingGiven ==
  ~strayed =>
    /\ pc = "put" => /\ held = Ring!None
                     /\ "head" \notin todo => HeadAddr = 0
                     /\ "end" \notin todo => EndAddr = 0
    /\ ~used /\ pc # "put" =>
         /\ HeadAddr = 0 /\ EndAddr = 0 /\ held = Ring!None
         /\ fresh = 0 /\ ~behind
         /\ received = IF pc = "claim" THEN len ELSE 0

\* The slots from one index up to another hold the bytes from number first on.
Run(from, to, first) ==
  \A i \in Ring!Index : from <= i /\ i < to => DataAddr[i] = first + (i - from)

\* The piece before q, old bytes behind it, the rest at the start of the buffer.
Pieces(q) ==
  /\ fresh + (q - ReadAt) + HeadAddr = Stored
  /\ Run(ReadAt, q, fresh + 1)
  /\ \A i \in Ring!Index : q <= i => DataAddr[i] <= fresh + (q - ReadAt)
  /\ Run(0, HeadAddr, fresh + (q - ReadAt) + 1)

\* The buffer is a client's, no byte was overwritten, no PutMem raced.
Good == used /\ pc # "put" /\ ~lapped /\ ~strayed

Loaded == Good /\ held # Ring!None => held = EndAddr /\ (behind \/ held < HeadAddr)

Newest ==
  Good =>
    /\ fresh <= Stored
    /\ \A i \in Ring!Index :
         DataAddr[i] <= IF pc = "advance" THEN received ELSE Stored

Coming == Good /\ pc = "advance" => Run(HeadAddr, HeadAddr + len, Stored + 1)

Apart == Good /\ behind => /\ HeadAddr < EndAddr
                           /\ pc = "advance" => HeadAddr + len <= EndAddr

InOnePiece ==
  Good /\ ~Behind => /\ ReadAt <= HeadAddr /\ Stored - fresh = HeadAddr - ReadAt
                     /\ Run(ReadAt, HeadAddr, fresh + 1)

InTwo == Good /\ Behind => \E q \in ReadAt .. MEMSIZE : Pieces(q)

RingInv ==
  /\ Ring!TypeOK /\ RingSteps /\ RingGiven
  /\ Loaded /\ Newest /\ Coming /\ Apart /\ InOnePiece /\ InTwo

LEMMA RingSize ==
  /\ MEMSIZE \in Nat /\ MaxBytes \in Nat /\ MaxClients \in Nat
  /\ MaxLen \in Nat /\ 1 <= MaxLen /\ MaxLen < MEMSIZE
  BY RingAssumption

LEMMA RingTypeInit == Ring!Init => Ring!TypeOK /\ RingSteps /\ RingGiven
<1> SUFFICES ASSUME Ring!Init PROVE Ring!TypeOK /\ RingSteps /\ RingGiven
  OBVIOUS
<1> USE RingSize DEF Ring!Init
<1>1. 0 \in Ring!Index /\ 0 \in 0 .. MaxBytes /\ 0 \in 0 .. MaxLen /\ 0 \in 0 .. MaxClients
      /\ Ring!None \in 0 .. MEMSIZE
  BY DEF Ring!Index, Ring!None
<1>2. DataAddr \in [Ring!Index -> 0 .. MaxBytes]
  BY <1>1 DEF Ring!Empty
<1>3. Ring!TypeOK
  BY <1>1, <1>2 DEF Ring!TypeOK
<1>4. RingSteps /\ RingGiven
  BY DEF RingSteps, RingGiven, Storing
<1> QED
  BY <1>3, <1>4

LEMMA RingTypeStep == Ring!TypeOK /\ RingSteps /\ [Ring!Next]_ringVars => Ring!TypeOK'
<1> SUFFICES ASSUME Ring!TypeOK, RingSteps, [Ring!Next]_ringVars PROVE Ring!TypeOK'
  OBVIOUS
<1> USE RingSize
<1>1. ASSUME NEW n \in 1 .. MaxLen, Ring!ReadChunk(n) PROVE Ring!TypeOK'
  <2>1. /\ UNCHANGED <<HeadAddr, EndAddr, DataAddr, used, todo, held, clients, fresh, behind,
                       lapped, strayed>>
        /\ len' = n /\ received' = received + n /\ received + n <= MaxBytes
        /\ pc' = "test" \/ pc' = "claim"
    BY <1>1 DEF Ring!ReadChunk, Ring!node
  <2>2. len' \in 0 .. MaxLen /\ received' \in 0 .. MaxBytes
    BY <2>1 DEF Ring!TypeOK
  <2> QED
    BY <2>1, <2>2 DEF Ring!TypeOK
<1>2. CASE Ring!GetMem
  <2>1. DataAddr' \in [Ring!Index -> 0 .. MaxBytes]
    BY <1>2 DEF Ring!GetMem, Ring!Empty
  <2>2. clients \in 0 .. MaxClients /\ clients < MaxClients
    BY <1>2 DEF Ring!GetMem, Ring!TypeOK, RingSteps
  <2>3. clients' \in 0 .. MaxClients
    BY <1>2, <2>2 DEF Ring!GetMem
  <2> QED
    BY <1>2, <2>1, <2>3 DEF Ring!GetMem, Ring!TypeOK
<1>3. ASSUME NEW n \in Ring!Index, Ring!Copy(n), pc \in {"test", "restarted"}
      PROVE  DataAddr' \in [Ring!Index -> 0 .. MaxBytes]
  <2>1. received \in 0 .. MaxBytes /\ len \in 1 .. MaxLen /\ len <= received
    BY <1>3 DEF RingSteps, Storing, Ring!TypeOK
  <2>2. \A i \in Ring!Index : i \in n .. (n + len - 1) =>
          received - len + 1 + (i - n) \in 0 .. MaxBytes
    BY <2>1 DEF Ring!Index
  <2>3. DataAddr' = [i \in Ring!Index |-> IF i \in n .. (n + len - 1)
                                          THEN received - len + 1 + (i - n) ELSE DataAddr[i]]
    BY <1>3 DEF Ring!Copy
  <2>4. \A i \in Ring!Index : DataAddr[i] \in 0 .. MaxBytes
    BY DEF Ring!TypeOK
  <2> QED
    BY <2>2, <2>3, <2>4
<1>4. CASE Ring!StoreWhole
  BY <1>3, <1>4 DEF Ring!StoreWhole, Ring!TypeOK, Ring!Overtakes
<1>5. CASE Ring!Restart
  BY <1>5 DEF Ring!Restart, Ring!TypeOK, Ring!Index
<1>6. CASE Ring!StoreAtStart
  BY <1>3, <1>6 DEF Ring!StoreAtStart, Ring!TypeOK, Ring!Overtakes, Ring!Index
<1>7. CASE Ring!Advance
  BY <1>7 DEF Ring!Advance, Ring!TypeOK, RingSteps, Ring!Index
<1>8. CASE Ring!Close
  BY <1>8 DEF Ring!Close, Ring!TypeOK, Ring!node
<1>9. ASSUME NEW x \in Ring!Resets, Ring!PutMem(x) PROVE Ring!TypeOK'
  <2>1. /\ UNCHANGED <<DataAddr, len, held, clients, strayed>> /\ todo' = todo \ {x}
        /\ HeadAddr' \in {0, HeadAddr} /\ EndAddr' \in {0, EndAddr}
    BY <1>9 DEF Ring!PutMem
  <2>2. HeadAddr' \in Ring!Index /\ EndAddr' \in Ring!Index
    BY <2>1 DEF Ring!TypeOK, Ring!Index
  <2>3. pc' \in {pc, "read"} /\ received' \in {0, received} /\ fresh' \in {0, fresh}
    BY <1>9 DEF Ring!PutMem
  <2>4. received' \in 0 .. MaxBytes /\ fresh' \in 0 .. MaxBytes
    BY <2>3 DEF Ring!TypeOK
  <2>5. used' \in BOOLEAN
    BY <1>9 DEF Ring!PutMem, Ring!TypeOK
  <2>6. behind' \in BOOLEAN /\ lapped' \in BOOLEAN
    BY <1>9 DEF Ring!PutMem, Ring!TypeOK
  <2> QED
    BY <2>1, <2>2, <2>3, <2>4, <2>5, <2>6 DEF Ring!TypeOK
<1>10. CASE Ring!Load
  <2>1. /\ UNCHANGED <<HeadAddr, EndAddr, DataAddr, used, pc, len, todo, clients, received,
                       behind, lapped>>
        /\ held' = EndAddr
    BY <1>10 DEF Ring!Load, Ring!node, Ring!thread
  <2>2. held' \in 0 .. MEMSIZE
    BY <2>1 DEF Ring!TypeOK, Ring!Index
  <2>3. fresh' = fresh \/ fresh' = DataAddr[EndAddr]
    BY <1>10 DEF Ring!Load
  <2>4. fresh' \in 0 .. MaxBytes
    BY <2>3 DEF Ring!TypeOK
  <2>5. strayed' \in BOOLEAN
    BY <1>10 DEF Ring!Load, Ring!TypeOK
  <2> QED
    BY <2>1, <2>2, <2>4, <2>5 DEF Ring!TypeOK
<1>11. CASE Ring!Read_Byte
  BY <1>11 DEF Ring!Read_Byte, Ring!NextIndex, Ring!TypeOK, Ring!Index, Ring!thread, Ring!None
<1>12. CASE Ring!Read_Nothing \/ UNCHANGED ringVars
  BY <1>12 DEF Ring!Read_Nothing, Ring!vars, Ring!node, Ring!thread, Ring!history, ringVars,
               Ring!TypeOK
<1> QED
  BY <1>1, <1>2, <1>4, <1>5, <1>6, <1>7, <1>8, <1>9, <1>10, <1>11, <1>12
     DEF Ring!Next, Ring!ReadThread

LEMMA RingStepsStep == Ring!TypeOK /\ RingSteps /\ [Ring!Next]_ringVars => RingSteps'
<1> SUFFICES ASSUME Ring!TypeOK, RingSteps, [Ring!Next]_ringVars PROVE RingSteps'
  OBVIOUS
<1> USE RingSize DEF RingSteps, Storing, Ring!TypeOK
<1>1. ASSUME NEW n \in 1 .. MaxLen, Ring!ReadChunk(n) PROVE RingSteps'
  BY <1>1 DEF Ring!ReadChunk, Ring!node
<1>2. CASE Ring!GetMem
  BY <1>2 DEF Ring!GetMem
<1>3. CASE Ring!StoreWhole \/ Ring!Restart \/ Ring!StoreAtStart \/ Ring!Advance
  BY <1>3 DEF Ring!StoreWhole, Ring!Restart, Ring!StoreAtStart, Ring!Advance, Ring!Fits
<1>4. CASE Ring!Close
  BY <1>4 DEF Ring!Close, Ring!Resets
<1>5. ASSUME NEW x \in Ring!Resets, Ring!PutMem(x) PROVE RingSteps'
  BY <1>5 DEF Ring!PutMem
<1>6. CASE Ring!Load \/ Ring!Read_Byte
  BY <1>6 DEF Ring!Load, Ring!Read_Byte, Ring!node, Ring!thread
<1>7. CASE Ring!Read_Nothing \/ UNCHANGED ringVars
  BY <1>7 DEF Ring!Read_Nothing, Ring!vars, Ring!node, Ring!thread, Ring!history, ringVars
<1> QED
  BY <1>1, <1>2, <1>3, <1>4, <1>5, <1>6, <1>7 DEF Ring!Next, Ring!ReadThread

LEMMA RingGivenStep ==
  Ring!TypeOK /\ RingSteps /\ RingGiven /\ [Ring!Next]_ringVars => RingGiven'
<1> SUFFICES ASSUME Ring!TypeOK, RingSteps, RingGiven, [Ring!Next]_ringVars, ~strayed'
             PROVE  RingGiven'
  BY DEF RingGiven
<1> USE RingSize DEF RingSteps, RingGiven, Storing, Ring!TypeOK
<1>1. ASSUME NEW n \in 1 .. MaxLen, Ring!ReadChunk(n) PROVE RingGiven'
  BY <1>1 DEF Ring!ReadChunk, Ring!node
<1>2. CASE Ring!GetMem
  BY <1>2 DEF Ring!GetMem
<1>3. CASE Ring!StoreWhole \/ Ring!Restart \/ Ring!StoreAtStart \/ Ring!Advance
  BY <1>3 DEF Ring!StoreWhole, Ring!Restart, Ring!StoreAtStart, Ring!Advance
<1>4. CASE Ring!Close
  BY <1>4 DEF Ring!Close, Ring!Resets, Ring!node
<1>5. ASSUME NEW x \in Ring!Resets, Ring!PutMem(x) PROVE RingGiven'
  <2>1. x \in todo /\ todo' = todo \ {x} /\ ~strayed /\ pc = "put" /\ held' = held
    BY <1>5 DEF Ring!PutMem
  <2>2. /\ HeadAddr' = IF x = "head" THEN 0 ELSE HeadAddr
        /\ EndAddr' = IF x = "end" THEN 0 ELSE EndAddr
    BY <1>5 DEF Ring!PutMem
  <2>3. /\ "head" \notin todo' => HeadAddr' = 0
        /\ "end" \notin todo' => EndAddr' = 0
    BY <2>1, <2>2
  <2>4. \/ todo' = {} /\ pc' = "read" /\ received' = 0 /\ fresh' = 0 /\ behind' = FALSE
        \/ todo' # {} /\ pc' = "put"
    BY <1>5 DEF Ring!PutMem
  <2> QED
    BY <2>1, <2>3, <2>4
<1>6. CASE Ring!Load \/ Ring!Read_Byte
  BY <1>6 DEF Ring!Load, Ring!Read_Byte, Ring!node, Ring!thread, Ring!None
<1>7. CASE Ring!Read_Nothing \/ UNCHANGED ringVars
  BY <1>7 DEF Ring!Read_Nothing, Ring!vars, Ring!node, Ring!thread, Ring!history, ringVars
<1> QED
  BY <1>1, <1>2, <1>3, <1>4, <1>5, <1>6, <1>7 DEF Ring!Next, Ring!ReadThread


Content == Loaded /\ Newest /\ Coming /\ Apart /\ InOnePiece /\ InTwo

\* The variables as numbers.
LEMMA RingNumbers ==
  ASSUME Ring!TypeOK
  PROVE  /\ HeadAddr \in Nat /\ HeadAddr < MEMSIZE /\ EndAddr \in Nat /\ EndAddr < MEMSIZE
         /\ held \in Nat /\ held <= MEMSIZE /\ Ring!None = MEMSIZE
         /\ len \in Nat /\ received \in Nat /\ fresh \in Nat
         /\ \A i \in Ring!Index : i \in Nat /\ i < MEMSIZE /\ DataAddr[i] \in Nat
         /\ \A i \in Nat : i < MEMSIZE => i \in Ring!Index
         /\ ReadAt \in Nat /\ ReadAt < MEMSIZE
         /\ Stored \in Int
         /\ held = MEMSIZE => ReadAt = EndAddr
         /\ held + 1 < MEMSIZE => ReadAt = held + 1
         /\ held + 1 = MEMSIZE => ReadAt = 0
<1>1. /\ HeadAddr \in Nat /\ HeadAddr < MEMSIZE /\ EndAddr \in Nat /\ EndAddr < MEMSIZE
      /\ held \in Nat /\ held <= MEMSIZE /\ Ring!None = MEMSIZE
      /\ len \in Nat /\ received \in Nat /\ fresh \in Nat
  BY RingSize DEF Ring!TypeOK, Ring!Index, Ring!None
<1>2. /\ \A i \in Ring!Index : i \in Nat /\ i < MEMSIZE /\ DataAddr[i] \in Nat
      /\ \A i \in Nat : i < MEMSIZE => i \in Ring!Index
  BY RingSize DEF Ring!TypeOK, Ring!Index
<1> QED
  BY RingSize, <1>1, <1>2 DEF ReadAt, Ring!NextIndex, Stored

LEMMA ContentInit == Ring!Init => Content
  BY DEF Ring!Init, Content, Good, Loaded, Newest, Coming, Apart, InOnePiece, InTwo

\* What is in the node stays as it is while nothing is stored or read.
LEMMA SameContent ==
  ASSUME Content, UNCHANGED <<HeadAddr, EndAddr, DataAddr, held, fresh, behind>>,
         Stored' = Stored, Good' => Good,
         \/ pc' = pc /\ UNCHANGED <<len, received>>
         \/ {pc, pc'} \cap {"advance"} = {}
  PROVE  Content'
<1>1. ReadAt' = ReadAt /\ Behind' = Behind
  BY DEF ReadAt, Behind, Ring!NextIndex, Ring!None
<1>2. Loaded' /\ Newest' /\ Coming' /\ Apart'
  BY DEF Content, Loaded, Newest, Coming, Apart, Run, Ring!Index
<1>3. InOnePiece' /\ InTwo'
  BY <1>1 DEF Content, InOnePiece, InTwo, Run, Pieces, Ring!Index
<1> QED
  BY <1>2, <1>3 DEF Content

LEMMA ReadChunkContent ==
  ASSUME Ring!TypeOK, RingSteps, Content, NEW n \in 1 .. MaxLen, Ring!ReadChunk(n)
  PROVE  Content'
<1>1. CASE used
  <2>1. /\ pc = "read" /\ pc' = "test" /\ len' = n /\ received' = received + n
        /\ UNCHANGED <<HeadAddr, EndAddr, DataAddr, held, fresh, behind, used, lapped, strayed>>
    BY <1>1 DEF Ring!ReadChunk, Ring!node
  <2>2. Stored' = Stored
    BY <2>1, RingNumbers DEF Stored, Storing
  <2>3. Good' => Good
    BY <2>1 DEF Good
  <2> QED
    BY <2>1, <2>2, <2>3, SameContent
<1>2. CASE ~used
  <2>1. ~Good'
    BY <1>2 DEF Good, Ring!ReadChunk, Ring!node
  <2> QED
    BY <2>1 DEF Content, Loaded, Newest, Coming, Apart, InOnePiece, InTwo
<1> QED
  BY <1>1, <1>2

LEMMA GetMemContent ==
  ASSUME Ring!TypeOK, RingSteps, RingGiven, Content, Ring!GetMem
  PROVE  Content'
<1> SUFFICES ASSUME Good' PROVE Content'
  BY DEF Content, Loaded, Newest, Coming, Apart, InOnePiece, InTwo
<1>1. /\ HeadAddr' = 0 /\ EndAddr' = 0 /\ held' = Ring!None /\ fresh' = 0 /\ ~behind'
      /\ received' = len' /\ pc' = "test" /\ DataAddr' = Ring!Empty
  BY DEF Ring!GetMem, RingGiven, RingSteps, Good
<1>2. Stored' = 0 /\ ReadAt' = 0 /\ ~Behind'
  <2>1. len' = len /\ len \in Nat
    BY RingNumbers DEF Ring!GetMem
  <2>2. Stored' = received' - len'
    BY <1>1 DEF Stored, Storing
  <2>5. received' = len'
    BY <1>1
  <2>4. len - len = 0
    BY <2>1
  <2>6. len' - len' = 0
    BY <2>1, <2>4, Zenon
  <2>3. Stored' = 0
    BY <2>2, <2>5, <2>6, Zenon
  <2>7. ReadAt' = 0
    BY <1>1 DEF ReadAt, Ring!None
  <2> QED
    BY <1>1, <2>3, <2>7 DEF Behind
<1>3. \A i \in Ring!Index : DataAddr'[i] = 0
  BY <1>1 DEF Ring!Empty
<1>4. Loaded' /\ Newest' /\ Coming' /\ Apart'
  BY <1>1, <1>2, <1>3 DEF Loaded, Newest, Coming, Apart, Ring!Index, Ring!None
<1>5. \A i \in Ring!Index : ~(0 <= i /\ i < 0)
  BY RingSize DEF Ring!Index
<1>6. InOnePiece'
  BY <1>1, <1>2, <1>5 DEF InOnePiece, Run, Ring!Index
<1> QED
  BY <1>2, <1>4, <1>6 DEF Content, InTwo

\* A chunk goes to slots no unread byte is in.
LEMMA StoreContent ==
  ASSUME Ring!TypeOK, RingSteps, Content, pc \in {"test", "restarted"}, pc' = "advance",
         Ring!Copy(HeadAddr), HeadAddr + len < MEMSIZE,
         lapped' = (lapped \/ Ring!Overtakes(HeadAddr)),
         UNCHANGED <<HeadAddr, EndAddr, used, len, held, received, fresh, behind, strayed>>
  PROVE  Content'
<1> SUFFICES ASSUME Good' PROVE Content'
  BY DEF Content, Loaded, Newest, Coming, Apart, InOnePiece, InTwo
<1>0. Good /\ (behind => HeadAddr + len <= EndAddr)
  <2>1. used /\ ~lapped /\ ~strayed /\ ~Ring!Overtakes(HeadAddr)
    BY DEF Good
  <2>2. ~(behind /\ HeadAddr + len > EndAddr)
    BY <2>1 DEF Ring!Overtakes
  <2> QED
    BY <2>1, <2>2, RingNumbers DEF Good
<1>1. Stored' = Stored /\ Stored = received - len /\ len \in 1 .. MaxLen
  BY DEF Stored, Storing, RingSteps
<1>2. ReadAt' = ReadAt /\ Behind' = Behind
  BY DEF ReadAt, Behind, Ring!NextIndex, Ring!None
<1>3. \A i \in Ring!Index :
        /\ HeadAddr <= i /\ i < HeadAddr + len => DataAddr'[i] = Stored + 1 + (i - HeadAddr)
        /\ ~(HeadAddr <= i /\ i < HeadAddr + len) => DataAddr'[i] = DataAddr[i]
  <2> SUFFICES ASSUME NEW i \in Ring!Index
               PROVE  /\ HeadAddr <= i /\ i < HeadAddr + len =>
                           DataAddr'[i] = Stored + 1 + (i - HeadAddr)
                      /\ ~(HeadAddr <= i /\ i < HeadAddr + len) => DataAddr'[i] = DataAddr[i]
    OBVIOUS
  <2>1. DataAddr'[i] = IF i \in HeadAddr .. (HeadAddr + len - 1)
                       THEN received - len + 1 + (i - HeadAddr) ELSE DataAddr[i]
    BY DEF Ring!Copy
  <2>2. i \in HeadAddr .. (HeadAddr + len - 1) <=> HeadAddr <= i /\ i < HeadAddr + len
    BY RingNumbers
  <2> QED
    BY <1>1, <2>1, <2>2
<1>4. Loaded'
  BY <1>0 DEF Content, Loaded, Ring!None
<1>5. Newest'
  <2>1. fresh <= Stored /\ \A i \in Ring!Index : DataAddr[i] <= Stored
    BY <1>0 DEF Content, Newest
  <2>2. \A i \in Ring!Index : DataAddr'[i] <= received
    BY <1>1, <1>3, <2>1, RingNumbers
  <2> QED
    BY <1>1, <2>1, <2>2 DEF Newest, Ring!Index
<1>6. Coming'
  BY <1>1, <1>3 DEF Coming, Run, Ring!Index
<1>7. Apart'
  BY <1>0 DEF Content, Apart
<1>8. InOnePiece'
  <2> SUFFICES ASSUME ~Behind
               PROVE  /\ ReadAt <= HeadAddr /\ Stored - fresh = HeadAddr - ReadAt
                      /\ \A i \in Ring!Index : ReadAt <= i /\ i < HeadAddr =>
                           DataAddr'[i] = fresh + 1 + (i - ReadAt)
    BY <1>1, <1>2 DEF InOnePiece, Run, Ring!Index
  <2>1. /\ ReadAt <= HeadAddr /\ Stored - fresh = HeadAddr - ReadAt
        /\ \A i \in Ring!Index : ReadAt <= i /\ i < HeadAddr =>
             DataAddr[i] = fresh + 1 + (i - ReadAt)
    BY <1>0 DEF Content, InOnePiece, Run
  <2> QED
    BY <1>3, <2>1, RingNumbers
<1>9. InTwo'
  <2> SUFFICES ASSUME Behind PROVE \E q \in ReadAt .. MEMSIZE : Pieces(q)'
    BY <1>2 DEF InTwo
  <2>1. PICK q \in ReadAt .. MEMSIZE : Pieces(q)
    BY <1>0 DEF Content, InTwo
  <2>2. HeadAddr + len <= ReadAt
    <3>1. behind /\ held # MEMSIZE - 1 /\ HeadAddr + len <= EndAddr
      BY <1>0 DEF Behind
    <3>2. held # MEMSIZE => held = EndAddr
      BY <1>0, RingNumbers DEF Content, Loaded
    <3>3. ReadAt = EndAddr \/ ReadAt = EndAddr + 1
      BY <3>1, <3>2, RingNumbers, RingSize
    <3> QED
      BY <1>1, <3>1, <3>3, RingNumbers, RingSize
  <2>3. \A i \in Ring!Index : i < HeadAddr \/ ReadAt <= i => DataAddr'[i] = DataAddr[i]
    BY <1>3, <2>2, RingNumbers
  <2>4. Run(ReadAt, q, fresh + 1)'
    BY <1>2, <2>1, <2>3 DEF Pieces, Run, Ring!Index
  <2>5. Run(0, HeadAddr, fresh + (q - ReadAt) + 1)'
    BY <1>2, <2>1, <2>3 DEF Pieces, Run, Ring!Index
  <2>6. \A i \in Ring!Index : q <= i => DataAddr'[i] <= fresh + (q - ReadAt)
    <3>1. \A i \in Ring!Index : q <= i => ReadAt <= i
      BY RingNumbers
    <3> QED
      BY <2>1, <2>3, <3>1 DEF Pieces
  <2> QED
    BY <1>1, <1>2, <2>1, <2>4, <2>5, <2>6 DEF Pieces, Ring!Index
<1> QED
  BY <1>4, <1>5, <1>6, <1>7, <1>8, <1>9 DEF Content


LEMMA RestartContent ==
  ASSUME Ring!TypeOK, RingSteps, Content, Ring!Restart
  PROVE  Content'
<1> SUFFICES ASSUME Good' PROVE Content'
  BY DEF Content, Loaded, Newest, Coming, Apart, InOnePiece, InTwo
<1>1. /\ pc = "test" /\ pc' = "restarted" /\ HeadAddr' = 0 /\ behind' = (EndAddr # 0)
      /\ lapped' = (lapped \/ behind \/ EndAddr = 0)
      /\ UNCHANGED <<EndAddr, DataAddr, used, len, held, received, fresh, strayed>>
  BY DEF Ring!Restart
<1>2. Good /\ ~behind /\ EndAddr # 0 /\ behind'
  BY <1>1 DEF Good
<1>3. Stored' = Stored /\ Stored = received - len /\ ReadAt' = ReadAt
  BY <1>1 DEF Stored, Storing, ReadAt, Ring!NextIndex, Ring!None
<1>4. Loaded' /\ Newest' /\ Coming' /\ Apart'
  <2>1. Loaded' /\ Newest' /\ Coming'
    BY <1>1, <1>2, <1>3, RingNumbers DEF Content, Loaded, Newest, Coming, Ring!Index, Ring!None
  <2>2. Apart'
    BY <1>1, <1>2, RingNumbers DEF Apart
  <2> QED
    BY <2>1, <2>2
<1>5. /\ ReadAt <= HeadAddr /\ Stored - fresh = HeadAddr - ReadAt
      /\ Run(ReadAt, HeadAddr, fresh + 1)
  BY <1>2 DEF Content, InOnePiece, Behind
<1>6. PICK q \in Nat : q = HeadAddr
  BY RingNumbers
<1>7. q \in ReadAt .. MEMSIZE
  BY <1>5, <1>6, RingNumbers, RingSize
<1>9. Pieces(q)'
  <2>1. fresh + (q - ReadAt) = Stored
    BY <1>5, <1>6, RingNumbers
  <2>2. \A i \in Ring!Index : DataAddr[i] <= Stored
    BY <1>1, <1>2 DEF Content, Newest
  <2>3. Run(ReadAt, q, fresh + 1)'
    BY <1>1, <1>3, <1>5, <1>6 DEF Run, Ring!Index
  <2>4. Run(0, HeadAddr, fresh + (q - ReadAt) + 1)'
    BY <1>1, RingNumbers DEF Run, Ring!Index
  <2>5. fresh + (q - ReadAt) + 0 = Stored
    BY <2>1, RingNumbers
  <2> QED
    BY <1>1, <1>3, <2>1, <2>2, <2>3, <2>4, <2>5 DEF Pieces, Ring!Index
<1>8. Behind'
  <2>1. held # MEMSIZE => held < HeadAddr
    BY <1>2, RingNumbers DEF Content, Loaded
  <2>2. held # MEMSIZE => held # MEMSIZE - 1
    BY <2>1, RingNumbers, RingSize
  <2> QED
    BY <1>1, <1>2, <2>2, RingSize DEF Behind
<1> QED
  BY <1>3, <1>4, <1>7, <1>8, <1>9 DEF Content, InOnePiece, InTwo

LEMMA AdvanceContent ==
  ASSUME Ring!TypeOK, RingSteps, Content, Ring!Advance
  PROVE  Content'
<1> SUFFICES ASSUME Good' PROVE Content'
  BY DEF Content, Loaded, Newest, Coming, Apart, InOnePiece, InTwo
<1>1. /\ pc = "advance" /\ pc' = "read" /\ HeadAddr' = HeadAddr + len
      /\ lapped' = (lapped \/ (behind /\ HeadAddr + len = EndAddr))
      /\ UNCHANGED <<EndAddr, DataAddr, used, len, held, received, fresh, behind, strayed>>
  BY DEF Ring!Advance
<1>2. Good /\ ~(behind /\ HeadAddr + len = EndAddr)
  BY <1>1 DEF Good
<1>3. Stored' = received /\ Stored = received - len /\ ReadAt' = ReadAt /\ Behind' = Behind
  BY <1>1 DEF Stored, Storing, ReadAt, Behind, Ring!NextIndex, Ring!None
<1>0. Stored + len = received
  BY <1>3, RingNumbers
<1>4. Run(HeadAddr, HeadAddr + len, Stored + 1) /\ (behind => HeadAddr + len <= EndAddr)
  BY <1>1, <1>2 DEF Content, Coming, Apart
<1>5. Loaded' /\ Newest' /\ Coming'
  <2>1. fresh <= received
    BY <1>0, <1>2, RingNumbers DEF Content, Newest
  <2>2. Newest' /\ Coming'
    BY <1>1, <1>2, <1>3, <2>1 DEF Content, Newest, Coming, Ring!Index
  <2>3. Loaded'
    <3>1. held # Ring!None => held = EndAddr /\ (behind \/ held < HeadAddr)
      BY <1>2 DEF Content, Loaded
    <3>2. held < HeadAddr => held < HeadAddr'
      BY <1>1, RingNumbers
    <3> QED
      BY <1>1, <3>1, <3>2 DEF Loaded, Ring!None
  <2> QED
    BY <2>2, <2>3
<1>6. Apart'
  BY <1>1, <1>2, <1>4, RingNumbers DEF Apart
<1>7. InOnePiece'
  <2> SUFFICES ASSUME ~Behind' PROVE InOnePiece'
    BY DEF InOnePiece
  <2>1. ReadAt <= HeadAddr /\ Stored - fresh = HeadAddr - ReadAt
    BY <1>2, <1>3 DEF Content, InOnePiece
  <2>2. \A i \in Ring!Index : ReadAt <= i /\ i < HeadAddr =>
          DataAddr[i] = fresh + 1 + (i - ReadAt)
    BY <1>2, <1>3 DEF Content, InOnePiece, Run
  <2>3. \A i \in Ring!Index : HeadAddr <= i /\ i < HeadAddr + len =>
          DataAddr[i] = fresh + 1 + (i - ReadAt)
    <3>1. \A i \in Ring!Index : HeadAddr <= i /\ i < HeadAddr + len =>
            DataAddr[i] = Stored + 1 + (i - HeadAddr)
      BY <1>4 DEF Run
    <3> QED
      BY <2>1, <3>1, RingNumbers
  <2>4. ReadAt <= HeadAddr + len /\ received - fresh = HeadAddr + len - ReadAt
    BY <1>0, <2>1, RingNumbers
  <2>5. \A i \in Ring!Index : ReadAt <= i /\ i < HeadAddr + len =>
          DataAddr[i] = fresh + 1 + (i - ReadAt)
    BY <2>2, <2>3, RingNumbers
  <2>6. Run(ReadAt, HeadAddr, fresh + 1)'
    BY <1>1, <1>3, <2>5 DEF Run, Ring!Index
  <2>7. HeadAddr' = HeadAddr + len /\ fresh' = fresh
    BY <1>1
  <2>8. ReadAt' = ReadAt /\ Stored' = received
    BY <1>3
  <2>9. ReadAt' <= HeadAddr' /\ Stored' - fresh' = HeadAddr' - ReadAt'
    BY <2>4, <2>7, <2>8, RingNumbers
  <2> QED
    BY <2>6, <2>9 DEF InOnePiece
<1>8. InTwo'
  <2> SUFFICES ASSUME Behind PROVE \E q \in ReadAt .. MEMSIZE : Pieces(q)'
    BY <1>3 DEF InTwo
  <2>1. PICK q \in ReadAt .. MEMSIZE : Pieces(q)
    BY <1>2 DEF Content, InTwo
  <2>2. fresh + (q - ReadAt) + HeadAddr = Stored
    BY <2>1 DEF Pieces
  <2>3. fresh + (q - ReadAt) + (HeadAddr + len) = received
    BY <1>0, <2>2, RingNumbers
  <2>4. \A i \in Ring!Index : 0 <= i /\ i < HeadAddr + len =>
          DataAddr[i] = fresh + (q - ReadAt) + 1 + (i - 0)
    <3>1. \A i \in Ring!Index : 0 <= i /\ i < HeadAddr =>
            DataAddr[i] = fresh + (q - ReadAt) + 1 + (i - 0)
      BY <2>1 DEF Pieces, Run
    <3>2. \A i \in Ring!Index : HeadAddr <= i /\ i < HeadAddr + len =>
            DataAddr[i] = Stored + 1 + (i - HeadAddr)
      BY <1>4 DEF Run
    <3>3. \A i \in Ring!Index : HeadAddr <= i /\ i < HeadAddr + len =>
            DataAddr[i] = fresh + (q - ReadAt) + 1 + (i - 0)
      BY <2>2, <3>2, RingNumbers
    <3> QED
      BY <3>1, <3>3, RingNumbers
  <2>5. Run(0, HeadAddr, fresh + (q - ReadAt) + 1)'
    BY <1>1, <1>3, <2>4 DEF Run, Ring!Index
  <2>6. Run(ReadAt, q, fresh + 1)'
    BY <1>1, <1>3, <2>1 DEF Pieces, Run, Ring!Index
  <2>7. \A i \in Ring!Index : q <= i => DataAddr'[i] <= fresh + (q - ReadAt)
    BY <1>1, <2>1 DEF Pieces
  <2> QED
    BY <1>1, <1>3, <2>3, <2>5, <2>6, <2>7 DEF Pieces, Ring!Index
<1> QED
  BY <1>5, <1>6, <1>7, <1>8 DEF Content

LEMMA ReadByteContent ==
  ASSUME Ring!TypeOK, Content, Ring!Read_Byte
  PROVE  Content'
<1> SUFFICES ASSUME Good' PROVE Content'
  BY DEF Content, Loaded, Newest, Coming, Apart, InOnePiece, InTwo
<1>1. /\ held # Ring!None /\ EndAddr' = Ring!NextIndex(held) /\ held' = Ring!None
      /\ behind' = (behind /\ held + 1 < MEMSIZE)
      /\ UNCHANGED <<HeadAddr, DataAddr, used, pc, len, received, fresh, lapped, strayed>>
  BY DEF Ring!Read_Byte, Ring!thread
<1>2. Good /\ held = EndAddr
  BY <1>1 DEF Good, Content, Loaded
<1>3. Stored' = Stored /\ ReadAt' = ReadAt
  BY <1>1, <1>2 DEF Stored, ReadAt, Ring!None
<1>4. Behind' = Behind
  <2>1. held + 1 < MEMSIZE <=> held # MEMSIZE - 1
    BY <1>1, RingNumbers, RingSize
  <2>2. held' # MEMSIZE - 1
    BY <1>1, RingNumbers, RingSize
  <2> QED
    BY <1>1, <2>1, <2>2 DEF Behind
<1>5. Loaded' /\ Newest' /\ Coming'
  BY <1>1, <1>2, <1>3 DEF Content, Loaded, Newest, Coming, Run, Ring!Index
<1>6. Apart'
  <2>0. behind' => behind /\ held + 1 < MEMSIZE
    BY <1>1
  <2>3. held + 1 < MEMSIZE => Ring!NextIndex(held) = held + 1
    BY RingNumbers, RingSize DEF Ring!NextIndex
  <2>1. behind' => behind /\ EndAddr' = EndAddr + 1
    BY <1>1, <1>2, <2>0, <2>3
  <2>2. behind' => HeadAddr < EndAddr' /\ (pc = "advance" => HeadAddr + len <= EndAddr')
    BY <1>2, <2>1, RingNumbers DEF Content, Apart
  <2> QED
    BY <1>1, <2>2 DEF Apart
<1>7. InOnePiece' /\ InTwo'
  BY <1>1, <1>2, <1>3, <1>4 DEF Content, InOnePiece, InTwo, Run, Pieces, Ring!Index
<1> QED
  BY <1>5, <1>6, <1>7 DEF Content


\* Read_Byte loads the next byte of the client, or an old one behind the first
\* piece: the piece shrinks by one slot, from below or from above.
LEMMA LoadContent ==
  ASSUME Ring!TypeOK, RingSteps, Content, Ring!Load
  PROVE  Content' /\ (Good' => fresh' \in {fresh, fresh + 1})
<1> SUFFICES ASSUME Good' PROVE Content' /\ fresh' \in {fresh, fresh + 1}
  BY DEF Content, Loaded, Newest, Coming, Apart, InOnePiece, InTwo
<1>1. /\ held = Ring!None /\ EndAddr # HeadAddr /\ held' = EndAddr
      /\ fresh' = IF DataAddr[EndAddr] > fresh THEN DataAddr[EndAddr] ELSE fresh
      /\ UNCHANGED <<HeadAddr, EndAddr, DataAddr, used, pc, len, received, behind, lapped>>
  BY DEF Ring!Load, Ring!node, Ring!thread
<1>2. strayed' = (strayed \/ pc = "put")
  BY DEF Ring!Load
<1>3. Good
  BY <1>1, <1>2 DEF Good
<1>4. /\ ReadAt = EndAddr /\ held = MEMSIZE /\ EndAddr \in Ring!Index
      /\ EndAddr + 1 < MEMSIZE => ReadAt' = EndAddr + 1
      /\ EndAddr + 1 = MEMSIZE => ReadAt' = 0
  <2>1. ReadAt = EndAddr /\ held = MEMSIZE /\ EndAddr \in Ring!Index
    BY <1>1, RingNumbers
  <2>2. ReadAt' = Ring!NextIndex(EndAddr)
    BY <1>1, RingNumbers DEF ReadAt, Ring!NextIndex, Ring!None
  <2>3. /\ EndAddr + 1 < MEMSIZE => Ring!NextIndex(EndAddr) = EndAddr + 1
        /\ EndAddr + 1 = MEMSIZE => Ring!NextIndex(EndAddr) = 0
    BY RingNumbers, RingSize DEF Ring!NextIndex
  <2> QED
    BY <2>1, <2>2, <2>3
<1>5. Stored' = Stored
  BY <1>1 DEF Stored
<1>6. Behind <=> behind
  BY <1>4, RingSize DEF Behind
<1>7. Behind' <=> behind /\ EndAddr + 1 < MEMSIZE
  <2>1. EndAddr + 1 < MEMSIZE <=> EndAddr # MEMSIZE - 1
    BY RingNumbers, RingSize
  <2> QED
    BY <1>1, <2>1 DEF Behind
<1>8. Coming' /\ Apart'
  <2>1. Coming'
    BY <1>1, <1>3, <1>5 DEF Content, Coming, Run, Ring!Index
  <2>2. Apart'
    BY <1>1, <1>3 DEF Content, Apart
  <2> QED
    BY <2>1, <2>2
<1>9. /\ fresh <= Stored
      /\ \A i \in Ring!Index : DataAddr[i] <= IF pc = "advance" THEN received ELSE Stored
  BY <1>3 DEF Content, Newest
<1>10. CASE ~behind
  <2>1. /\ EndAddr <= HeadAddr /\ Stored - fresh = HeadAddr - EndAddr
        /\ \A i \in Ring!Index : EndAddr <= i /\ i < HeadAddr =>
             DataAddr[i] = fresh + 1 + (i - EndAddr)
    BY <1>3, <1>4, <1>6, <1>10 DEF Content, InOnePiece, Run
  <2>2. EndAddr < HeadAddr /\ EndAddr + 1 < MEMSIZE
    BY <1>1, <2>1, RingNumbers, RingSize
  <2>3. DataAddr[EndAddr] = fresh + 1
    BY <1>4, <2>1, <2>2, RingNumbers
  <2>4. fresh' = fresh + 1
    BY <1>1, <2>3, RingNumbers
  <2>5. Loaded'
    BY <1>1, <2>2 DEF Loaded
  <2>6. Newest'
    <3>1. fresh + 1 <= Stored
      BY <2>1, <2>2, RingNumbers
    <3> QED
      BY <1>1, <1>5, <1>9, <2>4, <3>1 DEF Newest, Ring!Index
  <2>7. InOnePiece'
    <3>1. EndAddr + 1 <= HeadAddr /\ Stored - (fresh + 1) = HeadAddr - (EndAddr + 1)
      BY <2>1, <2>2, RingNumbers
    <3>2. \A i \in Ring!Index : EndAddr + 1 <= i /\ i < HeadAddr =>
            DataAddr[i] = (fresh + 1) + 1 + (i - (EndAddr + 1))
      BY <2>1, RingNumbers
    <3>3. Run(ReadAt, HeadAddr, fresh + 1)'
      BY <1>1, <1>4, <2>2, <2>4, <3>2 DEF Run, Ring!Index
    <3> QED
      BY <1>1, <1>4, <1>5, <2>2, <2>4, <3>1, <3>3 DEF InOnePiece
  <2>8. InTwo'
    BY <1>7, <1>10 DEF InTwo
  <2> QED
    BY <1>8, <2>4, <2>5, <2>6, <2>7, <2>8 DEF Content
<1>11. CASE behind
  <2>1. PICK q \in EndAddr .. MEMSIZE : Pieces(q)
    BY <1>3, <1>4, <1>6, <1>11 DEF Content, InTwo
  <2>2. /\ fresh + (q - EndAddr) + HeadAddr = Stored
        /\ \A i \in Ring!Index : EndAddr <= i /\ i < q =>
             DataAddr[i] = fresh + 1 + (i - EndAddr)
        /\ \A i \in Ring!Index : q <= i => DataAddr[i] <= fresh + (q - EndAddr)
        /\ \A i \in Ring!Index : 0 <= i /\ i < HeadAddr =>
             DataAddr[i] = fresh + (q - EndAddr) + 1 + (i - 0)
    BY <1>4, <2>1 DEF Pieces, Run
  <2>3. q \in Nat /\ EndAddr <= q /\ q <= MEMSIZE
    BY RingNumbers, RingSize
  <2>4. /\ EndAddr < q => fresh' = fresh + 1
        /\ EndAddr = q => fresh' = fresh
    BY <1>1, <1>4, <2>2, <2>3, RingNumbers
  <2>5. fresh' \in {fresh, fresh + 1}
    BY <2>3, <2>4, RingNumbers
  <2>6. Loaded'
    BY <1>1, <1>11 DEF Loaded
  \* Where the first piece ends now, and the number of its last byte as before.
  <2>7. PICK r \in Nat : r = IF EndAddr < q THEN q ELSE EndAddr + 1
    BY <2>3, RingNumbers
  <2>8. /\ EndAddr + 1 <= r /\ r <= MEMSIZE /\ q <= r
        /\ fresh' + (r - (EndAddr + 1)) = fresh + (q - EndAddr)
    <3>1. CASE EndAddr < q
      BY <2>3, <2>4, <2>7, <3>1, RingNumbers, RingSize
    <3>2. CASE EndAddr = q
      BY <2>3, <2>4, <2>7, <3>2, RingNumbers, RingSize
    <3> QED
      BY <2>3, <3>1, <3>2, RingNumbers
  <2>9. \A i \in Ring!Index : EndAddr + 1 <= i /\ i < r =>
          DataAddr[i] = fresh' + 1 + (i - (EndAddr + 1))
    <3>1. CASE EndAddr < q
      <4>1. r = q /\ fresh' = fresh + 1
        BY <2>4, <2>7, <3>1
      <4> QED
        BY <2>2, <2>3, <4>1, RingNumbers
    <3>2. CASE EndAddr = q
      BY <2>7, <3>2, RingNumbers
    <3> QED
      BY <2>3, <3>1, <3>2, RingNumbers
  <2>10. Newest'
    <3>1. fresh' <= Stored
      BY <2>2, <2>3, <2>4, RingNumbers
    <3> QED
      BY <1>1, <1>5, <1>9, <3>1 DEF Newest, Ring!Index
  <2>11. CASE EndAddr + 1 < MEMSIZE
    <3>1. InOnePiece'
      BY <1>7, <1>11, <2>11 DEF InOnePiece
    <3>2. ReadAt' = EndAddr + 1
      BY <1>4, <2>11
    <3>3. r \in ReadAt' .. MEMSIZE
      BY <2>8, <3>2, RingNumbers, RingSize
    <3>4. fresh' + (r - ReadAt') = fresh + (q - EndAddr)
      BY <2>8, <3>2
    <3>5. Run(ReadAt, r, fresh + 1)'
      BY <1>1, <2>9, <3>2 DEF Run, Ring!Index
    <3>6. \A i \in Ring!Index : r <= i => DataAddr'[i] <= fresh + (q - EndAddr)
      BY <1>1, <2>2, <2>3, <2>8, RingNumbers
    <3>7. Run(0, HeadAddr, fresh + (r - ReadAt) + 1)'
      BY <1>1, <2>2, <3>4 DEF Run, Ring!Index
    <3>8. Pieces(r)'
      BY <1>1, <1>5, <2>2, <3>4, <3>5, <3>6, <3>7 DEF Pieces, Ring!Index
    <3>9. InTwo'
      BY <3>3, <3>8 DEF InTwo
    <3> QED
      BY <1>8, <2>5, <2>6, <2>10, <3>1, <3>9 DEF Content
  <2>12. CASE EndAddr + 1 = MEMSIZE
    <3>1. InTwo'
      BY <1>7, <1>11, <2>12, RingSize DEF InTwo
    <3>2. r = MEMSIZE /\ fresh' = fresh + (q - EndAddr)
      <4>1. r = MEMSIZE
        BY <2>8, <2>12, RingNumbers, RingSize
      <4>2. r - (EndAddr + 1) = 0
        BY <2>12, <4>1, RingSize
      <4>3. fresh' \in Nat
        BY <2>5, RingNumbers
      <4> QED
        BY <2>8, <4>1, <4>2, <4>3
    <3>3. ReadAt' = 0
      BY <1>4, <2>12
    <3>4. \A i \in Ring!Index : 0 <= i /\ i < HeadAddr => DataAddr[i] = fresh' + 1 + (i - 0)
      BY <2>2, <3>2
    <3>5. Run(ReadAt, HeadAddr, fresh + 1)'
      BY <1>1, <3>3, <3>4 DEF Run, Ring!Index
    <3>6. Stored - fresh' = HeadAddr - 0 /\ 0 <= HeadAddr
      BY <2>2, <2>5, <3>2, RingNumbers
    <3>7. InOnePiece'
      BY <1>1, <1>5, <3>3, <3>5, <3>6 DEF InOnePiece
    <3> QED
      BY <1>8, <2>5, <2>6, <2>10, <3>1, <3>7 DEF Content
  <2> QED
    BY <2>11, <2>12, RingNumbers, RingSize
<1> QED
  BY <1>10, <1>11

LEMMA ContentStep ==
  Ring!TypeOK /\ RingSteps /\ RingGiven /\ Content /\ [Ring!Next]_ringVars => Content'
<1> SUFFICES ASSUME Ring!TypeOK, RingSteps, RingGiven, Content, [Ring!Next]_ringVars
             PROVE  Content'
  OBVIOUS
<1>1. CASE Ring!StoreWhole
  BY <1>1, StoreContent DEF Ring!StoreWhole, Ring!Fits
<1>2. CASE Ring!StoreAtStart
  <2>1. HeadAddr = 0 /\ pc = "restarted"
    BY <1>2 DEF Ring!StoreAtStart, RingSteps
  <2>2. len \in Nat /\ len < MEMSIZE
    BY <2>1, RingSize DEF RingSteps, Storing
  <2>3. HeadAddr + len < MEMSIZE
    BY <2>1, <2>2, RingSize
  <2> QED
    BY <1>2, <2>1, <2>3, StoreContent DEF Ring!StoreAtStart
<1>3. CASE Ring!Close
  BY <1>3 DEF Ring!Close, Good, Content, Loaded, Newest, Coming, Apart, InOnePiece, InTwo
<1>4. ASSUME NEW x \in Ring!Resets, Ring!PutMem(x) PROVE Content'
  <2>1. ~Good'
    <3>1. /\ pc = "put" /\ todo' = todo \ {x} /\ used' = (used /\ x # "state")
          /\ (todo' = {} \/ pc' = pc)
      BY <1>4 DEF Ring!PutMem
    <3>2. CASE todo' = {}
      <4>1. x = "state" \/ "state" \notin todo
        BY <3>1, <3>2
      <4> QED
        BY <3>1, <4>1 DEF Good, RingSteps
    <3>3. CASE pc' = pc
      BY <3>1, <3>3 DEF Good
    <3> QED
      BY <3>1, <3>2, <3>3
  <2> QED
    BY <2>1 DEF Content, Loaded, Newest, Coming, Apart, InOnePiece, InTwo
<1>5. CASE Ring!Read_Nothing \/ UNCHANGED ringVars
  <2>1. UNCHANGED ringVars
    BY <1>5 DEF Ring!Read_Nothing, Ring!vars, Ring!node, Ring!thread, Ring!history, ringVars
  <2>2. UNCHANGED <<HeadAddr, EndAddr, DataAddr, held, fresh, behind, pc, len, received,
                    used, lapped, strayed>>
    BY <2>1 DEF ringVars
  <2>3. Stored' = Stored /\ (Good' => Good)
    BY <2>2 DEF Stored, Good
  <2> QED
    BY <2>2, <2>3, SameContent
<1> QED
  BY <1>1, <1>2, <1>3, <1>4, <1>5, ReadChunkContent, GetMemContent, RestartContent,
     AdvanceContent, LoadContent, ReadByteContent DEF Ring!Next, Ring!ReadThread

LEMMA RingInvInit == Ring!Init => RingInv
  BY RingTypeInit, ContentInit DEF RingInv, Content

LEMMA RingInvStep == RingInv /\ [Ring!Next]_ringVars => RingInv'
  BY RingTypeStep, RingStepsStep, RingGivenStep, ContentStep DEF RingInv, Content

\* A step of a behaviour moves the ring by its own Next or leaves it.
LEMMA RingMoves ==
  [MCNext]_<<side, ringVars, vars, devVars>> => [Ring!Next]_ringVars
  BY DEF MCNext

\* The invariant of the buffer, kept by every step of the read thread and the loop.
THEOREM RingIsSound == MCSpec => []RingInv
<1>1. MCInit => RingInv
  BY RingInvInit DEF MCInit
<1>2. RingInv /\ [MCNext]_<<side, ringVars, vars, devVars>> => RingInv'
  BY RingInvStep, RingMoves
<1> QED
  BY <1>1, <1>2, PTL DEF MCSpec

\* Old bytes are handed out only between the restart of the two indices, and a
\* buffer that looks empty outside it has delivered everything.
THEOREM OldBytesOnlyBehind == MCSpec => []ReplayOnlyBehind
<1>1. RingInv => ReplayOnlyBehind
  <2> SUFFICES ASSUME RingInv, used, pc # "put", held = Ring!None, ~lapped, ~strayed
               PROVE  /\ ~behind /\ EndAddr # HeadAddr => DataAddr[EndAddr] = fresh + 1
                      /\ pc = "read" /\ EndAddr = HeadAddr => fresh = received
    BY DEF ReplayOnlyBehind, Ring!ReplayOnlyBehind, Ring!None
  <2>1. Good /\ Ring!TypeOK
    BY DEF Good, RingInv
  <2>2. ReadAt = EndAddr /\ (Behind <=> behind)
    BY <2>1, RingNumbers, RingSize DEF Behind
  <2>3. ASSUME ~behind
        PROVE  /\ EndAddr <= HeadAddr /\ Stored - fresh = HeadAddr - EndAddr
               /\ \A i \in Ring!Index : EndAddr <= i /\ i < HeadAddr =>
                    DataAddr[i] = fresh + 1 + (i - EndAddr)
    BY <2>1, <2>2, <2>3 DEF RingInv, InOnePiece, Run
  <2>4. ASSUME ~behind, EndAddr # HeadAddr PROVE DataAddr[EndAddr] = fresh + 1
    BY <2>1, <2>3, <2>4, RingNumbers
  <2>5. ASSUME pc = "read", EndAddr = HeadAddr PROVE fresh = received
    <3>1. ~behind
      BY <2>1, <2>5, RingNumbers DEF RingInv, Apart
    <3>2. Stored = received
      BY <2>5 DEF Stored, Storing
    <3> QED
      BY <2>1, <2>3, <2>5, <3>1, <3>2, RingNumbers
  <2> QED
    BY <2>4, <2>5
<1> QED
  BY <1>1, RingIsSound, PTL

\* Each byte of a client is read after its predecessor, the first one first,
\* whatever else is read in between, while nothing was overwritten.
THEOREM NoByteSkipped == MCSpec => NoneSkipped
<1>1. RingInv /\ [Ring!Next]_ringVars =>
        [~lapped' /\ ~strayed' /\ pc # "put" => fresh' \in {fresh, fresh + 1}]_Ring!vars
  <2> SUFFICES ASSUME RingInv, [Ring!Next]_ringVars, ~lapped', ~strayed', pc # "put"
               PROVE  fresh' \in {fresh, fresh + 1}
    OBVIOUS
  <2>1. CASE Ring!Load
    <3>1. Good'
      BY <2>1 DEF Ring!Load, Ring!node, Ring!thread, Good
    <3> QED
      BY <2>1, <3>1, LoadContent DEF RingInv, Content
  <2>2. CASE ~Ring!Load
    BY <2>2 DEF Ring!Next, Ring!ReadThread, Ring!ReadChunk, Ring!GetMem, Ring!StoreWhole,
                Ring!Restart, Ring!StoreAtStart, Ring!Advance, Ring!Close, Ring!PutMem,
                Ring!Read_Byte, Ring!Read_Nothing, Ring!vars, Ring!history, ringVars
  <2> QED
    BY <2>1, <2>2
<1> QED
  BY <1>1, RingMoves, RingIsSound, PTL DEF MCSpec, NoneSkipped, Ring!NoneSkipped

-----------------------------------------------------------------------------
(* The parts side by side.                                                 *)

\* A behaviour of the composition is one of each part, the others at rest.
THEOREM PartsMoveApart == MCSpec => Spec /\ DevSpec /\ Ring!Spec
<1>1. MCInit => Init /\ DevInit /\ Ring!Init
  BY DEF MCInit
<1>2. [MCNext]_<<side, ringVars, vars, devVars>> =>
        [Next]_vars /\ [DevNext]_devVars /\ [Ring!Next]_Ring!vars
  BY DEF MCNext, ringVars, Ring!vars, Ring!node, Ring!thread, Ring!history
<1> QED
  BY <1>1, <1>2, PTL DEF MCSpec, Spec, DevSpec, Ring!Spec
=============================================================================
