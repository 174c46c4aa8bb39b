--------------------------- MODULE SteeringProofs ---------------------------
(***************************************************************************)
(* Theorems about Steering, for every set of stick, knob and switch bytes  *)
(* (TLC tries the values around the thresholds).                           *)
(***************************************************************************)
EXTENDS Steering, TLAPS

Speeds == [R : Int, L : Int, F : Int]

AnyFrame == [x : 0 .. 255, y : 0 .. 255, z : 0 .. 255, scalar : 0 .. 255,
             digital : 0 .. 255]

\* What was sent is get_js_input of the frame in hand, or nothing yet.
IInv ==
  /\ js \in AnyFrame
  /\ \/ track = get_js_input(js)
     \/ js = Rest /\ track = [R |-> 0, L |-> 0, F |-> 0]

\* Every state of SteerSpec: the frame's bytes, and their speeds.
THEOREM Sent == SteerSpec => []IInv
<1>1. SteerInit => IInv
  <2>1. Rest \in AnyFrame
    BY DEF Rest, AnyFrame, zerospeed
  <2> QED BY <2>1 DEF SteerInit, IInv
<1>2. IInv /\ [SteerNext]_steerVars => IInv'
  <2> SUFFICES ASSUME IInv, [SteerNext]_steerVars PROVE IInv'
    OBVIOUS
  <2>1. CASE UNCHANGED steerVars
    BY <2>1 DEF IInv, steerVars
  <2>2. ASSUME NEW j \in Commands, Execute(j) PROVE IInv'
    <3>1. j \in AnyFrame
      <4>1. /\ j = [x |-> j.x, y |-> j.y, z |-> j.z, scalar |-> j.scalar,
                    digital |-> j.digital]
            /\ j.x \in Bytes /\ j.y \in Bytes /\ j.z \in Bytes
            /\ j.scalar \in Scalars /\ j.digital \in Digital
        BY DEF Commands
      <4>2. /\ j.x \in 0 .. 255 /\ j.y \in 0 .. 255 /\ j.z \in 0 .. 255
            /\ j.scalar \in 0 .. 255 /\ j.digital \in 0 .. 255
        BY <4>1, SteeringAssumption
      <4> QED BY <4>1, <4>2, Zenon DEF AnyFrame
    <3> QED BY <2>2, <3>1 DEF Execute, IInv
  <2> QED BY <2>1, <2>2 DEF SteerNext
<1> QED BY <1>1, <1>2, PTL DEF SteerSpec

-----------------------------------------------------------------------------

\* The sign of a product of a speed and a knob setting.
LEMMA ProductSign ==
  ASSUME NEW n \in Int, NEW s \in Nat
  PROVE  /\ n * s \in Int
         /\ n >= 0 => n * s >= 0
         /\ n <= 0 => n * s <= 0
OBVIOUS

\* Scaling keeps the sign of a speed, and its order.
LEMMA ScaledSign ==
  ASSUME NEW n \in Int, NEW s \in Int, 0 <= s, s <= 255
  PROVE  /\ Scaled(n, s) \in Int
         /\ n >= 0 => Scaled(n, s) >= 0
         /\ n <= 0 => Scaled(n, s) <= 0
<1>1. Limit(s) \in Nat
  BY DEF Limit, MAX_motion_scalar
<1>2. PICK p \in Int : /\ p = n * Limit(s)
                       /\ n >= 0 => p >= 0
                       /\ n <= 0 => p <= 0
  BY <1>1, ProductSign
<1>3. Scaled(n, s) = Quotient(p, 125)
  BY <1>2 DEF Scaled, MAX_motion_scalar
<1>4. /\ Quotient(p, 125) \in Int
      /\ p >= 0 => Quotient(p, 125) >= 0
      /\ p <= 0 => Quotient(p, 125) <= 0
  BY DEF Quotient
<1> QED BY <1>2, <1>3, <1>4

\* Scaling is monotone in the speed, rounding towards 0 included.
LEMMA ScaledMonotone ==
  ASSUME NEW n \in Int, NEW m \in Int, n <= m,
         NEW s \in Int, 0 <= s, s <= 255
  PROVE  Scaled(n, s) <= Scaled(m, s)
<1>1. Limit(s) \in Nat
  BY DEF Limit, MAX_motion_scalar
<1>2. n * Limit(s) \in Int /\ m * Limit(s) \in Int /\ n * Limit(s) <= m * Limit(s)
  <2> DEFINE l == Limit(s)
  <2>1. l \in Nat
    BY <1>1
  <2> HIDE DEF l
  <2>2. (m - n) * l >= 0
    BY <2>1
  <2>3. (m - n) * l = m * l - n * l
    BY <2>1
  <2>4. n * l <= m * l
    BY <2>1, <2>2, <2>3
  <2> QED BY <2>1, <2>4 DEF l
<1>3. PICK p \in Int, q \in Int : p = n * Limit(s) /\ q = m * Limit(s) /\ p <= q
  BY <1>2
<1>4. Quotient(p, 125) <= Quotient(q, 125)
  BY <1>3 DEF Quotient
<1> QED BY <1>3, <1>4 DEF Scaled, MAX_motion_scalar

\* The two track speeds before the knob, for every position of the stick.
LEMMA MixFacts ==
  ASSUME NEW x \in Int, 0 <= x, x <= 255, NEW y \in Int, 0 <= y, y <= 255
  PROVE  /\ Mix(x, y)[1] \in Int /\ Mix(x, y)[2] \in Int
         /\ y < 112 => Mix(x, y)[1] <= 0 /\ Mix(x, y)[2] <= 0
         /\ y > 144 => Mix(x, y)[1] >= 0 /\ Mix(x, y)[2] >= 0
         /\ x = 128 /\ y = 128 => Mix(x, y)[1] = 0 /\ Mix(x, y)[2] = 0
<1> DEFINE L == Turn(Above(x), y)  R == Turn(Below(x), y)
           B == Below(y)  F == Above(y)
<1>1. /\ L \in Int /\ R \in Int /\ L >= 0 /\ R >= 0
      /\ x = 128 => L = 0 /\ R = 0
      /\ B \in Int /\ F \in Int
      /\ B > 0 <=> y < 112
      /\ F > 0 <=> y > 144
  BY DEF Turn, Above, Below, OnTheSpot, abs, zerospeed, offset, RL_K
<1> HIDE DEF L, R, B, F
<1>3. \A n, d \in Int : Slowed(n, d) \in Int /\ Slowed(n, d) >= 0
  BY DEF Slowed, abs
<1>4. CASE y < 112
  <2>1. Mix(x, y) = <<-Slowed(B, L), -Slowed(B, R)>>
    BY <1>4 DEF Mix, Below, Above, OnTheSpot, abs, zerospeed, offset, L, R, B
  <2>2. Mix(x, y)[1] = -Slowed(B, L) /\ Mix(x, y)[2] = -Slowed(B, R)
    BY <2>1
  <2>3. /\ Slowed(B, L) \in Int /\ Slowed(B, L) >= 0
        /\ Slowed(B, R) \in Int /\ Slowed(B, R) >= 0
    BY <1>1, <1>3
  <2> QED BY <1>4, <2>2, <2>3
<1>5. CASE y > 144
  <2>1. Mix(x, y) = <<Slowed(F, L), Slowed(F, R)>>
    BY <1>5 DEF Mix, Below, Above, OnTheSpot, abs, zerospeed, offset, L, R, F
  <2>2. Mix(x, y)[1] = Slowed(F, L) /\ Mix(x, y)[2] = Slowed(F, R)
    BY <2>1
  <2>3. /\ Slowed(F, L) \in Int /\ Slowed(F, L) >= 0
        /\ Slowed(F, R) \in Int /\ Slowed(F, R) >= 0
    BY <1>1, <1>3
  <2> QED BY <1>5, <2>2, <2>3
<1>6. CASE y >= 112 /\ y <= 144
  <2>1. Mix(x, y) = <<L - R, R - L>>
    BY <1>6 DEF Mix, Below, Above, OnTheSpot, abs, zerospeed, offset, L, R
  <2>2. Mix(x, y)[1] = L - R /\ Mix(x, y)[2] = R - L
    BY <2>1
  <2> QED BY <1>1, <1>6, <2>2
<1> QED BY <1>4, <1>5, <1>6

\* The stick as the code uses it: centred by the switches, or as it is.
LEMMA DrivingRange ==
  ASSUME NEW j, NEW v \in Int, 0 <= v, v <= 255
  PROVE  /\ Driving(j, v) \in Int /\ 0 <= Driving(j, v) /\ Driving(j, v) <= 255
         /\ Driving(j, v) = v \/ Driving(j, v) = 128
         /\ Parking(j) \/ E_Stop(j) => Driving(j, v) = 128
BY DEF Driving, zerospeed

-----------------------------------------------------------------------------

\* Parking and emergency stop hold for every stick and knob: the tracks get 0.
THEOREM StopsTracks == SteerSpec => []StopStopsTracks
<1>1. IInv => StopStopsTracks
  <2> SUFFICES ASSUME IInv, Parking(js) \/ E_Stop(js),
                      track = get_js_input(js)
               PROVE  track.R = 0 /\ track.L = 0
    BY DEF IInv, StopStopsTracks
  <2>1. /\ js.x \in Int /\ 0 <= js.x /\ js.x <= 255
        /\ js.y \in Int /\ 0 <= js.y /\ js.y <= 255
        /\ js.scalar \in Int /\ 0 <= js.scalar /\ js.scalar <= 255
    BY DEF IInv, AnyFrame
  <2>2. Driving(js, js.x) = 128 /\ Driving(js, js.y) = 128
    BY <2>1, DrivingRange
  <2>3. Mix(128, 128)[1] = 0 /\ Mix(128, 128)[2] = 0
    BY MixFacts
  <2>4. Scaled(0, js.scalar) = 0
    BY <2>1, ScaledSign
  <2> QED BY <2>2, <2>3, <2>4 DEF get_js_input, SPEED_K_VAL
<1> QED BY <1>1, Sent, PTL

\* No position of the stick, knob or switches turns a track against the
\* throttle.
THEOREM NoCounter == SteerSpec => []NoCounterRotation
<1>1. IInv => NoCounterRotation
  <2> SUFFICES ASSUME IInv, track = get_js_input(js) PROVE NoCounterRotation
    BY DEF IInv, NoCounterRotation, Rest, zerospeed, offset
  <2>1. /\ js.x \in Int /\ 0 <= js.x /\ js.x <= 255
        /\ js.y \in Int /\ 0 <= js.y /\ js.y <= 255
        /\ js.scalar \in Int /\ 0 <= js.scalar /\ js.scalar <= 255
    BY DEF IInv, AnyFrame
  <2> DEFINE dx == Driving(js, js.x)  dy == Driving(js, js.y)
             l == Mix(dx, dy)[1]  r == Mix(dx, dy)[2]
  <2>2. /\ dx \in Int /\ 0 <= dx /\ dx <= 255
        /\ dy \in Int /\ 0 <= dy /\ dy <= 255
        /\ dy = js.y \/ (dy = 128 /\ dx = 128)
    BY <2>1 DEF Driving, zerospeed
  <2>4. /\ track.R = Scaled(r, js.scalar) * 12000
        /\ track.L = -Scaled(l, js.scalar) * 12000
    BY DEF get_js_input, SPEED_K_VAL
  <2> HIDE DEF dx, dy
  <2>3. /\ l \in Int /\ r \in Int
        /\ js.y < 112 => l <= 0 /\ r <= 0
        /\ js.y > 144 => l >= 0 /\ r >= 0
    BY <2>1, <2>2, MixFacts
  <2> HIDE DEF l, r
  <2>5. /\ Scaled(l, js.scalar) \in Int /\ Scaled(r, js.scalar) \in Int
        /\ js.y < 112 => Scaled(l, js.scalar) <= 0 /\ Scaled(r, js.scalar) <= 0
        /\ js.y > 144 => Scaled(l, js.scalar) >= 0 /\ Scaled(r, js.scalar) >= 0
    BY <2>1, <2>3, ScaledSign
  <2> QED BY <2>4, <2>5 DEF NoCounterRotation, zerospeed, offset
<1> QED BY <1>1, Sent, PTL

\* Within four times the throttle the vehicle turns the way it is steered.
THEOREM Steers == SteerSpec => []SteersWithinThrottle
<1>1. IInv => SteersWithinThrottle
  <2> SUFFICES ASSUME IInv, track = get_js_input(js), Moving(js),
                      js.y <= 144,
                      OnTheSpot(js.y) \/ Above(js.x) + Below(js.x) <= 4 * Below(js.y)
               PROVE  Sense(js.x, track.R + track.L)
    BY DEF IInv, SteersWithinThrottle, Rest, zerospeed, offset, RL_K, Sense
  <2>1. /\ js.x \in Int /\ 0 <= js.x /\ js.x <= 255
        /\ js.y \in Int /\ 0 <= js.y /\ js.y <= 255
        /\ js.scalar \in Int /\ 0 <= js.scalar /\ js.scalar <= 255
    BY DEF IInv, AnyFrame
  <2> DEFINE l == Mix(js.x, js.y)[1]  r == Mix(js.x, js.y)[2]
             L == Turn(Above(js.x), js.y)  R == Turn(Below(js.x), js.y)
             B == Below(js.y)
  <2>2. /\ track.R = Scaled(r, js.scalar) * 12000
        /\ track.L = -Scaled(l, js.scalar) * 12000
    BY DEF get_js_input, SPEED_K_VAL, Driving, Moving
  <2>3. l \in Int /\ r \in Int
    BY <2>1, MixFacts
  <2>4. js.x > 144 => r <= l
    <3> SUFFICES ASSUME js.x > 144 PROVE r <= l
      OBVIOUS
    <3>1. CASE js.y < 112
      <4>1. Mix(js.x, js.y) = <<-Slowed(B, L), -Slowed(B, R)>>
        BY <2>1, <3>1 DEF Mix, Below, Above, OnTheSpot, abs, zerospeed, offset
      <4>2. l = -Slowed(B, L) /\ r = -Slowed(B, R)
        BY <4>1
      <4>3. /\ B \in Int /\ L \in Int /\ R \in Int
            /\ B > 0 /\ L >= 0 /\ R >= 0 /\ L <= 2 * B /\ R <= 2 * B
            /\ R = 0
        BY <2>1, <3>1 DEF Turn, Above, Below, OnTheSpot, abs, zerospeed, offset, RL_K
      <4> HIDE DEF l, r, B, L, R
      <4> QED BY <4>2, <4>3 DEF Slowed, abs
    <3>2. CASE js.y >= 112
      <4>1. /\ L \in Int /\ R \in Int /\ L >= 0 /\ R >= 0
            /\ R = 0 /\ L > 0
        BY <2>1, <3>2 DEF Turn, Above, Below, OnTheSpot, abs, zerospeed, offset, RL_K
      <4>2. Mix(js.x, js.y) = <<L - R, R - L>>
        BY <2>1, <3>2 DEF Mix, Below, Above, OnTheSpot, abs, zerospeed, offset
      <4>3. l = L - R /\ r = R - L
        BY <4>2
      <4> HIDE DEF l, r, L, R
      <4> QED BY <4>1, <4>3
    <3> QED BY <2>1, <3>1, <3>2
  <2>5. js.x < 112 => l <= r
    <3> SUFFICES ASSUME js.x < 112 PROVE l <= r
      OBVIOUS
    <3>1. CASE js.y < 112
      <4>1. Mix(js.x, js.y) = <<-Slowed(B, L), -Slowed(B, R)>>
        BY <2>1, <3>1 DEF Mix, Below, Above, OnTheSpot, abs, zerospeed, offset
      <4>2. l = -Slowed(B, L) /\ r = -Slowed(B, R)
        BY <4>1
      <4>3. /\ B \in Int /\ L \in Int /\ R \in Int
            /\ B > 0 /\ L >= 0 /\ R >= 0 /\ L <= 2 * B /\ R <= 2 * B
            /\ L = 0
        BY <2>1, <3>1 DEF Turn, Above, Below, OnTheSpot, abs, zerospeed, offset, RL_K
      <4> HIDE DEF l, r, B, L, R
      <4> QED BY <4>2, <4>3 DEF Slowed, abs
    <3>2. CASE js.y >= 112
      <4>1. /\ L \in Int /\ R \in Int /\ L >= 0 /\ R >= 0
            /\ L = 0 /\ R > 0
        BY <2>1, <3>2 DEF Turn, Above, Below, OnTheSpot, abs, zerospeed, offset, RL_K
      <4>2. Mix(js.x, js.y) = <<L - R, R - L>>
        BY <2>1, <3>2 DEF Mix, Below, Above, OnTheSpot, abs, zerospeed, offset
      <4>3. l = L - R /\ r = R - L
        BY <4>2
      <4> HIDE DEF l, r, L, R
      <4> QED BY <4>1, <4>3
    <3> QED BY <2>1, <3>1, <3>2
  <2> HIDE DEF l, r
  <2>6. /\ Scaled(l, js.scalar) \in Int /\ Scaled(r, js.scalar) \in Int
        /\ r <= l => Scaled(r, js.scalar) <= Scaled(l, js.scalar)
        /\ l <= r => Scaled(l, js.scalar) <= Scaled(r, js.scalar)
    BY <2>1, <2>3, ScaledSign, ScaledMonotone
  <2> QED BY <2>2, <2>4, <2>5, <2>6 DEF Sense, zerospeed, offset
<1> QED BY <1>1, Sent, PTL

-----------------------------------------------------------------------------
(* The range of what is sent.                                              *)

\* The knob never makes a speed larger than the stick alone.
LEMMA ScaledBound ==
  ASSUME NEW n \in Int, -128 <= n, n <= 128, NEW s \in Int, 0 <= s, s <= 255
  PROVE  Scaled(n, s) \in -128 .. 128
<1> DEFINE l == Limit(s)
<1>1. l \in Int /\ 0 <= l /\ l <= 125
  BY DEF Limit, MAX_motion_scalar
<1> HIDE DEF l
<1>2. n * l \in Int /\ n * l <= 16000
  <2>1. (128 - n) * l >= 0 /\ (128 - n) * l = 128 * l - n * l
    BY <1>1
  <2> QED BY <1>1, <2>1
<1>3. -16000 <= n * l
  <2>1. (128 + n) * l >= 0 /\ (128 + n) * l = 128 * l + n * l
    BY <1>1
  <2> QED BY <1>1, <1>2, <2>1
<1>4. PICK p \in Int : p = n * l /\ -16000 <= p /\ p <= 16000
  BY <1>2, <1>3
<1>5. Quotient(p, 125) \in -128 .. 128
  BY <1>4 DEF Quotient
<1> QED BY <1>4, <1>5 DEF Scaled, MAX_motion_scalar, l

\* Neither track gets more than a full stick, turning or not.
LEMMA MixBound ==
  ASSUME NEW x \in Int, 0 <= x, x <= 255, NEW y \in Int, 0 <= y, y <= 255
  PROVE  /\ -128 <= Mix(x, y)[1] /\ Mix(x, y)[1] <= 128
         /\ -128 <= Mix(x, y)[2] /\ Mix(x, y)[2] <= 128
<1> DEFINE L == Turn(Above(x), y)  R == Turn(Below(x), y)
           B == Below(y)  F == Above(y)
<1>1. /\ L \in Int /\ R \in Int /\ 0 <= L /\ L <= 64 /\ 0 <= R /\ R <= 64
      /\ B \in Int /\ F \in Int /\ 0 <= B /\ B <= 128 /\ 0 <= F /\ F <= 128
  BY DEF Turn, Above, Below, OnTheSpot, abs, zerospeed, offset, RL_K
<1>2. /\ Slowed(B, L) \in 0 .. 128 /\ Slowed(B, R) \in 0 .. 128
      /\ Slowed(F, L) \in 0 .. 128 /\ Slowed(F, R) \in 0 .. 128
  <2> HIDE DEF L, R, B, F
  <2>1. Slowed(B, L) \in 0 .. 128
    BY <1>1 DEF Slowed, abs
  <2>2. Slowed(B, R) \in 0 .. 128
    BY <1>1 DEF Slowed, abs
  <2>3. Slowed(F, L) \in 0 .. 128
    BY <1>1 DEF Slowed, abs
  <2>4. Slowed(F, R) \in 0 .. 128
    BY <1>1 DEF Slowed, abs
  <2> QED BY <2>1, <2>2, <2>3, <2>4
<1>3. CASE y < 112
  <2>1. Mix(x, y) = <<-Slowed(B, L), -Slowed(B, R)>>
    BY <1>3 DEF Mix, Below, Above, OnTheSpot, abs, zerospeed, offset
  <2>2. Mix(x, y)[1] = -Slowed(B, L) /\ Mix(x, y)[2] = -Slowed(B, R)
    BY <2>1
  <2> HIDE DEF L, R, B, F
  <2> QED BY <1>2, <2>2
<1>4. CASE y > 144
  <2>1. Mix(x, y) = <<Slowed(F, L), Slowed(F, R)>>
    BY <1>4 DEF Mix, Below, Above, OnTheSpot, abs, zerospeed, offset
  <2>2. Mix(x, y)[1] = Slowed(F, L) /\ Mix(x, y)[2] = Slowed(F, R)
    BY <2>1
  <2> HIDE DEF L, R, B, F
  <2> QED BY <1>2, <2>2
<1>5. CASE y >= 112 /\ y <= 144
  <2>1. Mix(x, y) = <<L - R, R - L>>
    BY <1>5 DEF Mix, Below, Above, OnTheSpot, abs, zerospeed, offset
  <2>2. Mix(x, y)[1] = L - R /\ Mix(x, y)[2] = R - L
    BY <2>1
  <2> HIDE DEF L, R
  <2> QED BY <1>1, <2>2
<1> QED BY <1>3, <1>4, <1>5

\* Every speed that is sent is a whole multiple of SPEED_K_VAL and no larger
\* than a full stick gives: 128 * 12000 stays far inside the drives' 32 bits.
THEOREM SpeedsFit == SteerSpec => []Fits32
<1>1. IInv => Fits32
  <2>1. CASE js = Rest /\ track = [R |-> 0, L |-> 0, F |-> 0]
    <3>1. 0 \in -128 .. 128 /\ \A m \in {"R", "L", "F"} : track[m] = 0 * SPEED_K_VAL
      BY <2>1 DEF SPEED_K_VAL
    <3> QED BY <3>1 DEF Fits32
  <2>2. ASSUME IInv, track = get_js_input(js) PROVE Fits32
    <3>1. /\ js.x \in Int /\ 0 <= js.x /\ js.x <= 255
          /\ js.y \in Int /\ 0 <= js.y /\ js.y <= 255
          /\ js.z \in Int /\ 0 <= js.z /\ js.z <= 255
          /\ js.scalar \in Int /\ 0 <= js.scalar /\ js.scalar <= 255
      BY <2>2 DEF IInv, AnyFrame
    <3> DEFINE dx == Driving(js, js.x)  dy == Driving(js, js.y)  z == Flipper(js)
               l == Mix(dx, dy)[1]  r == Mix(dx, dy)[2]  f == Above(z) - Below(z)
    <3>2. /\ track.R = Scaled(r, js.scalar) * SPEED_K_VAL
          /\ track.L = -Scaled(l, js.scalar) * SPEED_K_VAL
          /\ track.F = Scaled(f, js.scalar) * SPEED_K_VAL
      BY <2>2 DEF get_js_input
    <3>3. /\ dx \in Int /\ 0 <= dx /\ dx <= 255
          /\ dy \in Int /\ 0 <= dy /\ dy <= 255
      BY <3>1, DrivingRange
    <3>4. f \in Int /\ -128 <= f /\ f <= 128
      BY <3>1 DEF Flipper, Above, Below, zerospeed, offset
    <3> HIDE DEF dx, dy, f
    <3>5. /\ l \in Int /\ -128 <= l /\ l <= 128
          /\ r \in Int /\ -128 <= r /\ r <= 128
      BY <3>3, MixFacts, MixBound
    <3> HIDE DEF l, r
    <3>6. /\ Scaled(r, js.scalar) \in -128 .. 128
          /\ Scaled(f, js.scalar) \in -128 .. 128
          /\ Scaled(l, js.scalar) \in -128 .. 128
      BY <3>1, <3>4, <3>5, ScaledBound
    <3>7. -Scaled(l, js.scalar) \in -128 .. 128
      BY <3>6
    <3>8. \E n \in -128 .. 128 : track["R"] = n * SPEED_K_VAL
      BY <3>2, <3>6
    <3>9. \E n \in -128 .. 128 : track["L"] = n * SPEED_K_VAL
      BY <3>2, <3>6, <3>7 DEF SPEED_K_VAL
    <3>10. \E n \in -128 .. 128 : track["F"] = n * SPEED_K_VAL
      BY <3>2, <3>6
    <3> QED BY <3>8, <3>9, <3>10 DEF Fits32
  <2> QED BY <2>1, <2>2 DEF IInv
<1> QED BY <1>1, Sent, PTL
=============================================================================
