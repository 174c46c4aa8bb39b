------------------------------ MODULE Steering ------------------------------
(***************************************************************************)
(* get_js_input (communication/motion.c): how the joystick bytes of an OCU *)
(* frame become the speeds of the two tracks and the flipper.  The code    *)
(* computes in int and unsigned; no intermediate leaves 32 bits except the *)
(* unsigned subtractions, which wrap and come back through int, so the     *)
(* integers here are exact (see Fits32).                                   *)
(***************************************************************************)
EXTENDS Integers

CONSTANTS
  Bytes,   \* values a joystick axis takes
  Scalars, \* values the speed knob takes
  Digital  \* values of the byte of switches, pcoredata[5]

ASSUME SteeringAssumption ==
  /\ Bytes \subseteq 0 .. 255
  /\ Scalars \subseteq 0 .. 255
  /\ Digital \subseteq 0 .. 255

offset == 16
zerospeed == 128
RL_K == 2
MAX_motion_scalar == 125
SPEED_K_VAL == 12000

VARIABLES
  js,    \* the bytes of the frame last executed
  track  \* what was sent to the drives: TRACK_R, TRACK_L, FLIPPER

steerVars == <<js, track>>

abs(n) == IF n < 0 THEN -n ELSE n

\* The division of C rounds towards 0.
Quotient(n, d) == IF n < 0 THEN -((-n) \div d) ELSE n \div d

\* Bit b of a byte.
Bit(n, b) == (n \div (2 ^ b)) % 2

Parking(j) == Bit(j.digital, 7) = 1
E_Stop(j) == Bit(j.digital, 5) = 1
Flipper_lock(j) == Bit(j.digital, 2) = 1

\* Mutant: only one of the two switches centres the stick.
ParkingOnly(j, v) == IF Parking(j) THEN zerospeed ELSE v

\* Parking and emergency stop centre the driving axes, the lock the flipper's.
Driving(j, v) == IF Parking(j) \/ E_Stop(j) THEN zerospeed ELSE v
Flipper(j) == IF Flipper_lock(j) THEN zerospeed ELSE j.z

\* How far an axis is pushed beyond the dead zone, 0 inside it.
Above(v) == IF v > zerospeed + offset THEN v - zerospeed ELSE 0
Below(v) == IF v < zerospeed - offset THEN zerospeed - v ELSE 0

\* No throttle: the vehicle turns where it stands.
OnTheSpot(y) == abs(y - zerospeed) <= offset

\* Mutant: the turn is not halved.
FullTurn(n, y) == n

\* A turn on the spot is limited (50), one while driving is not.
Turn(n, y) == IF OnTheSpot(y) /\ n \div RL_K >= 50 THEN 50 ELSE n \div RL_K

\* Mutant: the throttle less the turn, without abs().
Difference(n, d) == n - d

\* A track that drives with throttle n and is slowed by the turn d.
Slowed(n, d) == abs(n - d)

\* Speed_L and Speed_R before the knob: <<left, right>>.  On the spot the
\* tracks run against each other (ZW_K is 1).
Mix(x, y) ==
  LET L_val == Turn(Above(x), y)
      R_val == Turn(Below(x), y)
  IN  CASE Below(y) > 0 -> <<-Slowed(Below(y), L_val), -Slowed(Below(y), R_val)>>
        [] Above(y) > 0 -> <<Slowed(Above(y), L_val), Slowed(Above(y), R_val)>>
        [] OnTheSpot(y) -> <<L_val - R_val, R_val - L_val>>

\* Mutant: the knob is not limited to MAX_motion_scalar.
Unlimited(s) == s

\* The knob (its lower limit is 0).
Limit(s) == IF s > MAX_motion_scalar THEN MAX_motion_scalar ELSE s

Scaled(n, s) == Quotient(n * Limit(s), MAX_motion_scalar)

get_js_input(j) ==
  LET m == Mix(Driving(j, j.x), Driving(j, j.y))
      z == Flipper(j)
  IN  [R |-> Scaled(m[2], j.scalar) * SPEED_K_VAL,
       L |-> -Scaled(m[1], j.scalar) * SPEED_K_VAL,
       F |-> Scaled(Above(z) - Below(z), j.scalar) * SPEED_K_VAL]

Rest == [x |-> zerospeed, y |-> zerospeed, z |-> zerospeed, scalar |-> 0,
         digital |-> 0]

SteerInit == js = Rest /\ track = [R |-> 0, L |-> 0, F |-> 0]

Execute(j) ==
  /\ js' = j
  /\ track' = get_js_input(j)

Commands == [x : Bytes, y : Bytes, z : Bytes, scalar : Scalars, digital : Digital]

SteerNext == \E j \in Commands : Execute(j)

SteerSpec == SteerInit /\ [][SteerNext]_steerVars

-----------------------------------------------------------------------------
(* Properties.                                                             *)

\* Type invariant: the speeds are the four bytes motor_set_speed sends, a
\* multiple of SPEED_K_VAL no larger than a full stick gives.
Fits32 ==
  \A m \in {"R", "L", "F"} :
    \E n \in -128 .. 128 : track[m] = n * SPEED_K_VAL

\* Parking or emergency stop: both tracks get speed 0 whatever the stick says.
StopStopsTracks == Parking(js) \/ E_Stop(js) => track.R = 0 /\ track.L = 0

\* While driving neither track is turned against the direction of the stick,
\* however hard the operator steers: above the middle is forward (motion.c:227),
\* and forward is right positive, left negative (the signs at motion.c:314; the
\* tracks are mounted mirrored).  Which branch motion.c:314 and 331 put these
\* signs on is SignsAsCommented.
NoCounterRotation ==
  /\ js.y < zerospeed - offset => track.R <= 0 /\ track.L >= 0
  /\ js.y > zerospeed + offset => track.R >= 0 /\ track.L <= 0

Moving(j) == ~Parking(j) /\ ~E_Stop(j)

\* What the branches of get_js_input say of themselves: motion.c:258 and 286 of
\* the turn on the spot, "both wheels positive" with the stick above the middle
\* and negative below it; motion.c:314 and 331 of driving, "right positive, left
\* negative" with the stick below the middle, the reverse above it.
SignsAsCommented ==
  LET spot == Moving(js) /\ OnTheSpot(js.y)
  IN  /\ spot /\ js.x > zerospeed + offset => track.R >= 0 /\ track.L >= 0
      /\ spot /\ js.x < zerospeed - offset => track.R <= 0 /\ track.L <= 0
      /\ Moving(js) /\ js.y < zerospeed - offset => track.R >= 0 /\ track.L <= 0
      /\ Moving(js) /\ js.y > zerospeed + offset => track.R <= 0 /\ track.L >= 0

\* The turn the operator asks for (motion.c:228): above the middle clockwise,
\* both tracks negative, below it the other way.
Sense(x, n) == /\ x > zerospeed + offset => n <= 0
               /\ x < zerospeed - offset => n >= 0

\* The vehicle turns the way the stick says, on the spot and (with the stick
\* below the middle) under way, as long as the turn is at most four times the
\* throttle: only beyond that does abs() make the slowed track the faster one.
SteersWithinThrottle ==
  /\ Moving(js)
  /\ js.y <= zerospeed + offset
  /\ OnTheSpot(js.y) \/ Above(js.x) + Below(js.x) <= 2 * RL_K * Below(js.y)
  => Sense(js.x, track.R + track.L)

\* What motion.c:228 says of the stick, "greater than 127 clockwise, less than
\* 127 counterclockwise", with no word of the throttle.
TurnsAsSteered ==
  Moving(js) /\ js.y <= zerospeed + offset => Sense(js.x, track.R + track.L)
=============================================================================
