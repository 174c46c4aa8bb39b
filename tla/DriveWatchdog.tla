---------------------------- MODULE DriveWatchdog ----------------------------
(***************************************************************************)
(* What keeps the vehicle from running away: the main loop (main.c) turns  *)
(* operator (OCU) frames into motor speeds, the software timers of         *)
(* timer/timer.c count down beside it, and motion_send stops the platform  *)
(* when the OCU has been silent for OCU_RX_OUTTIME ticks.  The same timers *)
(* watch for the answers of the wheel drives.                              *)
(*                                                                         *)
(* Both threads write a timer's Times, neither holds a lock.  The timer    *)
(* thread's `if(TimeEn) if(Times) Times--` is three steps (two loads and a *)
(* store); a run of plain stores of the main loop between two calls is a   *)
(* set of stores that become visible in any order.                         *)
(*                                                                         *)
(* Motors are numbered in the order get_js_input and Platform_Stop write   *)
(* them: 1 = TRACK_R, 2 = TRACK_L, then FLIPPER.  Timer 0 is               *)
(* ocu_rx_timeout, timer w the motion_*_rx_timeout of wheel w.             *)
(***************************************************************************)
EXTENDS Integers

CONSTANTS
  NWheels,    \* wheel drives (2 in the code)
  OUTTIME,    \* OCU_RX_OUTTIME, ticks without a frame before the stop (40)
  RX_TIMEOUT, \* MOTION_{L,R}_RX_TIMEOUT, ticks without an answer (10)
  MaxQueue,   \* bound of the model: frames in the buffers when the OCU goes silent
  Lossy,      \* a write() to the motor port may fail (nobody looks)
  Garbage     \* the counts malloc may leave in Times: 0, another (Wild)

\* A count other than 0 that comes from malloc: time_create leaves Times as
\* it finds it.
Wild == -1

ASSUME DriveAssumption ==
  /\ NWheels \in Nat
  /\ OUTTIME \in Nat \ {0}
  /\ RX_TIMEOUT \in Nat \ {0}
  /\ MaxQueue \in Nat
  /\ Lossy \in BOOLEAN
  /\ Garbage \subseteq {0, Wild}

Ocu == 0
Wheels == 1 .. NWheels
FLIPPER == NWheels + 1
Motors == 1 .. FLIPPER
Timers == 0 .. NWheels

\* What the timer is set to when it is armed.
Outtime(t) == IF t = Ocu THEN OUTTIME ELSE RX_TIMEOUT

\* Times-- of a value other than 0.
Dec(n) == IF n = Wild THEN {Wild, 0} ELSE {n - 1}

\* The motors an OCU frame sets in motion; it sets the others to 0.
Frames == SUBSET Motors

VARIABLES
  TimeEn, Times,    \* T_TimeStop_Opr of each timer
  phase, cur, tmp,  \* the timer thread: its step, its timer, the value loaded
  pc, k,            \* the main loop: its step, the motor or wheel it is at
  frame,            \* the motors the frame moves, or the sender of the answer
  todo,             \* stores the main loop has issued and nobody has seen
  Error,            \* Track_R_Error, Track_L_Error: 0 ok, 1 silent, 2 fault
  speed,            \* what each drive runs at: 0 or not (1)
  link,             \* FALSE once the OCU is silent for good
  queued,           \* frames that are then still in the receive buffers
  age,              \* history: ticks since the main loop last set each timer
  owed              \* history: wheels sent a speed since their last answer

timerVars == <<phase, cur, tmp>>
mainVars == <<pc, k, frame, todo>>
envVars == <<link, queued>>
vars == <<TimeEn, Times, timerVars, mainVars, Error, speed, envVars, age, owed>>

Init ==
  /\ TimeEn = [t \in Timers |-> IF t = Ocu THEN 1 ELSE 0]
  /\ Times \in [Timers -> Garbage]
  /\ phase = "sleep" /\ cur = 0 /\ tmp = 0
  /\ pc = "ocu" /\ k = 1 /\ frame = {} /\ todo = {}
  /\ Error = [w \in Wheels |-> 0]
  /\ speed = [m \in Motors |-> 0]
  /\ link = TRUE /\ queued = 0
  /\ age = [t \in Timers |-> Outtime(t)]
  /\ owed = {}

-----------------------------------------------------------------------------
(* The timer thread (signal_handler).                                      *)

\* On to the next timer of the list, or to usleep after the last.
Visited ==
  /\ IF cur < NWheels THEN cur' = cur + 1 /\ phase' = "test"
                      ELSE cur' = 0 /\ phase' = "sleep"
  /\ age' = [age EXCEPT ![cur] = IF @ < Outtime(cur) THEN @ + 1 ELSE @]

\* usleep(5000) returns: a tick begins.
TimerWake ==
  /\ phase = "sleep"
  /\ phase' = "test"
  /\ UNCHANGED <<TimeEn, Times, cur, tmp, mainVars, Error, speed, envVars, age, owed>>

\* if(TimeEn)
TimerTest ==
  /\ phase = "test"
  /\ \/ TimeEn[cur] = 1 /\ phase' = "load" /\ UNCHANGED <<cur, age>>
     \/ TimeEn[cur] = 0 /\ Visited
  /\ UNCHANGED <<TimeEn, Times, tmp, mainVars, Error, speed, envVars, owed>>

\* Mutant: the count is not tested before it is decremented.
TimerLoadBare ==
  /\ phase = "load"
  /\ tmp' = Times[cur]
  /\ phase' = "store"
  /\ UNCHANGED <<TimeEn, Times, cur, mainVars, Error, speed, envVars, age, owed>>

\* if(Times)
TimerLoad ==
  /\ phase = "load"
  /\ \/ /\ Times[cur] # 0
        /\ tmp' = Times[cur]
        /\ phase' = "store"
        /\ UNCHANGED <<cur, age>>
     \/ Times[cur] = 0 /\ Visited /\ UNCHANGED tmp
  /\ UNCHANGED <<TimeEn, Times, mainVars, Error, speed, envVars, owed>>

\* Times-- : what was loaded, less one, whatever Times is by now.
TimerStore ==
  /\ phase = "store"
  /\ \E n \in Dec(tmp) : Times' = [Times EXCEPT ![cur] = n]
  /\ tmp' = 0
  /\ Visited
  /\ UNCHANGED <<TimeEn, mainVars, Error, speed, envVars, owed>>

TimerThread == TimerWake \/ TimerTest \/ TimerLoad \/ TimerStore

-----------------------------------------------------------------------------
(* The main loop.                                                          *)

\* Mutant: the count is set, the switch forgotten.
SetOnly(t) == {<<"Times", t, Outtime(t)>>}

\* The stores that switch a timer on, and those that switch it off.
Arm(t) == {<<"Times", t, Outtime(t)>>, <<"TimeEn", t, 1>>}
Disarm(t) == {<<"Times", t, Outtime(t)>>, <<"TimeEn", t, 0>>}

\* Mutant: the answers of the wheels are not waited for.
NoStores == {}

\* The last stores of get_js_input.
ArmWheels == UNION {Arm(w) : w \in Wheels}

\* Mutant: the count is expected to go below 0.
Overdue(t) == TimeEn[t] = 1 /\ Times[t] < 0

\* if(TimeEn) if(!Times)
Expired(t) == TimeEn[t] = 1 /\ Times[t] = 0

\* One of the stores issued becomes visible to the timer thread.
Flush ==
  /\ \E s \in todo :
       /\ IF s[1] = "Times" THEN /\ Times' = [Times EXCEPT ![s[2]] = s[3]]
                                 /\ UNCHANGED TimeEn
                            ELSE /\ TimeEn' = [TimeEn EXCEPT ![s[2]] = s[3]]
                                 /\ UNCHANGED Times
       /\ age' = [age EXCEPT ![s[2]] = 0]
       /\ todo' = todo \ {s}
  /\ UNCHANGED <<timerVars, pc, k, frame, Error, speed, envVars, owed>>

\* motor_set_speed: the result of the write is dropped by UsartSendDatafd.
motor_set_speed(m, v) ==
  \/ speed' = [speed EXCEPT ![m] = v]
  \/ Lossy /\ UNCHANGED speed

\* Rx_OCU_Prs without a complete frame.
NoFrame ==
  /\ pc = "ocu"
  /\ link \/ queued = 0
  /\ pc' = "checkOcu"
  /\ UNCHANGED <<TimeEn, Times, timerVars, k, frame, todo, Error, speed,
                 envVars, age, owed>>

\* Rx_OCU_Prs with a frame: the timer is set before anything is sent.
TakeFrame(f) ==
  /\ pc = "ocu"
  /\ \/ link /\ UNCHANGED queued
     \/ ~link /\ queued > 0 /\ queued' = queued - 1
  /\ frame' = f
  /\ todo' = Arm(Ocu)
  /\ k' = 1
  /\ pc' = "drive"
  /\ UNCHANGED <<TimeEn, Times, timerVars, Error, speed, link, age, owed>>

\* get_js_input: the speeds one motor after the other (with usleep between
\* them), then the answer timers of the wheels.
Drive ==
  /\ pc = "drive" /\ todo = {}
  /\ motor_set_speed(k, IF k \in frame THEN 1 ELSE 0)
  /\ owed' = owed \cup ({k} \cap Wheels)
  /\ IF k < FLIPPER
     THEN k' = k + 1 /\ UNCHANGED <<pc, frame, todo>>
     ELSE /\ k' = 1 /\ frame' = {}
          /\ todo' = ArmWheels
          /\ pc' = "checkOcu"
  /\ UNCHANGED <<TimeEn, Times, timerVars, Error, envVars, age>>

\* motion_send, the OCU timeout.
CheckOcu ==
  /\ pc = "checkOcu" /\ todo = {}
  /\ k' = 1
  /\ pc' = IF Expired(Ocu) THEN "stop" ELSE "checkWheels"
  /\ UNCHANGED <<TimeEn, Times, timerVars, frame, todo, Error, speed, envVars,
                 age, owed>>

\* Platform_Stop.
Stop ==
  /\ pc = "stop"
  /\ motor_set_speed(k, 0)
  /\ IF k < FLIPPER THEN k' = k + 1 /\ UNCHANGED pc
                    ELSE k' = 1 /\ pc' = "disarm"
  /\ UNCHANGED <<TimeEn, Times, timerVars, frame, todo, Error, envVars, age, owed>>

\* ... after which the timer is off until the next frame.
StopDone ==
  /\ pc = "disarm"
  /\ TimeEn' = [TimeEn EXCEPT ![Ocu] = 0]
  /\ pc' = "checkWheels"
  /\ UNCHANGED <<Times, timerVars, k, frame, todo, Error, speed, envVars, age, owed>>

\* motion_send, the answer timeouts (Platform_Stop is commented out there).
\* Only this thread writes TimeEn and Error: one step per wheel.
CheckWheel ==
  /\ pc = "checkWheels" /\ k <= NWheels
  /\ IF Expired(k)
     THEN /\ TimeEn' = [TimeEn EXCEPT ![k] = 0]
          /\ Error' = [Error EXCEPT ![k] = 1]
     ELSE UNCHANGED <<TimeEn, Error>>
  /\ k' = k + 1
  /\ UNCHANGED <<Times, timerVars, pc, frame, todo, speed, envVars, age, owed>>

\* Rx_Motion_Prs without a complete answer; the loop starts again.
NoAnswer ==
  /\ pc = "checkWheels" /\ k > NWheels
  /\ k' = 1
  /\ pc' = "ocu"
  /\ UNCHANGED <<TimeEn, Times, timerVars, frame, todo, Error, speed, envVars,
                 age, owed>>

\* Rx_Motion_Prs with an answer of drive m: its timer is set and off.
TakeAnswer(m, fault) ==
  /\ pc = "checkWheels" /\ k > NWheels
  /\ todo' = IF m \in Wheels THEN Disarm(m) ELSE {}
  /\ owed' = owed \ {m}
  /\ frame' = {m}
  /\ k' = 1
  /\ pc' = IF fault THEN "fault" ELSE "answered"
  /\ UNCHANGED <<TimeEn, Times, timerVars, Error, speed, envVars, age>>

\* A fault: the drives are initialised again (Motion_Init) and set to 0.
Fault ==
  /\ pc = "fault" /\ todo = {}
  /\ motor_set_speed(k, 0)
  /\ IF k < FLIPPER THEN k' = k + 1 /\ UNCHANGED pc
                    ELSE k' = 1 /\ pc' = "faulted"
  /\ UNCHANGED <<TimeEn, Times, timerVars, frame, todo, Error, envVars, age, owed>>

\* The state the answer reports.
Report ==
  /\ pc \in {"answered", "faulted"} /\ todo = {}
  /\ Error' = [w \in Wheels |-> IF w \notin frame THEN Error[w]
                                ELSE IF pc = "faulted" THEN 2 ELSE 0]
  /\ frame' = {}
  /\ pc' = "ocu"
  /\ UNCHANGED <<TimeEn, Times, timerVars, k, todo, speed, envVars, age, owed>>

MainLoop ==
  \/ Flush
  \/ NoFrame \/ (\E f \in Frames : TakeFrame(f)) \/ Drive
  \/ CheckOcu \/ Stop \/ StopDone \/ CheckWheel
  \/ NoAnswer \/ (\E m \in Motors, fault \in BOOLEAN : TakeAnswer(m, fault))
  \/ Fault \/ Report

-----------------------------------------------------------------------------
(* The operator.  What arrives is free, so frames and answers are chosen    *)
(* where they are parsed; only the end of the frames is an event.          *)

LinkLost ==
  /\ link
  /\ link' = FALSE
  /\ queued' \in 0 .. MaxQueue
  /\ UNCHANGED <<TimeEn, Times, timerVars, mainVars, Error, speed, age, owed>>

Next == TimerThread \/ MainLoop \/ LinkLost

Spec == Init /\ [][Next]_vars

\* Both threads keep being scheduled and the writes of the main loop return.
FairSpec == Spec /\ WF_vars(TimerThread) /\ WF_vars(MainLoop)

-----------------------------------------------------------------------------
(* Properties.                                                             *)

\* Type invariant; a count is malloc's or at most what the timer is armed with.
TypeOK ==
  /\ TimeEn \in [Timers -> {0, 1}]
  /\ Times \in [Timers -> Int]
  /\ \A t \in Timers : Times[t] = Wild \/ Times[t] \in 0 .. Outtime(t)
  /\ phase \in {"sleep", "test", "load", "store"}
  /\ cur \in Timers
  /\ tmp \in Int
  /\ phase = "store" => tmp = Wild \/ tmp \in 1 .. Outtime(cur)
  /\ pc \in {"ocu", "drive", "checkOcu", "stop", "disarm", "checkWheels",
             "answered", "fault", "faulted"}
  /\ k \in 1 .. (NWheels + 1)
  /\ frame \subseteq Motors
  /\ \A s \in todo : \E t \in Timers : s \in Arm(t) \cup Disarm(t)
  /\ Error \in [Wheels -> 0 .. 2]
  /\ speed \in [Motors -> {0, 1}]
  /\ link \in BOOLEAN
  /\ queued \in 0 .. MaxQueue
  /\ age \in [Timers -> Int]
  /\ \A t \in Timers : age[t] \in 0 .. Outtime(t)
  /\ owed \subseteq Wheels

Stopped == \A m \in Motors : speed[m] = 0

\* The vehicle never moves unwatched: as long as a drive has a speed other
\* than 0 the OCU timer is on (Rx_OCU_Prs arms before it drives, motion_send
\* stops before it disarms).
MovingImpliesArmed == ~Stopped => TimeEn[Ocu] = 1

\* The check of motion_send never lets the vehicle go on once OUTTIME ticks
\* have passed since the last frame, whatever stores of the timer thread and
\* the main loop overlapped, unless the count is still malloc's.
StopDeadline ==
  [][pc = "checkOcu" /\ pc' = "checkWheels" =>
       Stopped \/ age[Ocu] < OUTTIME \/ Times[Ocu] = Wild]_vars

\* A wheel that leaves a speed command unanswered for RX_TIMEOUT ticks is
\* reported by the next check of motion_send.
SilentWheelSeen ==
  [][\A w \in Wheels :
       pc = "checkWheels" /\ k = w /\ k' = w + 1 /\ w \in owed =>
         Error'[w] = 1 \/ age[w] < RX_TIMEOUT \/ Times[w] = Wild]_vars

\* The answer in hand (frame names its sender).
Answering(w) == pc \in {"answered", "fault", "faulted"} /\ w \in frame

\* Track_L_Error and Track_R_Error never accuse a wheel of silence that has
\* answered since it was last sent a speed.
ErrorOnlyIfOwed ==
  \A w \in Wheels : Error[w] = 1 => w \in owed \/ Answering(w)

\* When the OCU goes silent the vehicle comes to rest and stays at rest,
\* frames still in the buffers and late answers notwithstanding.
OcuSilenceStops == ~link ~> [](Stopped \/ Times[Ocu] = Wild)

\* include/timer.h:22 of the wheel timers: no answer, no power ("prevents
\* losing control").  Detecting the silence of a wheel leaves all at rest.
WheelSilenceStops ==
  [][\A w \in Wheels :
       pc = "checkWheels" /\ Error[w] # 1 /\ Error'[w] = 1 => Stopped']_vars
=============================================================================
