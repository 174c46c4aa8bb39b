------------------------ MODULE DriveWatchdogProofs ------------------------
(***************************************************************************)
(* Proofs about DriveWatchdog, for every number of wheels and every        *)
(* timeout.  The inductive invariant has four parts besides the types:     *)
(* which stores can be outstanding where (Pending), when the OCU timer is  *)
(* on (Armed), how count and age add up under the unlocked decrement       *)
(* (Budget), and which wheel timers and errors stand for an answer that is *)
(* still due (Watched).                                                    *)
(***************************************************************************)
EXTENDS DriveWatchdog, TLAPS

\* What the main loop may still have in flight at each of its steps.
Pending ==
  /\ pc = "drive" => todo \subseteq Arm(Ocu)
  /\ pc = "checkOcu" => \A s \in todo : \E w \in Wheels : s \in Arm(w)
  /\ pc \in {"answered", "fault"} =>
       \A s \in todo : \E w \in Wheels : w \in frame /\ s \in Disarm(w)
  /\ pc \notin {"drive", "checkOcu", "answered", "fault"} => todo = {}

Armed ==
  /\ MovingImpliesArmed
  /\ pc = "drive" => TimeEn[Ocu] = 1 \/ <<"TimeEn", Ocu, 1>> \in todo
  /\ pc = "stop" => TimeEn[Ocu] = 1 /\ \A m \in Motors : m < k => speed[m] = 0
  /\ pc = "disarm" => Stopped

\* A running count and the ticks since it was set never exceed the timeout,
\* and neither does the count the timer thread is about to decrement.
Budget ==
  /\ \A t \in Timers : TimeEn[t] = 1 /\ Times[t] # Wild =>
       Times[t] + age[t] <= Outtime(t)
  /\ phase = "store" /\ tmp # Wild /\ TimeEn[cur] = 1 =>
       tmp + age[cur] <= Outtime(cur)

\* A wheel owes an answer as long as its timer runs, or is about to, or its
\* error is set, and not when it is answering.
Watched ==
  /\ \A w \in Wheels : w \in owed =>
       \/ TimeEn[w] = 1 \/ <<"TimeEn", w, 1>> \in todo
       \/ Error[w] = 1
       \/ pc = "drive" /\ w < k
  /\ \A w \in Wheels : Answering(w) => w \notin owed
  /\ \A w \in Wheels : TimeEn[w] = 1 \/ <<"TimeEn", w, 1>> \in todo =>
       w \in owed \/ (Answering(w) /\ <<"TimeEn", w, 0>> \in todo)
  /\ pc = "drive" => \A w \in Wheels : w < k => w \in owed
  /\ ErrorOnlyIfOwed

-----------------------------------------------------------------------------
LEMMA Numbers ==
  /\ NWheels \in Nat /\ OUTTIME \in Nat /\ OUTTIME >= 1
  /\ RX_TIMEOUT \in Nat /\ RX_TIMEOUT >= 1 /\ MaxQueue \in Nat
  /\ Ocu \in Timers /\ Wheels \subseteq Timers /\ Wheels \subseteq Motors
  /\ Ocu \notin Wheels
  /\ \A t \in Timers : Outtime(t) \in Nat /\ Outtime(t) >= 1
BY DriveAssumption DEF Ocu, Timers, Wheels, Motors, FLIPPER, Outtime

\* A store that is in flight: its timer, its field and its value.
LEMMA StoreShape ==
  ASSUME NEW t \in Timers, NEW s \in Arm(t) \cup Disarm(t)
  PROVE  /\ s[2] = t /\ s[1] \in {"Times", "TimeEn"}
         /\ s[1] = "Times" => s[3] = Outtime(t)
         /\ s[1] # "Times" => s[3] \in {0, 1}
BY DEF Arm, Disarm

LEMMA InitTypes == Init => TypeOK
<1> SUFFICES ASSUME Init PROVE TypeOK
  OBVIOUS
<1> USE Numbers, DriveAssumption DEF Init
<1>1. Times \in [Timers -> Int] /\ \A t \in Timers : Times[t] = Wild \/ Times[t] \in 0 .. Outtime(t)
  <2>1. Garbage \subseteq Int /\ \A g \in Garbage : g = Wild \/ g = 0
    BY DEF Wild
  <2>2. Times \in [Timers -> Int]
    BY <2>1
  <2>3. \A t \in Timers : Times[t] \in Garbage /\ 0 \in 0 .. Outtime(t)
    OBVIOUS
  <2> QED
    BY <2>1, <2>2, <2>3
<1>2. TimeEn \in [Timers -> {0, 1}] /\ speed \in [Motors -> {0, 1}] /\ Error \in [Wheels -> 0 .. 2]
  OBVIOUS
<1>3. age \in [Timers -> Int] /\ \A t \in Timers : age[t] \in 0 .. Outtime(t)
  OBVIOUS
<1>4. cur \in Timers /\ k \in 1 .. (NWheels + 1)
  BY DEF Timers
<1> QED
  BY <1>1, <1>2, <1>3, <1>4 DEF TypeOK

LEMMA TypeStep == TypeOK /\ [Next]_vars => TypeOK'
<1> SUFFICES ASSUME TypeOK, [Next]_vars PROVE TypeOK'
  OBVIOUS
<1> USE Numbers DEF TypeOK, timerVars, mainVars, envVars
<1>v. ASSUME Visited
      PROVE  /\ cur' \in Timers /\ phase' \in {"sleep", "test"}
             /\ age' \in [Timers -> Int] /\ \A t \in Timers : age'[t] \in 0 .. Outtime(t)
  <2>1. cur' \in Timers /\ phase' \in {"sleep", "test"}
    <3>1. IF cur < NWheels THEN cur' = cur + 1 /\ phase' = "test"
                           ELSE cur' = 0 /\ phase' = "sleep"
      BY <1>v DEF Visited
    <3>2. cur < NWheels => cur + 1 \in Timers
      BY DEF Timers
    <3>3. 0 \in Timers
      BY DEF Ocu
    <3> QED
      BY <3>1, <3>2, <3>3
  <2>a. PICK n \in 0 .. Outtime(cur) : age' = [age EXCEPT ![cur] = n]
    <3>1. cur \in Timers /\ age[cur] \in 0 .. Outtime(cur) /\ Outtime(cur) \in Nat
      OBVIOUS
    <3>2. CASE age[cur] < Outtime(cur)
      <4>1. age' = [age EXCEPT ![cur] = age[cur] + 1]
        BY <1>v, <3>2 DEF Visited
      <4>2. age[cur] + 1 \in 0 .. Outtime(cur)
        BY <3>1, <3>2
      <4> QED
        BY <4>1, <4>2
    <3>3. CASE ~(age[cur] < Outtime(cur))
      <4>1. age' = [age EXCEPT ![cur] = age[cur]]
        BY <1>v, <3>3 DEF Visited
      <4> QED
        BY <3>1, <4>1
    <3> QED
      BY <3>2, <3>3
  <2>2. age' \in [Timers -> Int]
    BY <2>a
  <2>3. \A t \in Timers : age'[t] \in 0 .. Outtime(t)
    BY <2>a
  <2> QED
    BY <2>1, <2>2, <2>3
<1>1. CASE TimerWake
  BY <1>1 DEF TimerWake
<1>2. CASE TimerTest
  BY <1>2, <1>v DEF TimerTest
<1>3. CASE TimerLoad
  <2>1. CASE Visited /\ UNCHANGED tmp
    BY <1>3, <1>v, <2>1 DEF TimerLoad
  <2>2. CASE Times[cur] # 0 /\ tmp' = Times[cur] /\ phase' = "store" /\ UNCHANGED <<cur, age>>
    BY <1>3, <2>2 DEF TimerLoad
  <2> QED
    BY <1>3, <2>1, <2>2 DEF TimerLoad
<1>4. CASE TimerStore
  <2>1. PICK n \in Dec(tmp) : Times' = [Times EXCEPT ![cur] = n]
    BY <1>4 DEF TimerStore
  <2>2. n = Wild \/ n \in 0 .. Outtime(cur)
    BY <1>4, <2>1 DEF Dec, TimerStore, Wild
  <2>3. n \in Int
    BY <2>2 DEF Wild
  <2>4. Times' \in [Timers -> Int] /\ \A t \in Timers : Times'[t] = Wild \/ Times'[t] \in 0 .. Outtime(t)
    BY <2>1, <2>2, <2>3
  <2> QED
    BY <1>4, <1>v, <2>4 DEF TimerStore
<1>5. CASE Flush
  <2>1. PICK s \in todo : /\ IF s[1] = "Times" THEN /\ Times' = [Times EXCEPT ![s[2]] = s[3]]
                                                     /\ UNCHANGED TimeEn
                                                ELSE /\ TimeEn' = [TimeEn EXCEPT ![s[2]] = s[3]]
                                                     /\ UNCHANGED Times
                          /\ age' = [age EXCEPT ![s[2]] = 0]
                          /\ todo' = todo \ {s}
    BY <1>5 DEF Flush
  <2>2. PICK t \in Timers : s \in Arm(t) \cup Disarm(t)
    BY <2>1
  <2>3. /\ s[2] = t /\ s[1] \in {"Times", "TimeEn"}
        /\ s[1] = "Times" => s[3] = Outtime(t)
        /\ s[1] # "Times" => s[3] \in {0, 1}
    BY <2>2, StoreShape
  <2>4. Times' \in [Timers -> Int] /\ \A u \in Timers : Times'[u] = Wild \/ Times'[u] \in 0 .. Outtime(u)
    BY <2>1, <2>3
  <2>5. TimeEn' \in [Timers -> {0, 1}]
    BY <2>1, <2>3
  <2>6. age' \in [Timers -> Int] /\ \A u \in Timers : age'[u] \in 0 .. Outtime(u)
    BY <2>1, <2>3
  <2>7. \A x \in todo' : \E u \in Timers : x \in Arm(u) \cup Disarm(u)
    BY <2>1
  <2> QED
    BY <1>5, <2>4, <2>5, <2>6, <2>7 DEF Flush
<1>s. ASSUME NEW m \in Motors, NEW v \in {0, 1}, motor_set_speed(m, v)
      PROVE  speed' \in [Motors -> {0, 1}]
  BY <1>s DEF motor_set_speed
<1>k. k \in Int /\ (k \in Wheels => k + 1 \in 1 .. (NWheels + 1)) /\ k \in Motors
      /\ 1 \in 1 .. (NWheels + 1)
  BY DEF Wheels, Motors, FLIPPER
<1>6. CASE NoFrame
  BY <1>6 DEF NoFrame
<1>7. ASSUME NEW f \in Frames, TakeFrame(f) PROVE TypeOK'
  <2>1. \A s \in todo' : \E t \in Timers : s \in Arm(t) \cup Disarm(t)
    BY <1>7 DEF TakeFrame
  <2>2. frame' \subseteq Motors
    BY <1>7 DEF TakeFrame, Frames
  <2> QED
    BY <1>7, <1>k, <2>1, <2>2 DEF TakeFrame
<1>8. CASE Drive
  <2>1. speed' \in [Motors -> {0, 1}]
    BY <1>8, <1>k, <1>s DEF Drive
  <2>2. owed' \subseteq Wheels /\ frame' \subseteq Motors
    BY <1>8 DEF Drive
  <2>3. \A s \in todo' : \E t \in Timers : s \in Arm(t) \cup Disarm(t)
    BY <1>8 DEF Drive, ArmWheels
  <2>4. k' \in 1 .. (NWheels + 1)
    BY <1>8, <1>k DEF Drive, FLIPPER
  <2> QED
    BY <1>8, <2>1, <2>2, <2>3, <2>4 DEF Drive
<1>9. CASE CheckOcu
  BY <1>9, <1>k DEF CheckOcu, Expired
<1>10. CASE Stop
  <2>1. speed' \in [Motors -> {0, 1}]
    BY <1>10, <1>k, <1>s DEF Stop
  <2>2. k' \in 1 .. (NWheels + 1)
    BY <1>10, <1>k DEF Stop, FLIPPER
  <2> QED
    BY <1>10, <2>1, <2>2 DEF Stop
<1>11. CASE StopDone
  BY <1>11 DEF StopDone
<1>12. CASE CheckWheel
  <2>1. k \in Wheels
    BY <1>12, <1>k DEF CheckWheel, Wheels
  <2>2. TimeEn' \in [Timers -> {0, 1}] /\ Error' \in [Wheels -> 0 .. 2]
    BY <1>12, <2>1 DEF CheckWheel, Expired
  <2> QED
    BY <1>12, <1>k, <2>1, <2>2 DEF CheckWheel, Expired
<1>13. CASE NoAnswer
  BY <1>13, <1>k DEF NoAnswer
<1>14. ASSUME NEW m \in Motors, NEW fault \in BOOLEAN, TakeAnswer(m, fault) PROVE TypeOK'
  <2>1. \A s \in todo' : \E t \in Timers : s \in Arm(t) \cup Disarm(t)
    BY <1>14 DEF TakeAnswer
  <2> QED
    BY <1>14, <1>k, <2>1 DEF TakeAnswer
<1>15. CASE Fault
  <2>1. speed' \in [Motors -> {0, 1}]
    BY <1>15, <1>k, <1>s DEF Fault
  <2>2. k' \in 1 .. (NWheels + 1)
    BY <1>15, <1>k DEF Fault, FLIPPER
  <2> QED
    BY <1>15, <2>1, <2>2 DEF Fault
<1>16. CASE Report
  <2>1. Error' \in [Wheels -> 0 .. 2]
    BY <1>16 DEF Report
  <2> QED
    BY <1>16, <2>1 DEF Report
<1>17. CASE LinkLost
  BY <1>17 DEF LinkLost
<1>18. CASE UNCHANGED vars
  BY <1>18 DEF vars
<1> QED
  BY <1>1, <1>2, <1>3, <1>4, <1>5, <1>6, <1>7, <1>8, <1>9, <1>10, <1>11, <1>12,
     <1>13, <1>14, <1>15, <1>16, <1>17, <1>18 DEF Next, TimerThread, MainLoop
-----------------------------------------------------------------------------
(* The stores in flight.                                                   *)

LEMMA InitPending == Init => Pending
BY DEF Init, Pending

LEMMA PendingStep == TypeOK /\ Pending /\ [Next]_vars => Pending'
<1> SUFFICES ASSUME TypeOK, Pending, [Next]_vars PROVE Pending'
  OBVIOUS
<1> USE DEF Pending, timerVars, mainVars, envVars
<1>1. CASE TimerThread \/ LinkLost \/ UNCHANGED vars
  <2>1. UNCHANGED <<pc, todo, frame>>
    BY <1>1 DEF TimerThread, TimerWake, TimerTest, TimerLoad, TimerStore, LinkLost, vars
  <2> QED
    BY <2>1
<1>2. CASE Flush
  <2>1. todo' \subseteq todo /\ UNCHANGED <<pc, frame>>
    BY <1>2 DEF Flush
  <2> QED
    BY <2>1
<1>3. CASE NoFrame
  BY <1>3 DEF NoFrame
<1>4. ASSUME NEW f \in Frames, TakeFrame(f) PROVE Pending'
  BY <1>4 DEF TakeFrame
<1>5. CASE Drive
  <2>1. CASE k < FLIPPER
    BY <1>5, <2>1 DEF Drive
  <2>2. CASE ~(k < FLIPPER)
    <3>1. pc' = "checkOcu" /\ todo' = ArmWheels
      BY <1>5, <2>2 DEF Drive
    <3>2. \A s \in todo' : \E w \in Wheels : s \in Arm(w)
      BY <3>1 DEF ArmWheels
    <3> QED
      BY <3>1, <3>2
  <2> QED
    BY <2>1, <2>2
<1>6. CASE CheckOcu
  BY <1>6 DEF CheckOcu, Expired
<1>7. CASE Stop
  BY <1>7 DEF Stop
<1>8. CASE StopDone
  BY <1>8 DEF StopDone
<1>9. CASE CheckWheel \/ NoAnswer
  BY <1>9 DEF CheckWheel, NoAnswer
<1>10. ASSUME NEW m \in Motors, NEW fault \in BOOLEAN, TakeAnswer(m, fault)
       PROVE  Pending'
  <2>1. pc' \in {"fault", "answered"} /\ frame' = {m}
        /\ todo' = IF m \in Wheels THEN Disarm(m) ELSE {}
    BY <1>10 DEF TakeAnswer
  <2> QED
    BY <2>1
<1>11. CASE Fault
  BY <1>11 DEF Fault
<1>12. CASE Report
  BY <1>12 DEF Report
<1> QED
  BY <1>1, <1>2, <1>3, <1>4, <1>5, <1>6, <1>7, <1>8, <1>9, <1>10, <1>11, <1>12
  DEF Next, MainLoop

-----------------------------------------------------------------------------
(* The OCU timer is on while anything moves.                               *)

LEMMA InitArmed == Init => Armed
BY Numbers DEF Init, Armed, MovingImpliesArmed, Stopped

LEMMA ArmedStep ==
  ASSUME ~Lossy
  PROVE  TypeOK /\ Pending /\ Armed /\ [Next]_vars => Armed'
<1> SUFFICES ASSUME TypeOK, Pending, Armed, [Next]_vars PROVE Armed'
  OBVIOUS
<1> USE Numbers DEF Armed, MovingImpliesArmed, timerVars, mainVars, envVars
<1>k. k \in Motors /\ speed \in [Motors -> {0, 1}] /\ TimeEn \in [Timers -> {0, 1}]
      /\ \A m \in Motors : m \in Int /\ m >= 1 /\ m <= FLIPPER
  <2>1. k \in Motors
    BY DEF TypeOK, Motors, FLIPPER
  <2>2. speed \in [Motors -> {0, 1}] /\ TimeEn \in [Timers -> {0, 1}]
    BY DEF TypeOK
  <2>3. \A m \in Motors : m \in Int /\ m >= 1 /\ m <= FLIPPER
    BY DEF Motors, FLIPPER
  <2> QED BY <2>1, <2>2, <2>3
<1>1. CASE TimerThread \/ LinkLost \/ UNCHANGED vars
  <2>1. UNCHANGED <<pc, k, todo, TimeEn, speed>>
    BY <1>1 DEF TimerThread, TimerWake, TimerTest, TimerLoad, TimerStore, LinkLost, vars
  <2> QED
    BY <2>1 DEF Stopped
<1>2. CASE Flush
  <2>1. PICK s \in todo : /\ IF s[1] = "Times" THEN UNCHANGED TimeEn
                             ELSE TimeEn' = [TimeEn EXCEPT ![s[2]] = s[3]]
                          /\ todo' = todo \ {s}
    BY <1>2 DEF Flush
  <2>2. UNCHANGED <<pc, k, speed>>
    BY <1>2 DEF Flush
  <2>3. CASE pc = "drive"
    <3>1. s = <<"Times", Ocu, Outtime(Ocu)>> \/ s = <<"TimeEn", Ocu, 1>>
      BY <2>1, <2>3 DEF Pending, Arm
    <3>2. CASE s = <<"Times", Ocu, Outtime(Ocu)>>
      <4>1. UNCHANGED TimeEn
        BY <2>1, <3>2
      <4>2. <<"TimeEn", Ocu, 1>> \in todo => <<"TimeEn", Ocu, 1>> \in todo'
        BY <2>1, <3>2
      <4> QED
        BY <2>2, <2>3, <4>1, <4>2 DEF Stopped
    <3>3. CASE s = <<"TimeEn", Ocu, 1>>
      <4>1. TimeEn'[Ocu] = 1
        BY <1>k, <2>1, <3>3
      <4> QED
        BY <2>2, <2>3, <4>1
    <3> QED
      BY <3>1, <3>2, <3>3
  <2>4. CASE pc # "drive"
    <3>1. PICK w \in Wheels : s \in Arm(w) \cup Disarm(w)
      BY <2>1, <2>4 DEF Pending
    <3>2. s[2] = w
      BY <3>1, StoreShape
    <3>3. TimeEn'[Ocu] = TimeEn[Ocu]
      BY <1>k, <2>1, <3>2
    <3> QED
      BY <2>2, <2>4, <3>3 DEF Stopped
  <2> QED
    BY <2>3, <2>4
<1>3. CASE NoFrame \/ NoAnswer \/ Report
  <2>1. UNCHANGED <<TimeEn, speed>> /\ pc' \in {"checkOcu", "ocu"}
    BY <1>3 DEF NoFrame, NoAnswer, Report
  <2> QED
    BY <2>1 DEF Stopped
<1>4. ASSUME NEW f \in Frames, TakeFrame(f) PROVE Armed'
  <2>1. UNCHANGED <<TimeEn, speed>> /\ pc' = "drive" /\ <<"TimeEn", Ocu, 1>> \in todo'
    BY <1>4 DEF TakeFrame, Arm
  <2> QED
    BY <2>1 DEF Stopped
<1>5. CASE Drive
  <2>1. TimeEn[Ocu] = 1 /\ UNCHANGED TimeEn /\ pc' \in {"drive", "checkOcu"}
    BY <1>5 DEF Drive
  <2> QED
    BY <2>1
<1>6. CASE CheckOcu
  <2>1. UNCHANGED <<TimeEn, speed>> /\ k' = 1
        /\ ((pc' = "stop" /\ TimeEn[Ocu] = 1) \/ pc' = "checkWheels")
    BY <1>6 DEF CheckOcu, Expired
  <2> QED
    BY <1>k, <2>1 DEF Stopped
<1>7. CASE Stop
  <2>1. speed' = [speed EXCEPT ![k] = 0] /\ UNCHANGED TimeEn /\ TimeEn[Ocu] = 1
    BY <1>7 DEF Stop, motor_set_speed
  <2>2. \A m \in Motors : m < k + 1 => speed'[m] = 0
    <3>1. ASSUME NEW m \in Motors, m < k + 1 PROVE speed'[m] = 0
      <4>1. m < k \/ m = k
        BY <1>k, <3>1
      <4> QED
        BY <1>7, <1>k, <2>1, <4>1 DEF Stop
    <3> QED
      BY <3>1
  <2>3. CASE k < FLIPPER
    <3>1. pc' = "stop" /\ k' = k + 1
      BY <1>7, <2>3 DEF Stop
    <3> QED
      BY <2>1, <2>2, <3>1
  <2>4. CASE ~(k < FLIPPER)
    <3>1. pc' = "disarm"
      BY <1>7, <2>4 DEF Stop
    <3>2. k = FLIPPER
      BY <1>k, <2>4 DEF FLIPPER
    <3>3. Stopped'
      BY <1>k, <2>2, <3>2 DEF Stopped, FLIPPER
    <3> QED
      BY <2>1, <3>1, <3>3
  <2> QED
    BY <2>3, <2>4
<1>8. CASE StopDone
  <2>1. Stopped' /\ pc' = "checkWheels"
    BY <1>8 DEF StopDone, Stopped
  <2> QED
    BY <2>1
<1>9. CASE CheckWheel
  <2>1. k \in Wheels /\ UNCHANGED <<speed, pc>> /\ pc = "checkWheels"
    BY <1>9, <1>k DEF CheckWheel, Wheels, Motors
  <2>2. TimeEn'[Ocu] = TimeEn[Ocu]
    BY <1>9, <1>k, <2>1 DEF CheckWheel, Expired
  <2> QED
    BY <2>1, <2>2 DEF Stopped
<1>10. ASSUME NEW m \in Motors, NEW fault \in BOOLEAN, TakeAnswer(m, fault)
       PROVE  Armed'
  <2>1. UNCHANGED <<TimeEn, speed>> /\ pc' \in {"fault", "answered"}
    BY <1>10 DEF TakeAnswer
  <2> QED
    BY <2>1 DEF Stopped
<1>11. CASE Fault
  <2>1. speed' = [speed EXCEPT ![k] = 0] /\ UNCHANGED TimeEn /\ pc' \in {"fault", "faulted"}
    BY <1>11 DEF Fault, motor_set_speed
  <2>2. Stopped => Stopped'
    BY <1>k, <2>1 DEF Stopped
  <2> QED
    BY <2>1, <2>2
<1> QED
  BY <1>1, <1>2, <1>3, <1>4, <1>5, <1>6, <1>7, <1>8, <1>9, <1>10, <1>11
  DEF Next, MainLoop

-----------------------------------------------------------------------------
(* Counts and ticks.                                                       *)

LEMMA InitBudget == Init => Budget
<1> SUFFICES ASSUME Init PROVE Budget
  OBVIOUS
<1>1. \A t \in Timers : Times[t] = Wild \/ Times[t] = 0
  BY DriveAssumption DEF Init
<1> QED
  BY <1>1, Numbers DEF Init, Budget

\* A pass of the timer thread over a timer counts as at most one tick.
LEMMA VisitAge ==
  ASSUME TypeOK, Visited
  PROVE  /\ age'[cur] <= age[cur] + 1
         /\ \A t \in Timers : t # cur => age'[t] = age[t]
         /\ phase' # "store"
<1> USE DEF TypeOK
<1>1. age[cur] \in Int /\ cur \in Timers
  OBVIOUS
<1>2. phase' # "store"
  BY DEF Visited
<1>3. age' = [age EXCEPT ![cur] = age[cur] + 1] \/ age' = [age EXCEPT ![cur] = age[cur]]
  BY DEF Visited
<1> QED
  BY <1>1, <1>2, <1>3

LEMMA BudgetStep == TypeOK /\ Budget /\ [Next]_vars => Budget'
<1> SUFFICES ASSUME TypeOK, Budget, [Next]_vars PROVE Budget'
  OBVIOUS
<1>t. TypeOK'
  BY TypeStep
<1>n. \A t \in Timers : /\ age[t] \in Int /\ age'[t] \in Int /\ age[t] <= Outtime(t)
                        /\ age'[t] <= Outtime(t) /\ Outtime(t) \in Int
  BY <1>t, Numbers DEF TypeOK
<1>c. cur \in Timers /\ tmp \in Int /\ Times \in [Timers -> Int] /\ TimeEn \in [Timers -> {0, 1}]
  BY DEF TypeOK
<1> USE DEF Budget, timerVars, mainVars, envVars
<1>1. CASE TimerWake
  BY <1>1 DEF TimerWake
<1>2. CASE TimerTest
  <2>1. CASE TimeEn[cur] = 0 /\ Visited
    <3>1. UNCHANGED <<TimeEn, Times>>
      BY <1>2 DEF TimerTest
    <3> QED
      BY <2>1, <3>1, VisitAge
  <2>2. CASE phase' = "load" /\ UNCHANGED <<cur, age>>
    BY <1>2, <2>2 DEF TimerTest
  <2> QED
    BY <1>2, <2>1, <2>2 DEF TimerTest
<1>3. CASE TimerLoad
  <2>0. UNCHANGED <<TimeEn, Times>>
    BY <1>3 DEF TimerLoad
  <2>1. CASE Times[cur] = 0 /\ Visited
    BY <1>n, <1>c, <2>0, <2>1, VisitAge
  <2>2. CASE tmp' = Times[cur] /\ phase' = "store" /\ UNCHANGED <<cur, age>>
    BY <1>c, <2>0, <2>2
  <2> QED
    BY <1>3, <2>1, <2>2 DEF TimerLoad
<1>4. CASE TimerStore
  <2>1. PICK n \in Dec(tmp) : Times' = [Times EXCEPT ![cur] = n]
    BY <1>4 DEF TimerStore
  <2>2. Visited /\ UNCHANGED TimeEn /\ phase = "store"
    BY <1>4 DEF TimerStore
  <2>3. ASSUME TimeEn[cur] = 1, n # Wild PROVE n + age'[cur] <= Outtime(cur)
    <3>1. CASE n = 0
      BY <1>n, <1>c, <3>1
    <3>2. CASE tmp # Wild /\ n = tmp - 1
      <4>1. tmp + age[cur] <= Outtime(cur)
        BY <2>2, <2>3, <3>2
      <4>2. age'[cur] <= age[cur] + 1
        BY <2>2, VisitAge
      <4> QED
        BY <1>n, <1>c, <3>2, <4>1, <4>2
    <3> QED
      BY <2>1, <2>3, <3>1, <3>2 DEF Dec
  <2>4. ASSUME NEW t \in Timers, TimeEn'[t] = 1, Times'[t] # Wild
        PROVE  Times'[t] + age'[t] <= Outtime(t)
    <3>1. CASE t = cur
      BY <1>c, <2>1, <2>2, <2>3, <2>4, <3>1
    <3>2. CASE t # cur
      BY <1>c, <2>1, <2>2, <2>4, <3>2, VisitAge
    <3> QED
      BY <3>1, <3>2
  <2> QED
    BY <2>2, <2>4, VisitAge
<1>5. CASE Flush
  <2>1. PICK s \in todo : /\ IF s[1] = "Times" THEN /\ Times' = [Times EXCEPT ![s[2]] = s[3]]
                                                     /\ UNCHANGED TimeEn
                                                ELSE /\ TimeEn' = [TimeEn EXCEPT ![s[2]] = s[3]]
                                                     /\ UNCHANGED Times
                          /\ age' = [age EXCEPT ![s[2]] = 0]
    BY <1>5 DEF Flush
  <2>2. PICK u \in Timers : s \in Arm(u) \cup Disarm(u)
    BY <2>1 DEF TypeOK
  <2>3. s[2] = u
    BY <2>2, StoreShape
  <2>4. UNCHANGED <<phase, cur, tmp>>
    BY <1>5 DEF Flush
  <2>5. age'[u] = 0 /\ \A t \in Timers : t # u => age'[t] = age[t] /\ Times'[t] = Times[t] /\ TimeEn'[t] = TimeEn[t]
    BY <1>c, <2>1, <2>3 DEF TypeOK
  <2>6. ASSUME NEW t \in Timers, TimeEn'[t] = 1, Times'[t] # Wild
        PROVE  Times'[t] + age'[t] <= Outtime(t)
    <3>1. Times'[t] \in 0 .. Outtime(t)
      BY <1>t, <2>6 DEF TypeOK
    <3> QED
      BY <1>n, <2>5, <2>6, <3>1
  <2>7. ASSUME phase' = "store", tmp' # Wild, TimeEn'[cur'] = 1
        PROVE  tmp' + age'[cur'] <= Outtime(cur')
    <3>1. tmp \in 1 .. Outtime(cur)
      BY <2>4, <2>7 DEF TypeOK
    <3> QED
      BY <1>c, <1>n, <2>4, <2>5, <2>7, <3>1
  <2> QED
    BY <2>6, <2>7
<1>6. ASSUME UNCHANGED <<Times, age, phase, cur, tmp>>,
             \A t \in Timers : TimeEn'[t] = 1 => TimeEn[t] = 1
      PROVE  Budget'
  BY <1>6, <1>c
<1>7. CASE CheckWheel
  <2>1. k \in Timers
    BY <1>7 DEF CheckWheel, TypeOK, Timers
  <2>2. \A t \in Timers : TimeEn'[t] = 1 => TimeEn[t] = 1
    BY <1>7, <1>c, <2>1 DEF CheckWheel, Expired
  <2> QED
    BY <1>6, <1>7, <2>2 DEF CheckWheel, Expired
<1>8. CASE StopDone
  <2>1. \A t \in Timers : TimeEn'[t] = 1 => TimeEn[t] = 1
    BY <1>8, <1>c DEF StopDone
  <2> QED
    BY <1>6, <1>8, <2>1 DEF StopDone
<1>9. CASE \/ NoFrame \/ (\E f \in Frames : TakeFrame(f)) \/ Drive \/ CheckOcu \/ Stop
           \/ NoAnswer \/ (\E m \in Motors, fault \in BOOLEAN : TakeAnswer(m, fault))
           \/ Fault \/ Report \/ LinkLost \/ UNCHANGED vars
  <2>1. UNCHANGED <<TimeEn, Times, age, phase, cur, tmp>>
    BY <1>9 DEF NoFrame, TakeFrame, Drive, CheckOcu, Stop, NoAnswer, TakeAnswer,
       Fault, Report, LinkLost, vars
  <2> QED
    BY <1>6, <2>1
<1> QED
  BY <1>1, <1>2, <1>3, <1>4, <1>5, <1>7, <1>8, <1>9 DEF Next, TimerThread, MainLoop

-----------------------------------------------------------------------------
(* The answers that are due.                                               *)

LEMMA InitWatched == Init => Watched
BY Numbers DEF Init, Watched, Answering, ErrorOnlyIfOwed

LEMMA WatchedStep == TypeOK /\ Pending /\ Watched /\ [Next]_vars => Watched'
<1> SUFFICES ASSUME TypeOK, Pending, Watched, [Next]_vars PROVE Watched'
  OBVIOUS
<1> USE Numbers DEF Watched, Answering, ErrorOnlyIfOwed, timerVars, mainVars, envVars
<1>c. /\ TimeEn \in [Timers -> {0, 1}] /\ k \in Int /\ Error \in [Wheels -> 0 .. 2]
      /\ \A w \in Wheels : w \in Int /\ w < FLIPPER
  BY DEF TypeOK, Wheels, FLIPPER
<1>1. CASE TimerThread \/ LinkLost \/ UNCHANGED vars
  <2>1. UNCHANGED <<pc, k, todo, frame, TimeEn, Error, owed>>
    BY <1>1 DEF TimerThread, TimerWake, TimerTest, TimerLoad, TimerStore, LinkLost, vars
  <2> QED
    BY <2>1
<1>2. CASE Flush
  <2>1. PICK s \in todo : /\ IF s[1] = "Times" THEN UNCHANGED TimeEn
                             ELSE TimeEn' = [TimeEn EXCEPT ![s[2]] = s[3]]
                          /\ todo' = todo \ {s}
    BY <1>2 DEF Flush
  <2>2. UNCHANGED <<pc, k, frame, Error, owed>>
    BY <1>2 DEF Flush
  <2>3. PICK t \in Timers : s \in Arm(t) \cup Disarm(t)
    BY <2>1 DEF TypeOK
  <2>4. ASSUME NEW w \in Wheels
        PROVE  /\ TimeEn[w] = 1 \/ <<"TimeEn", w, 1>> \in todo =>
                    \/ TimeEn'[w] = 1 \/ <<"TimeEn", w, 1>> \in todo'
                    \/ s = <<"TimeEn", w, 0>>
               /\ TimeEn'[w] = 1 \/ <<"TimeEn", w, 1>> \in todo' =>
                    TimeEn[w] = 1 \/ <<"TimeEn", w, 1>> \in todo
               /\ s = <<"TimeEn", w, 0>> => TimeEn'[w] = 0
    BY <1>c, <2>1, <2>3 DEF Arm, Disarm
  <2>5. ASSUME NEW w \in Wheels, s = <<"TimeEn", w, 0>>
        PROVE  Answering(w) /\ <<"TimeEn", w, 1>> \notin todo
    <3>1. pc \in {"answered", "fault"}
      BY <2>1, <2>5 DEF Pending, Arm
    <3>2. PICK v \in Wheels : v \in frame /\ s \in Disarm(v)
      BY <2>1, <3>1 DEF Pending
    <3>3. v = w
      BY <2>5, <3>2 DEF Disarm
    <3>4. <<"TimeEn", w, 1>> \notin todo
      BY <3>1 DEF Pending, Disarm
    <3> QED
      BY <3>1, <3>2, <3>3, <3>4
  <2>6. \A w \in Wheels : w \in owed => s # <<"TimeEn", w, 0>>
    BY <2>5
  <2>7. \A w \in Wheels : <<"TimeEn", w, 0>> \in todo =>
          <<"TimeEn", w, 0>> \in todo' \/ s = <<"TimeEn", w, 0>>
    BY <2>1
  <2>8. \A w \in Wheels : TimeEn'[w] = 1 \/ <<"TimeEn", w, 1>> \in todo' =>
          w \in owed \/ (Answering(w) /\ <<"TimeEn", w, 0>> \in todo')
    <3>1. ASSUME NEW w \in Wheels, TimeEn'[w] = 1 \/ <<"TimeEn", w, 1>> \in todo'
          PROVE  w \in owed \/ (Answering(w) /\ <<"TimeEn", w, 0>> \in todo')
      <4>1. s # <<"TimeEn", w, 0>>
        BY <2>1, <2>4, <2>5, <3>1
      <4> QED
        BY <2>4, <2>7, <3>1, <4>1
    <3> QED
      BY <3>1
  <2> QED
    BY <2>2, <2>4, <2>6, <2>8
<1>3. CASE NoFrame
  BY <1>3 DEF NoFrame
<1>4. ASSUME NEW f \in Frames, TakeFrame(f) PROVE Watched'
  <2>1. /\ UNCHANGED <<TimeEn, Error, owed>> /\ pc = "ocu" /\ pc' = "drive" /\ k' = 1
        /\ todo' = Arm(Ocu)
    BY <1>4 DEF TakeFrame
  <2>2. todo = {}
    BY <2>1 DEF Pending
  <2>3. \A w \in Wheels : w >= 1 /\ <<"TimeEn", w, 1>> \notin todo'
    BY <2>1 DEF Arm, Ocu, Wheels
  <2>4. \A w \in Wheels : w \in owed <=> TimeEn[w] = 1 \/ (w \in owed /\ Error[w] = 1)
    BY <2>1, <2>2
  <2>5. \A w \in Wheels : Error[w] = 1 => w \in owed
    BY <2>1
  <2>6. \A w \in Wheels : ~(w < 1)
    BY Numbers DEF Wheels
  <2>7. \A w \in Wheels : w \in owed' => TimeEn'[w] = 1 \/ Error'[w] = 1
    BY <2>1, <2>4
  <2>8. \A w \in Wheels : Answering(w)' => w \notin owed'
    BY <2>1
  <2>9. \A w \in Wheels : TimeEn'[w] = 1 \/ <<"TimeEn", w, 1>> \in todo' =>
          w \in owed' \/ (Answering(w)' /\ <<"TimeEn", w, 0>> \in todo')
    BY <2>1, <2>3, <2>4
  <2>10. ErrorOnlyIfOwed'
    BY <2>1, <2>5
  <2>11. pc' = "drive" => \A w \in Wheels : w < k' => w \in owed'
    BY <2>1, <2>6
  <2> QED
    BY <2>7, <2>8, <2>9, <2>10, <2>11
<1>5. CASE Drive
  <2>1. /\ pc = "drive" /\ todo = {} /\ UNCHANGED <<TimeEn, Error>>
        /\ owed' = owed \cup ({k} \cap Wheels)
    BY <1>5 DEF Drive
  <2>2. CASE k < FLIPPER
    <3>1. k' = k + 1 /\ UNCHANGED <<pc, todo>>
      BY <1>5, <2>2 DEF Drive
    <3>2. \A w \in Wheels : w < k + 1 <=> w < k \/ w = k
      BY <1>c
    <3> QED
      BY <2>1, <3>1, <3>2
  <2>3. CASE ~(k < FLIPPER)
    <3>1. pc' = "checkOcu" /\ todo' = ArmWheels
      BY <1>5, <2>3 DEF Drive
    <3>2. \A w \in Wheels : w \in owed
      BY <1>c, <2>1, <2>3, Numbers DEF FLIPPER
    <3>3. ASSUME NEW w \in Wheels PROVE <<"TimeEn", w, 1>> \in todo'
      <4>1. w \in Timers /\ <<"TimeEn", w, 1>> \in Arm(w)
        BY DEF Arm
      <4>2. <<"TimeEn", w, 1>> \in ArmWheels
        BY <4>1 DEF ArmWheels
      <4> QED
        BY <3>1, <4>2
    <3> QED
      BY <2>1, <3>1, <3>2, <3>3
  <2> QED
    BY <2>2, <2>3
<1>6. CASE CheckOcu \/ Stop \/ StopDone
  <2>1. /\ UNCHANGED <<todo, Error, owed>>
        /\ pc \in {"checkOcu", "stop", "disarm"} /\ pc' \in {"stop", "disarm", "checkWheels"}
    BY <1>6 DEF CheckOcu, Stop, StopDone
  <2>2. \A w \in Wheels : TimeEn'[w] = TimeEn[w]
    BY <1>6, <1>c DEF CheckOcu, Stop, StopDone
  <2> QED
    BY <2>1, <2>2
<1>7. CASE CheckWheel
  <2>1. k \in Wheels /\ pc = "checkWheels" /\ UNCHANGED <<pc, todo, owed>> /\ todo = {}
    BY <1>7, <1>c DEF CheckWheel, Pending, Wheels, TypeOK
  <2>2. CASE TimeEn[k] = 1 /\ Times[k] = 0
    <3>1. /\ TimeEn' = [TimeEn EXCEPT ![k] = 0]
          /\ Error' = [Error EXCEPT ![k] = 1]
      BY <1>7, <2>2 DEF CheckWheel, Expired
    <3>2. k \in owed
      BY <2>1, <2>2
    <3>3. TimeEn'[k] = 0 /\ Error'[k] = 1
      BY <1>c, <2>1, <3>1
    <3>4. \A w \in Wheels : w # k => TimeEn'[w] = TimeEn[w] /\ Error'[w] = Error[w]
      BY <1>c, <2>1, <3>1
    <3> QED
      BY <2>1, <3>2, <3>3, <3>4
  <2>3. CASE ~(TimeEn[k] = 1 /\ Times[k] = 0)
    <3>1. UNCHANGED <<TimeEn, Error>>
      BY <1>7, <2>3 DEF CheckWheel, Expired
    <3> QED
      BY <2>1, <3>1
  <2> QED
    BY <2>2, <2>3
<1>8. CASE NoAnswer
  BY <1>8 DEF NoAnswer
<1>9. ASSUME NEW m \in Motors, NEW fault \in BOOLEAN, TakeAnswer(m, fault)
      PROVE  Watched'
  <2>1. /\ pc = "checkWheels" /\ pc' \in {"fault", "answered"} /\ frame' = {m}
        /\ todo' = IF m \in Wheels THEN Disarm(m) ELSE {}
        /\ owed' = owed \ {m} /\ UNCHANGED <<TimeEn, Error>>
    BY <1>9 DEF TakeAnswer
  <2>2. todo = {}
    BY <2>1 DEF Pending
  <2>3. \A w \in Wheels : <<"TimeEn", w, 1>> \notin todo'
                        /\ (w = m => <<"TimeEn", w, 0>> \in todo')
    <3>1. CASE m \in Wheels
      <4>1. todo' = {<<"Times", m, Outtime(m)>>, <<"TimeEn", m, 0>>}
        BY <2>1, <3>1 DEF Disarm
      <4> QED
        BY <4>1
    <3>2. CASE m \notin Wheels
      BY <2>1, <3>2
    <3> QED
      BY <3>1, <3>2
  <2>4. \A w \in Wheels : w \in owed <=> TimeEn[w] = 1 \/ (w \in owed /\ Error[w] = 1)
    BY <2>1, <2>2
  <2>5. \A w \in Wheels : Error[w] = 1 => w \in owed
    BY <2>1
  <2>6. \A w \in Wheels : Answering(w)' <=> w = m
    BY <2>1
  <2>7. \A w \in Wheels : w \in owed' => TimeEn'[w] = 1 \/ Error'[w] = 1
    BY <2>1, <2>4
  <2>8. \A w \in Wheels : Answering(w)' => w \notin owed'
    BY <2>1, <2>6
  <2>9. \A w \in Wheels : TimeEn'[w] = 1 \/ <<"TimeEn", w, 1>> \in todo' =>
          w \in owed' \/ (Answering(w)' /\ <<"TimeEn", w, 0>> \in todo')
    BY <2>1, <2>3, <2>4, <2>6
  <2>10. ErrorOnlyIfOwed'
    BY <2>1, <2>5, <2>6
  <2>11. pc' = "drive" => \A w \in Wheels : w < k' => w \in owed'
    BY <2>1
  <2> QED
    BY <2>7, <2>8, <2>9, <2>10, <2>11
<1>10. CASE Fault
  <2>1. UNCHANGED <<TimeEn, Error, owed, todo, frame>> /\ pc = "fault"
        /\ pc' \in {"fault", "faulted"}
    BY <1>10 DEF Fault
  <2> QED
    BY <2>1
<1>11. CASE Report
  <2>1. /\ todo = {} /\ UNCHANGED <<TimeEn, owed, todo>> /\ pc' = "ocu"
        /\ pc \in {"answered", "faulted"}
        /\ Error' = [w \in Wheels |-> IF w \notin frame THEN Error[w]
                                      ELSE IF pc = "faulted" THEN 2 ELSE 0]
    BY <1>11 DEF Report
  <2>2. \A w \in Wheels : /\ w \notin frame => Error'[w] = Error[w]
                         /\ w \in frame => Error'[w] # 1
    BY <2>1
  <2> QED
    BY <2>1, <2>2
<1> QED
  BY <1>1, <1>2, <1>3, <1>4, <1>5, <1>6, <1>7, <1>8, <1>9, <1>10, <1>11
  DEF Next, MainLoop

-----------------------------------------------------------------------------
(* The theorems.                                                           *)

\* What holds in every reachable state, lossy port or not.
IInv == TypeOK /\ Pending /\ Budget /\ Watched

THEOREM Inductive == Spec => []IInv
<1>1. Init => IInv
  BY InitTypes, InitPending, InitBudget, InitWatched DEF IInv
<1>2. IInv /\ [Next]_vars => IInv'
  BY TypeStep, PendingStep, BudgetStep, WatchedStep DEF IInv
<1> QED
  BY <1>1, <1>2, PTL DEF Spec

\* Type correctness: no count leaves 0 .. its timeout but for the garbage
\* time_create starts from.
THEOREM TypeCorrect == Spec => []TypeOK
<1>1. IInv => TypeOK
  BY DEF IInv
<1> QED
  BY Inductive, <1>1, PTL

THEOREM ArmedInvariant ==
  ASSUME ~Lossy
  PROVE  Spec => []Armed
<1>1. TypeOK /\ Pending /\ Armed /\ [Next]_vars => Armed'
  BY ArmedStep
<1>2. IInv => TypeOK /\ Pending
  BY DEF IInv
<1> QED
  BY InitArmed, Inductive, <1>1, <1>2, PTL DEF Spec

\* As long as the writes to the motor port succeed, nothing moves while the
\* OCU timer is off, for any number of wheels and any frame.
THEOREM NeverUnwatched ==
  ASSUME ~Lossy
  PROVE  Spec => []MovingImpliesArmed
<1>1. Armed => MovingImpliesArmed
  BY DEF Armed
<1> QED
  BY ArmedInvariant, <1>1, PTL

\* No interleaving of the timer thread's decrement with the main loop's stores
\* lets the check of motion_send pass a moving vehicle after OUTTIME ticks.
THEOREM Deadline ==
  ASSUME ~Lossy
  PROVE  Spec => StopDeadline
<1>1. IInv /\ Armed /\ [Next]_vars =>
        [pc = "checkOcu" /\ pc' = "checkWheels" =>
           Stopped \/ age[Ocu] < OUTTIME \/ Times[Ocu] = Wild]_vars
  <2> SUFFICES ASSUME IInv, Armed, [Next]_vars, pc = "checkOcu", pc' = "checkWheels"
               PROVE  Stopped \/ age[Ocu] < OUTTIME \/ Times[Ocu] = Wild
    OBVIOUS
  <2>1. CheckOcu
    <3>1. ~TimerThread /\ ~LinkLost /\ ~UNCHANGED vars
      BY DEF TimerThread, TimerWake, TimerTest, TimerLoad, TimerStore, LinkLost,
         vars, mainVars
    <3> QED
      BY <3>1 DEF Next, MainLoop, Flush, NoFrame, TakeFrame, Drive, Stop, StopDone,
         CheckWheel, NoAnswer, TakeAnswer, Fault, Report
  <2>2. ~(TimeEn[Ocu] = 1 /\ Times[Ocu] = 0)
    BY <2>1 DEF CheckOcu, Expired
  <2>3. CASE TimeEn[Ocu] # 1
    BY <2>3 DEF Armed, MovingImpliesArmed
  <2>4. CASE TimeEn[Ocu] = 1 /\ Times[Ocu] # Wild
    <3>1. Times[Ocu] + age[Ocu] <= Outtime(Ocu)
      BY <2>4, Numbers DEF IInv, Budget
    <3>2. Times[Ocu] \in 0 .. OUTTIME /\ Times[Ocu] # 0 /\ Outtime(Ocu) = OUTTIME
          /\ age[Ocu] \in Int
      BY <2>2, <2>4, Numbers DEF IInv, TypeOK, Outtime
    <3> QED
      BY <3>1, <3>2, Numbers
  <2> QED
    BY <2>3, <2>4
<1> QED
  BY Inductive, ArmedInvariant, <1>1, PTL DEF Spec, StopDeadline

\* The error flags accuse a wheel only of answers it has not given.
THEOREM NoFalseAccusation == Spec => []ErrorOnlyIfOwed
<1>1. IInv => ErrorOnlyIfOwed
  BY DEF IInv, Watched
<1> QED
  BY Inductive, <1>1, PTL

\* A wheel silent for RX_TIMEOUT ticks after its command is noticed by the
\* next check, for any number of wheels.
THEOREM SilenceNoticed == Spec => SilentWheelSeen
<1>1. IInv /\ [Next]_vars =>
        [\A w \in Wheels :
           pc = "checkWheels" /\ k = w /\ k' = w + 1 /\ w \in owed =>
             Error'[w] = 1 \/ age[w] < RX_TIMEOUT \/ Times[w] = Wild]_vars
  <2> SUFFICES ASSUME IInv, [Next]_vars, NEW w \in Wheels,
                      pc = "checkWheels", k = w, k' = w + 1, w \in owed
               PROVE  Error'[w] = 1 \/ age[w] < RX_TIMEOUT \/ Times[w] = Wild
    OBVIOUS
  <2>0. w \in Int /\ w <= NWheels /\ k' # k
    BY Numbers DEF Wheels
  <2>1. CheckWheel
    <3>1. ~TimerThread /\ ~LinkLost /\ ~UNCHANGED vars
      BY <2>0 DEF TimerThread, TimerWake, TimerTest, TimerLoad, TimerStore, LinkLost,
         vars, mainVars
    <3> QED
      BY <2>0, <3>1, Numbers DEF Next, MainLoop, Flush, NoFrame, TakeFrame, Drive,
         CheckOcu, Stop, StopDone, NoAnswer, TakeAnswer, Fault, Report
  <2>2. todo = {}
    BY DEF IInv, Pending
  <2>3. TimeEn[w] = 1 \/ Error[w] = 1
    BY <2>2 DEF IInv, Watched
  <2>4. Error \in [Wheels -> 0 .. 2]
    BY DEF IInv, TypeOK
  <2>5. CASE TimeEn[w] = 1 /\ Times[w] = 0
    BY <2>1, <2>4, <2>5 DEF CheckWheel, Expired
  <2>6. CASE ~(TimeEn[w] = 1 /\ Times[w] = 0)
    <3>1. Error' = Error
      BY <2>1, <2>6 DEF CheckWheel, Expired
    <3>2. CASE TimeEn[w] = 1 /\ Times[w] # Wild
      <4>1. Times[w] + age[w] <= Outtime(w)
        BY <3>2, Numbers DEF IInv, Budget
      <4>2. Outtime(w) = RX_TIMEOUT /\ w \in Timers
        BY Numbers DEF Outtime
      <4>3. Times[w] \in 0 .. RX_TIMEOUT /\ Times[w] # 0 /\ age[w] \in Int
        BY <2>6, <3>2, <4>2 DEF IInv, TypeOK
      <4> QED
        BY <4>1, <4>2, <4>3, Numbers
    <3> QED
      BY <2>3, <3>1, <3>2
  <2> QED
    BY <2>5, <2>6
<1> QED
  BY Inductive, <1>1, PTL DEF Spec, SilentWheelSeen
=============================================================================
