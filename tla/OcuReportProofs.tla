--------------------------- MODULE OcuReportProofs ---------------------------
(***************************************************************************)
(* OnTime, proved of OcuReport for any number of joints, any two limits    *)
(* and whatever malloc left: no timer is late, and none is early unless    *)
(* its arming was overwritten.                                             *)
(***************************************************************************)
EXTENDS OcuReport, TLAPS

LEMMA LimitType == \A x : Limit(x) \in Nat /\ Limit(x) > 0
  BY ReportAssumption DEF Limit

LEMMA TimersFacts == 0 \in Timers /\ 0 \notin Joints /\ 1 \in Joints /\ Joints \subseteq Timers
  BY ReportAssumption DEF Timers, Joints

-----------------------------------------------------------------------------
(* Types.                                                                  *)

\* A count is loaded only to be decremented.
LoadedCounts == loaded => seen > 0

LEMMA LoadedStep == LoadedCounts /\ [Next]_vars => LoadedCounts'
<1>1. LoadedCounts /\ UNCHANGED thread => LoadedCounts'
  BY DEF LoadedCounts, thread
<1>2. LoadedCounts /\ TimerThread => LoadedCounts'
  BY DEF LoadedCounts, TimerThread, Load, Counts, Store, Skip
<1>3. MainLoop \/ UNCHANGED vars => UNCHANGED thread
  BY DEF MainLoop, vars, NoFrame, RxOcu, ArmReport, Arm, OCU_to_arm_Info_Process, ArmJoint,
         motion_send, Tacker_To_Ocu, NotDue
<1> QED
  BY <1>1, <1>2, <1>3 DEF Next

LEMMA TypeInit == Init => TypeOK /\ LoadedCounts
<1> SUFFICES ASSUME Init PROVE TypeOK /\ LoadedCounts
  OBVIOUS
<1>1. Times \in [Timers -> Nat]
  BY ReportAssumption DEF Init
<1> QED
  BY <1>1, TimersFacts DEF Init, TypeOK, LoadedCounts

LEMMA OlderType ==
  ASSUME TypeOK, NEW x \in Timers, Older(x) PROVE age' \in [Timers -> Nat]
  BY DEF Older, TypeOK

LEMMA FollowingType == ASSUME TypeOK, Following PROVE k' \in Timers
  BY ReportAssumption DEF Following, TypeOK, Timers

\* What an arming store touches.
LEMMA ArmType ==
  ASSUME TypeOK, NEW x \in Timers, NEW next \in {"poll", "check"}, Arm(x, next)
  PROVE  /\ TimeEn' \in [Timers -> BOOLEAN] /\ Times' \in [Timers -> Nat]
         /\ age' \in [Timers -> Nat] /\ fresh' \in [Timers -> BOOLEAN]
         /\ lost' \in [Timers -> BOOLEAN] /\ rearmed' \in BOOLEAN
         /\ todo' \subseteq {"TimeEn", "Times"}
         /\ pc' \in {"rx", "arm", "poll", "joint", "check", "report"}
<1>1. PICK what \in todo :
        /\ \/ what = "Times" /\ SetCount(x, Limit(x)) /\ UNCHANGED TimeEn
           \/ what = "TimeEn" /\ SwitchOn(x) /\ UNCHANGED <<Times, fresh, lost, rearmed>>
        /\ todo' = todo \ {what}
        /\ pc' = IF todo' = {} THEN next ELSE pc
  BY DEF Arm, ArmedWith
<1>5. todo' \subseteq {"TimeEn", "Times"} /\ pc' \in {"rx", "arm", "poll", "joint", "check", "report"}
  BY <1>1 DEF TypeOK
<1>2. CASE what = "Times"
  <2>1. SetCount(x, Limit(x)) /\ TimeEn' = TimeEn
    BY <1>1, <1>2
  <2>2. rearmed' \in BOOLEAN
    BY <2>1 DEF SetCount
  <2>3. Times' \in [Timers -> Nat]
    BY <2>1, LimitType DEF SetCount, TypeOK
  <2>4. age' \in [Timers -> Nat]
    BY <2>1 DEF SetCount, TypeOK
  <2>5. fresh' \in [Timers -> BOOLEAN] /\ lost' \in [Timers -> BOOLEAN]
    BY <2>1 DEF SetCount, TypeOK
  <2> QED
    BY <1>5, <2>1, <2>2, <2>3, <2>4, <2>5 DEF TypeOK
<1>3. CASE what = "TimeEn"
  <2>1. SwitchOn(x) /\ UNCHANGED <<Times, fresh, lost, rearmed>>
    BY <1>1, <1>3
  <2>2. TimeEn' \in [Timers -> BOOLEAN]
    BY <2>1 DEF SwitchOn, TypeOK
  <2>3. age' \in [Timers -> Nat]
    BY <2>1 DEF SwitchOn, TypeOK
  <2> QED
    BY <1>5, <2>1, <2>2, <2>3 DEF TypeOK
<1>4. what = "Times" \/ what = "TimeEn"
  BY <1>1
<1> QED
  BY <1>2, <1>3, <1>4

LEMMA TypeStep == TypeOK /\ LoadedCounts /\ [Next]_vars => TypeOK'
<1> SUFFICES ASSUME TypeOK, LoadedCounts, [Next]_vars PROVE TypeOK'
  OBVIOUS
<1>1. CASE Load
  BY <1>1 DEF Load, Counts, timer, TypeOK
<1>2. CASE Store
  <2>1. age' \in [Timers -> Nat] /\ k' \in Timers
    BY <1>2, OlderType, FollowingType DEF Store, TypeOK
  <2>2. Times' \in [Timers -> Nat] /\ fresh' \in [Timers -> BOOLEAN] /\ lost' \in [Timers -> BOOLEAN]
    BY <1>2 DEF Store, TypeOK, LoadedCounts
  <2> QED
    BY <1>2, <2>1, <2>2 DEF Store, TypeOK
<1>3. CASE Skip
  <2>1. age' \in [Timers -> Nat] /\ k' \in Timers
    BY <1>3, OlderType, FollowingType DEF Skip, TypeOK
  <2> QED
    BY <1>3, <2>1 DEF Skip, timer, TypeOK
<1>4. CASE NoFrame \/ OCU_to_arm_Info_Process \/ NotDue
  BY <1>4 DEF NoFrame, OCU_to_arm_Info_Process, NotDue, timer, thread, history, TypeOK
<1>5. CASE \E short, v \in BOOLEAN : RxOcu(short, v)
  BY <1>5 DEF RxOcu, timer, thread, history, TypeOK
<1>6. CASE ArmReport
  BY <1>6, ArmType, TimersFacts DEF ArmReport, Arm, thread, TypeOK
<1>7. CASE ArmJoint
  <2>1. j' \in Joints
    BY <1>7, ReportAssumption DEF ArmJoint, TypeOK, Joints
  <2> QED
    BY <1>7, <2>1, ArmType, TimersFacts DEF ArmJoint, Arm, thread, TypeOK
<1>8. CASE motion_send
  <2>1. TimeEn' \in [Timers -> BOOLEAN] /\ joint_error' \subseteq Joints
    BY <1>8 DEF motion_send, Expired, TypeOK
  <2> QED
    BY <1>8, <2>1 DEF motion_send, thread, history, TypeOK
<1>9. CASE Tacker_To_Ocu
  BY <1>9, TimersFacts, ReportAssumption DEF Tacker_To_Ocu, SetCount, thread, TypeOK
<1>10. CASE UNCHANGED vars
  BY <1>10 DEF vars, timer, thread, history, TypeOK
<1> QED
  BY <1>1, <1>2, <1>3, <1>4, <1>5, <1>6, <1>7, <1>8, <1>9, <1>10 DEF Next, TimerThread, MainLoop

\* Every variable keeps its type.
THEOREM TypeCorrect == Spec => [](TypeOK /\ LoadedCounts)
<1>1. TypeOK /\ LoadedCounts /\ [Next]_vars => (TypeOK /\ LoadedCounts)'
  BY TypeStep, LoadedStep
<1> QED
  BY TypeInit, <1>1, PTL DEF Spec

-----------------------------------------------------------------------------
(* The counts.                                                             *)

\* Stores are under way only where a timer is armed.
ArmingPlace == todo # {} => pc \in {"arm", "joint"}

LEMMA ArmingPlaceStep == ArmingPlace /\ [Next]_vars => ArmingPlace'
<1>1. ArmingPlace /\ UNCHANGED <<todo, pc>> => ArmingPlace'
  BY DEF ArmingPlace
<1>2. TimerThread \/ UNCHANGED vars => UNCHANGED <<todo, pc>>
  BY DEF TimerThread, Load, Store, Skip, vars
<1>3. ArmingPlace /\ MainLoop => ArmingPlace'
  BY DEF ArmingPlace, MainLoop, NoFrame, RxOcu, ArmReport, ArmJoint, Arm,
         OCU_to_arm_Info_Process, motion_send, Tacker_To_Ocu, NotDue
<1> QED
  BY <1>1, <1>2, <1>3 DEF Next

\* The count loaded is that of a running timer, and what will be stored is
\* not above what may be left; only an arming has changed the count since.
LoadedOK ==
  loaded =>
    /\ TimeEn[k] /\ Times[k] > 0
    /\ seenFresh => seen + age[k] <= Limit(k)
    /\ rearmed \/ (Times[k] = seen /\ (seenFresh => fresh[k]))

\* The store of the count is still to come.
CountDue(x) == Arming(x) /\ "Times" \in todo

\* The time left of timer x: never above its limit; together with its age
\* never above it while the timer is on, and exactly that unless the arming was
\* overwritten or has not happened yet; full when only the switch is missing.
TimerOK(x) ==
  /\ fresh[x] => Times[x] <= Limit(x)
  /\ age[x] <= Limit(x)
  /\ TimeEn[x] /\ fresh[x] /\ Times[x] > 0 => Times[x] + age[x] <= Limit(x)
  /\ TimeEn[x] /\ fresh[x] /\ ~lost[x] /\ ~CountDue(x) => Times[x] + age[x] = Limit(x)
  /\ Arming(x) /\ "Times" \notin todo /\ ~TimeEn[x] => Times[x] = Limit(x)

CountInv == ArmingPlace /\ LoadedOK /\ \A x \in Timers : TimerOK(x)

LEMMA CountInit == Init => CountInv
<1> SUFFICES ASSUME Init PROVE CountInv
  OBVIOUS
<1>1. \A x \in Timers : age[x] = 0 /\ fresh[x] = FALSE /\ ~Arming(x)
  BY DEF Init, Arming
<1>2. \A x \in Timers : TimerOK(x)
  BY <1>1, LimitType DEF TimerOK
<1> QED
  BY <1>2 DEF Init, CountInv, ArmingPlace, LoadedOK

\* A step of the main loop between two armings leaves the timers alone.
LEMMA CountIdle ==
  ASSUME CountInv, UNCHANGED <<TimeEn, Times, thread, history>>,
         todo = {}, todo' = {} \/ "Times" \in todo'
  PROVE  LoadedOK' /\ \A x \in Timers : TimerOK(x)'
<1>1. LoadedOK'
  BY DEF CountInv, LoadedOK, thread, history
<1>2. ASSUME NEW x \in Timers PROVE TimerOK(x)'
  <2>1. TimerOK(x)
    BY DEF CountInv
  <2>2. ~Arming(x) /\ ~CountDue(x)
    BY DEF Arming, CountDue
  <2>3. Arming(x)' => "Times" \in todo'
    BY DEF Arming
  <2>4. UNCHANGED <<TimeEn, Times, age, fresh, lost>>
    BY DEF history
  <2>5. Limit(x)' = Limit(x)
    BY DEF Limit
  <2> HIDE DEF Limit, Arming, CountDue
  <2> QED
    BY <2>1, <2>2, <2>3, <2>4 DEF TimerOK
<1> QED
  BY <1>1, <1>2

\* The timer thread.
LEMMA CountLoad ==
  ASSUME TypeOK, CountInv, Load PROVE LoadedOK' /\ \A x \in Timers : TimerOK(x)'
<1>1. UNCHANGED <<TimeEn, Times, todo, pc, j, age, fresh, lost, k>>
  BY DEF Load, timer
<1>2. \A x \in Timers : TimerOK(x)'
  BY <1>1 DEF CountInv, TimerOK, CountDue, Arming
<1>3. TimerOK(k) /\ TimeEn[k] /\ Times[k] > 0 /\ seen' = Times[k] /\ seenFresh' = fresh[k]
  BY DEF Load, Counts, CountInv, TypeOK
<1> QED
  BY <1>1, <1>2, <1>3 DEF LoadedOK, TimerOK

LEMMA CountStore ==
  ASSUME TypeOK, LoadedCounts, CountInv, Store PROVE LoadedOK' /\ \A x \in Timers : TimerOK(x)'
<1>1. LoadedOK'
  BY DEF Store, LoadedOK
<1>2. UNCHANGED <<TimeEn, todo, pc, j>>
  BY DEF Store
<1>3. \A x \in Timers : (CountDue(x)' <=> CountDue(x)) /\ (Arming(x)' <=> Arming(x))
  BY <1>2 DEF CountDue, Arming
<1>4. ASSUME NEW x \in Timers, x # k PROVE TimerOK(x)'
  <2>1. Times'[x] = Times[x] /\ fresh'[x] = fresh[x] /\ lost'[x] = lost[x] /\ age'[x] = age[x]
    BY <1>4 DEF Store, Older, TypeOK
  <2>2. TimerOK(x)
    BY DEF CountInv
  <2> QED
    BY <1>2, <1>3, <2>1, <2>2 DEF TimerOK
<1>5. ASSUME NEW x \in Timers, x = k PROVE TimerOK(x)'
  <2>1. TimerOK(x) /\ Limit(x) \in Nat /\ seen \in Nat /\ seen > 0
        /\ age[x] \in Nat /\ Times[x] \in Nat
    BY LimitType DEF CountInv, TypeOK, Store, LoadedCounts
  <2>2. /\ TimeEn[x] /\ Times[x] > 0
        /\ seenFresh => seen + age[x] <= Limit(x)
        /\ rearmed \/ (Times[x] = seen /\ (seenFresh => fresh[x]))
    BY <1>5 DEF Store, CountInv, LoadedOK
  <2>3. /\ Times'[x] = seen - 1 /\ fresh'[x] = seenFresh
        /\ age'[x] = IF age[x] < Limit(x) THEN age[x] + 1 ELSE age[x]
    BY <1>5 DEF Store, Older, TypeOK
  <2>4. lost'[x] = (lost[x] \/ rearmed)
    BY <1>5 DEF Store, TypeOK
  <2>5. ~lost'[x] => ~lost[x] /\ ~rearmed
    BY <2>4
  <2> QED
    BY <1>2, <1>3, <2>1, <2>2, <2>3, <2>5 DEF TimerOK
<1> QED
  BY <1>1, <1>4, <1>5

LEMMA CountSkip ==
  ASSUME TypeOK, CountInv, Skip PROVE LoadedOK' /\ \A x \in Timers : TimerOK(x)'
<1>1. LoadedOK'
  BY DEF Skip, LoadedOK
<1>2. UNCHANGED <<TimeEn, Times, todo, pc, j, fresh, lost>>
  BY DEF Skip, timer
<1>3. \A x \in Timers : (CountDue(x)' <=> CountDue(x)) /\ (Arming(x)' <=> Arming(x))
  BY <1>2 DEF CountDue, Arming
<1>4. ASSUME NEW x \in Timers PROVE TimerOK(x)'
  <2>1. TimerOK(x) /\ Limit(x) \in Nat /\ age[x] \in Nat /\ Times[x] \in Nat
    BY LimitType DEF CountInv, TypeOK
  <2>2. CASE x # k
    <3>1. age'[x] = age[x]
      BY <2>2 DEF Skip, Older, TypeOK
    <3> QED
      BY <1>2, <1>3, <2>1, <3>1 DEF TimerOK
  <2>3. CASE x = k
    <3>1. ~TimeEn[x] \/ Times[x] = 0
      BY <2>1, <2>3 DEF Skip, Counts
    <3>2. age'[x] = IF age[x] < Limit(x) THEN age[x] + 1 ELSE age[x]
      BY <2>3 DEF Skip, Older, TypeOK
    <3> QED
      BY <1>2, <1>3, <2>1, <3>1, <3>2 DEF TimerOK
  <2> QED
    BY <2>2, <2>3
<1> QED
  BY <1>1, <1>4

\* A store that arms a timer.
LEMMA CountArm ==
  ASSUME TypeOK, CountInv, NEW x \in Timers, NEW next \in {"poll", "check"}, Arm(x, next),
         Arming(x), \A y \in Timers : y # x => ~Arming(y),
         todo' # {} => j' = j
  PROVE  LoadedOK' /\ \A y \in Timers : TimerOK(y)'
<1>1. PICK what \in todo :
        /\ \/ what = "Times" /\ SetCount(x, Limit(x)) /\ UNCHANGED TimeEn
           \/ what = "TimeEn" /\ SwitchOn(x) /\ UNCHANGED <<Times, fresh, lost, rearmed>>
        /\ todo' = todo \ {what}
        /\ pc' = IF todo' = {} THEN next ELSE pc
        /\ UNCHANGED <<thread, seenFresh>>
  BY DEF Arm, ArmedWith
<1>2. Limit(x) \in Nat /\ Limit(x) > 0 /\ TimerOK(x)
  BY LimitType DEF CountInv
<1>3. \A y \in Timers : y # x => ~Arming(y)'
  BY <1>1 DEF Arming
<1>4. CASE what = "Times"
  <2>1. SetCount(x, Limit(x)) /\ TimeEn' = TimeEn /\ "Times" \notin todo'
    BY <1>1, <1>4
  <2>2. Times'[x] = Limit(x) /\ age'[x] = 0 /\ fresh'[x] = TRUE /\ lost'[x] = FALSE
    BY <2>1 DEF SetCount, TypeOK
  <2>3. \A y \in Timers : y # x => /\ Times'[y] = Times[y] /\ age'[y] = age[y]
                                   /\ fresh'[y] = fresh[y] /\ lost'[y] = lost[y]
    BY <2>1 DEF SetCount, TypeOK
  <2>4. ASSUME NEW y \in Timers PROVE TimerOK(y)'
    <3>1. CASE y = x
      BY <1>2, <2>1, <2>2, <3>1 DEF TimerOK
    <3>2. CASE y # x
      <4>1. TimerOK(y) /\ ~Arming(y) /\ ~Arming(y)' /\ TimeEn'[y] = TimeEn[y]
        BY <1>3, <2>1, <3>2 DEF CountInv
      <4> QED
        BY <2>3, <3>2, <4>1 DEF TimerOK, CountDue
    <3> QED
      BY <3>1, <3>2
  <2>5. LoadedOK'
    <3>1. UNCHANGED <<k, loaded, seen, seenFresh, TimeEn>>
      BY <1>1, <2>1 DEF thread
    <3>2. CASE loaded /\ k = x
      <4>1. rearmed'
        BY <2>1, <3>2 DEF SetCount
      <4>2. seenFresh => seen <= Limit(x)
        BY <1>2, <3>2 DEF CountInv, LoadedOK, TypeOK
      <4>3. seenFresh => seen + 0 <= Limit(x)
        BY <4>2 DEF TypeOK
      <4> QED
        BY <1>2, <2>2, <3>1, <3>2, <4>1, <4>3 DEF CountInv, LoadedOK
    <3>3. CASE ~loaded
      BY <3>1, <3>3 DEF LoadedOK
    <3>4. CASE loaded /\ k # x
      <4>1. rearmed' <=> rearmed
        BY <2>1, <3>4 DEF SetCount
      <4>2. k \in Timers
        BY DEF TypeOK
      <4> QED
        BY <2>3, <3>1, <3>4, <4>1, <4>2 DEF CountInv, LoadedOK
    <3> QED
      BY <3>2, <3>3, <3>4
  <2> QED
    BY <2>4, <2>5
<1>5. CASE what = "TimeEn"
  <2>1. SwitchOn(x) /\ UNCHANGED <<Times, fresh, lost, rearmed>>
    BY <1>1, <1>5
  <2>2. TimeEn'[x] = TRUE /\ age'[x] = IF TimeEn[x] THEN age[x] ELSE 0
    BY <2>1 DEF SwitchOn, TypeOK
  <2>3. \A y \in Timers : y # x => TimeEn'[y] = TimeEn[y] /\ age'[y] = age[y]
    BY <2>1 DEF SwitchOn, TypeOK
  <2>4. "Times" \in todo' <=> "Times" \in todo
    BY <1>1, <1>5
  <2>5. todo' # {} => Arming(x)'
    BY <1>1 DEF Arming, thread
  <2>6. "Times" \in todo => CountDue(x) /\ CountDue(x)'
    BY <2>4, <2>5 DEF CountDue
  <2>7. ASSUME NEW y \in Timers PROVE TimerOK(y)'
    <3>1. CASE y = x
      <4>1. Times[x] \in Nat /\ age[x] \in Nat
        BY DEF TypeOK
      <4>2. CASE TimeEn[x]
        BY <1>2, <2>1, <2>2, <2>6, <3>1, <4>1, <4>2 DEF TimerOK, CountDue
      <4>3. CASE ~TimeEn[x]
        BY <1>2, <2>1, <2>2, <2>4, <2>6, <3>1, <4>1, <4>3 DEF TimerOK, CountDue
      <4> QED
        BY <4>2, <4>3
    <3>2. CASE y # x
      <4>1. TimerOK(y) /\ ~Arming(y) /\ ~Arming(y)'
        BY <1>3, <3>2 DEF CountInv
      <4> QED
        BY <2>1, <2>3, <3>2, <4>1 DEF TimerOK, CountDue
    <3> QED
      BY <3>1, <3>2
  <2>8. LoadedOK'
    <3>1. UNCHANGED <<k, loaded, seen, seenFresh, rearmed, Times, fresh>>
      BY <1>1, <2>1 DEF thread
    <3>2. loaded => TimeEn[k] /\ k \in Timers
      BY DEF CountInv, LoadedOK, TypeOK
    <3>3. loaded => TimeEn'[k] /\ age'[k] = age[k]
      BY <2>2, <2>3, <3>2
    <3> QED
      BY <3>1, <3>3 DEF CountInv, LoadedOK
  <2> QED
    BY <2>7, <2>8
<1>6. what = "Times" \/ what = "TimeEn"
  BY <1>1
<1> QED
  BY <1>4, <1>5, <1>6

LEMMA CountStep ==
  TypeOK /\ LoadedCounts /\ CountInv /\ [Next]_vars => LoadedOK' /\ \A x \in Timers : TimerOK(x)'
<1> SUFFICES ASSUME TypeOK, LoadedCounts, CountInv, [Next]_vars
             PROVE  LoadedOK' /\ \A x \in Timers : TimerOK(x)'
  OBVIOUS
<1>1. CASE TimerThread
  BY <1>1, CountLoad, CountStore, CountSkip DEF TimerThread
<1>2. CASE NoFrame \/ OCU_to_arm_Info_Process \/ NotDue \/ \E short, v \in BOOLEAN : RxOcu(short, v)
  <2>1. UNCHANGED <<TimeEn, Times, thread, history>>
    BY <1>2 DEF NoFrame, OCU_to_arm_Info_Process, NotDue, RxOcu, timer
  <2>2. todo = {}
    BY <1>2 DEF NoFrame, OCU_to_arm_Info_Process, NotDue, RxOcu, CountInv, ArmingPlace
  <2>3. todo' = {} \/ "Times" \in todo'
    BY <1>2, <2>2 DEF NoFrame, OCU_to_arm_Info_Process, NotDue, RxOcu
  <2> QED
    BY <2>1, <2>2, <2>3, CountIdle
<1>3. CASE ArmReport
  <2>1. Arm(0, "poll") /\ j' = j /\ pc = "arm"
    BY <1>3 DEF ArmReport
  <2>2. todo # {}
    BY <2>1 DEF Arm
  <2>3. Arming(0) /\ \A y \in Timers : y # 0 => ~Arming(y)
    BY <2>1, <2>2 DEF Arming
  <2> QED
    BY <2>1, <2>3, TimersFacts, CountArm
<1>4. CASE ArmJoint
  <2>1. Arm(j, "check") /\ pc = "joint" /\ (todo' # {} => j' = j)
    BY <1>4 DEF ArmJoint
  <2>2. todo # {}
    BY <2>1 DEF Arm
  <2>3. Arming(j) /\ \A y \in Timers : y # j => ~Arming(y)
    BY <2>1, <2>2 DEF Arming
  <2>4. j \in Timers
    BY TimersFacts DEF TypeOK
  <2> QED
    BY <2>1, <2>3, <2>4, CountArm
<1>5. CASE motion_send
  <2>1. /\ UNCHANGED <<Times, todo, thread, history>> /\ todo = {}
        /\ \A x \in Timers : TimeEn'[x] <=> TimeEn[x] /\ x \notin Expired
    BY <1>5 DEF motion_send, CountInv, ArmingPlace
  <2>2. \A x \in Timers : ~Arming(x) /\ ~Arming(x)' /\ ~CountDue(x)
    BY <2>1 DEF Arming, CountDue
  <2>3. UNCHANGED <<age, fresh, lost, k, loaded, seen, seenFresh, rearmed>>
    BY <2>1 DEF thread, history
  <2>4. \A x \in Timers : TimerOK(x)'
    BY <2>1, <2>2, <2>3 DEF CountInv, TimerOK
  <2>5. loaded => TimeEn'[k]
    <3>1. loaded => k \in Timers /\ TimeEn[k] /\ Times[k] > 0
      BY DEF CountInv, LoadedOK, TypeOK
    <3>2. loaded => k \notin Expired
      BY <3>1 DEF Expired
    <3> QED
      BY <2>1, <3>1, <3>2
  <2> QED
    BY <2>1, <2>3, <2>4, <2>5 DEF CountInv, LoadedOK
<1>6. CASE Tacker_To_Ocu
  <2>1. /\ TimeEn' = [TimeEn EXCEPT ![0] = FALSE] /\ SetCount(0, SEND_TO_OCU_CNT)
        /\ UNCHANGED <<todo, thread, seenFresh>> /\ todo = {} /\ Times[0] = 0
    BY <1>6 DEF Tacker_To_Ocu, Due, CountInv, ArmingPlace
  <2>2. \A x \in Timers : ~Arming(x) /\ ~Arming(x)' /\ ~CountDue(x)
    BY <2>1 DEF Arming, CountDue
  <2>3. /\ Times'[0] = SEND_TO_OCU_CNT /\ age'[0] = 0 /\ ~TimeEn'[0]
        /\ Limit(0) = SEND_TO_OCU_CNT
    BY <2>1, TimersFacts DEF SetCount, TypeOK, Limit
  <2>4. \A y \in Timers : y # 0 => /\ Times'[y] = Times[y] /\ age'[y] = age[y]
                                   /\ fresh'[y] = fresh[y] /\ lost'[y] = lost[y]
                                   /\ TimeEn'[y] = TimeEn[y]
    BY <2>1 DEF SetCount, TypeOK
  <2>5. ASSUME NEW x \in Timers PROVE TimerOK(x)'
    <3>1. CASE x = 0
      BY <2>2, <2>3, <3>1, ReportAssumption DEF TimerOK
    <3>2. CASE x # 0
      BY <2>2, <2>4, <3>2 DEF CountInv, TimerOK
    <3> QED
      BY <3>1, <3>2
  <2>6. UNCHANGED <<k, loaded, seen, seenFresh>>
    BY <2>1 DEF thread
  <2>7. loaded => k # 0 /\ k \in Timers
    BY <2>1 DEF CountInv, LoadedOK, TypeOK
  <2>8. loaded => (rearmed' <=> rearmed)
    BY <2>1, <2>7 DEF SetCount
  <2>9. LoadedOK'
    BY <2>4, <2>6, <2>7, <2>8 DEF CountInv, LoadedOK
  <2> QED
    BY <2>5, <2>9
<1>7. CASE UNCHANGED vars
  <2>1. UNCHANGED <<TimeEn, Times, todo, pc, j, age, fresh, lost, k, loaded, seen, seenFresh, rearmed>>
    BY <1>7 DEF vars, timer, thread, history
  <2> QED
    BY <2>1 DEF CountInv, LoadedOK, TimerOK, CountDue, Arming
<1> QED
  BY <1>1, <1>2, <1>3, <1>4, <1>5, <1>6, <1>7 DEF Next, MainLoop

\* A timer that is on never has more left than its limit less its age, and
\* exactly that where no decrement overwrote its arming: no joint is accused
\* and no report sent late, nor early unless an arming was lost.
THEOREM TimersOnTime == Spec => []OnTime
<1>1. TypeOK /\ LoadedCounts /\ CountInv /\ [Next]_vars => CountInv'
  BY CountStep, ArmingPlaceStep DEF CountInv
<1>2. TypeOK /\ CountInv => OnTime
  <2> SUFFICES ASSUME TypeOK, CountInv, NEW x \in Timers, TimeEn[x], fresh[x], ~Arming(x)
               PROVE  /\ Times[x] > 0 => Times[x] + age[x] <= Limit(x)
                      /\ ~lost[x] => Times[x] + age[x] = Limit(x)
    BY DEF OnTime
  <2>1. TimerOK(x) /\ ~CountDue(x)
    BY DEF CountInv, CountDue
  <2> QED
    BY <2>1 DEF TimerOK
<1> QED
  BY <1>1, <1>2, CountInit, TypeCorrect, PTL DEF Spec
=============================================================================
