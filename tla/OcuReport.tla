----------------------------- MODULE OcuReport -----------------------------
(***************************************************************************)
(* The report to the operator and the polls of the arm's joints, both of   *)
(* communication/communication.c.  A frame of the operator arms the report *)
(* (Rx_OCU_Prs), polls one joint (OCU_to_arm_Info_Process) and arms that   *)
(* joint's timer.  The timer thread (timer/timer.c) counts down; the main  *)
(* loop accuses a joint whose count is 0 (motion_send) and sends the       *)
(* report when its count is 0 (Tacker_To_Ocu).                             *)
(*                                                                         *)
(* Each timer is a switch and a count shared without a lock.  The thread's *)
(* decrement is a load and a store; the two stores that arm a timer become *)
(* visible in any order.  Neither the report's nor a joint's timer is ever *)
(* initialised: both are what malloc left (PcTxTimeMalloc, time_create).   *)
(*                                                                         *)
(* The answers of the joints are never read: the call of Rx_ARM_Prs is     *)
(* commented out in the main loop.                                         *)
(***************************************************************************)
EXTENDS Integers

CONSTANTS
  SEND_TO_OCU_CNT, \* ticks from a frame to the report
  JOINT_TIME,      \* ticks a joint has for its answer
  J,               \* joints, numbered in the order of their polls
  Left,            \* counts malloc may leave
  MaxFrames        \* bound of the model: frames of the operator

ASSUME ReportAssumption ==
  /\ SEND_TO_OCU_CNT \in Nat \ {0}
  /\ JOINT_TIME \in Nat \ {0}
  /\ J \in Nat \ {0}
  /\ Left \subseteq Nat
  /\ MaxFrames \in Nat

\* Timer 0 is the report's (T_pcTxTime), the others are joint[].
Joints == 1 .. J
Timers == 0 .. J

VARIABLES
  TimeEn,      \* the switch of each timer
  Times,       \* the count of each timer
  todo,        \* stores that arm a timer and are not visible yet
  pc,          \* where the main loop is
  j,           \* the joint polled next
  velocity,    \* the sub-frame the arm's address points at is a velocity command
  From_OCU_ID, \* number of the last frame handled
  joint_error, \* joints that are reported in error
  reported,    \* number of the frame the last report answers
  k,           \* the timer the timer thread is at
  loaded,      \* it has loaded the count and will store it less one
  seen,        \* the count it loaded
  age,         \* history: ticks since the timer was armed, up to its limit
  fresh,       \* history: the count stems from a store of the main loop
  seenFresh,   \* history: so does the count loaded
  rearmed,     \* history: the timer was armed after its count was loaded
  lost         \* history: that arming was overwritten

timer == <<TimeEn, Times>>
thread == <<k, loaded, seen>>
history == <<age, fresh, seenFresh, rearmed, lost>>
vars == <<timer, todo, pc, j, velocity, From_OCU_ID, joint_error, reported, thread, history>>

\* The count a timer is armed with.
Limit(x) == IF x = 0 THEN SEND_TO_OCU_CNT ELSE JOINT_TIME

Init ==
  /\ TimeEn \in [Timers -> BOOLEAN]
  /\ Times \in [Timers -> Left]
  /\ todo = {} /\ pc = "rx" /\ j = 1 /\ velocity = FALSE
  /\ From_OCU_ID = 0 /\ joint_error = {} /\ reported = 0
  /\ k = 0 /\ loaded = FALSE /\ seen = 0
  /\ age = [x \in Timers |-> 0]
  /\ fresh = [x \in Timers |-> FALSE] /\ seenFresh = FALSE
  /\ rearmed = FALSE /\ lost = [x \in Timers |-> FALSE]

-----------------------------------------------------------------------------
(* The timer thread, every 5 ms.                                           *)

Older(x) == age' = [age EXCEPT ![x] = IF @ < Limit(x) THEN @ + 1 ELSE @]

Following == k' = IF k = J THEN 0 ELSE k + 1

\* The timer at hand counts down.
Counts == TimeEn[k] /\ Times[k] > 0

Load ==
  /\ ~loaded /\ Counts
  /\ loaded' = TRUE /\ seen' = Times[k]
  /\ seenFresh' = fresh[k] /\ rearmed' = FALSE
  /\ UNCHANGED <<timer, todo, pc, j, velocity, From_OCU_ID, joint_error, reported,
                 k, age, fresh, lost>>

Store ==
  /\ loaded
  /\ Times' = [Times EXCEPT ![k] = seen - 1]
  /\ fresh' = [fresh EXCEPT ![k] = seenFresh]
  /\ lost' = [lost EXCEPT ![k] = @ \/ rearmed]
  /\ Older(k)
  /\ loaded' = FALSE /\ seen' = 0 /\ seenFresh' = FALSE /\ rearmed' = FALSE
  /\ Following
  /\ UNCHANGED <<TimeEn, todo, pc, j, velocity, From_OCU_ID, joint_error, reported>>

Skip ==
  /\ ~loaded /\ ~Counts
  /\ Older(k)
  /\ Following
  /\ UNCHANGED <<timer, todo, pc, j, velocity, From_OCU_ID, joint_error, reported,
                 loaded, seen, fresh, seenFresh, rearmed, lost>>

-----------------------------------------------------------------------------
(* The main loop.                                                          *)

\* Times[x] becomes n.
SetCount(x, n) ==
  /\ Times' = [Times EXCEPT ![x] = n]
  /\ age' = [age EXCEPT ![x] = 0]
  /\ fresh' = [fresh EXCEPT ![x] = TRUE]
  /\ lost' = [lost EXCEPT ![x] = FALSE]
  /\ rearmed' = (rearmed \/ (loaded /\ k = x))

\* TimeEn[x] becomes 1.
SwitchOn(x) ==
  /\ TimeEn' = [TimeEn EXCEPT ![x] = TRUE]
  /\ age' = IF TimeEn[x] THEN age ELSE [age EXCEPT ![x] = 0]

\* Rx_OCU_Prs: no frame, and it returns ...
NoFrame ==
  /\ pc = "rx"
  /\ pc' = "check"
  /\ UNCHANGED <<timer, todo, j, velocity, From_OCU_ID, joint_error, reported, thread, history>>

\* ... or a frame.  A frame too short to hold the addresses of its sub-frames
\* is executed with those of the frame before: velocity stays.
RxOcu(short, v) ==
  /\ pc = "rx" /\ From_OCU_ID < MaxFrames
  /\ From_OCU_ID' = From_OCU_ID + 1
  /\ velocity' = IF short THEN velocity ELSE v
  /\ todo' = {"TimeEn", "Times"}
  /\ pc' = "arm"
  /\ UNCHANGED <<timer, j, joint_error, reported, thread, history>>

\* Mutant: the joint's timer gets the report's count.
OcuCount(x) == SEND_TO_OCU_CNT

\* The count the code arms a timer with: SEND_TO_OCU_CNT or JOINT_TIME.
ArmedWith(x) == Limit(x)

\* One of the two stores that arm timer x lands; when both have, the main loop
\* goes on to next.
Arm(x, next) ==
  \E what \in todo :
    /\ \/ what = "Times" /\ SetCount(x, ArmedWith(x)) /\ UNCHANGED TimeEn
       \/ what = "TimeEn" /\ SwitchOn(x) /\ UNCHANGED <<Times, fresh, lost, rearmed>>
    /\ todo' = todo \ {what}
    /\ pc' = IF todo' = {} THEN next ELSE pc
    /\ UNCHANGED <<velocity, From_OCU_ID, joint_error, reported, thread, seenFresh>>

ArmReport == pc = "arm" /\ Arm(0, "poll") /\ UNCHANGED j

\* OCU_to_arm_Info_Process: a velocity command polls one joint before it is
\* sent to all of them; any other command does nothing.
OCU_to_arm_Info_Process ==
  /\ pc = "poll"
  /\ IF velocity THEN pc' = "joint" /\ todo' = {"TimeEn", "Times"}
                 ELSE pc' = "check" /\ UNCHANGED todo
  /\ UNCHANGED <<timer, j, velocity, From_OCU_ID, joint_error, reported, thread, history>>

ArmJoint ==
  /\ pc = "joint"
  /\ Arm(j, "check")
  /\ j' = IF todo' # {} THEN j ELSE IF j = J THEN 1 ELSE j + 1

\* Mutant: the loop must meet the timer at its last tick.
AtLastTick == {x \in Joints : TimeEn[x] /\ Times[x] = 1}

\* Joints whose timer is on and has run down.
Expired == {x \in Joints : TimeEn[x] /\ Times[x] = 0}

\* motion_send: their timers are switched off and they are in error.  Nothing
\* takes the accusation back.  (The joints are looked at one after the other;
\* they do not interact.)
motion_send ==
  /\ pc = "check"
  /\ TimeEn' = [x \in Timers |-> TimeEn[x] /\ x \notin Expired]
  /\ joint_error' = joint_error \cup Expired
  /\ pc' = "report"
  /\ UNCHANGED <<Times, todo, j, velocity, From_OCU_ID, reported, thread, history>>

\* Mutant: the loop must meet the count at its last tick.
DueAtLastTick == TimeEn[0] /\ Times[0] = 1

\* PC_TX_Out_En is set and PC_TX_Time_Out has run down.
Due == TimeEn[0] /\ Times[0] = 0

\* Tacker_To_Ocu sends the report, with the number of the last frame and the
\* errors of the joints (back_to_OCU), on each serial link ...
Tacker_To_Ocu ==
  /\ pc = "report" /\ Due
  /\ TimeEn' = [TimeEn EXCEPT ![0] = FALSE]
  /\ SetCount(0, SEND_TO_OCU_CNT)
  /\ reported' = From_OCU_ID
  /\ pc' = "rx"
  /\ UNCHANGED <<todo, j, velocity, From_OCU_ID, joint_error, thread, seenFresh>>

\* ... or returns at once.
NotDue ==
  /\ pc = "report" /\ ~Due
  /\ pc' = "rx"
  /\ UNCHANGED <<timer, todo, j, velocity, From_OCU_ID, joint_error, reported, thread, history>>

-----------------------------------------------------------------------------
TimerThread == Load \/ Store \/ Skip

MainLoop ==
  \/ NoFrame \/ \E short, v \in BOOLEAN : RxOcu(short, v)
  \/ ArmReport \/ OCU_to_arm_Info_Process \/ ArmJoint
  \/ motion_send \/ Tacker_To_Ocu \/ NotDue

Next == TimerThread \/ MainLoop

Spec == Init /\ [][Next]_vars

\* Both threads run on; the operator need not send.
FairSpec == Spec /\ WF_vars(TimerThread) /\ WF_vars(MainLoop)

-----------------------------------------------------------------------------
(* Properties.                                                             *)

\* Type invariant.
TypeOK ==
  /\ TimeEn \in [Timers -> BOOLEAN] /\ Times \in [Timers -> Nat]
  /\ todo \subseteq {"TimeEn", "Times"}
  /\ pc \in {"rx", "arm", "poll", "joint", "check", "report"}
  /\ j \in Joints /\ velocity \in BOOLEAN
  /\ From_OCU_ID \in Nat /\ joint_error \subseteq Joints /\ reported \in Nat
  /\ k \in Timers /\ loaded \in BOOLEAN /\ seen \in Nat
  /\ age \in [Timers -> Nat] /\ fresh \in [Timers -> BOOLEAN]
  /\ seenFresh \in BOOLEAN /\ rearmed \in BOOLEAN /\ lost \in [Timers -> BOOLEAN]

\* The stores that arm this timer are under way.
Arming(x) == todo # {} /\ x = (IF pc = "joint" THEN j ELSE 0)

\* A timer that is on never has more left than its limit less the ticks since
\* it was armed: a decrement that overwrites the arming can only shorten it.
\* Where that did not happen the time left is exact, so no joint is accused and
\* no report sent before its time.  (A count malloc left is not covered: it can
\* be written back over the first arming.)
OnTime ==
  \A x \in Timers :
    TimeEn[x] /\ fresh[x] /\ ~Arming(x) =>
      /\ Times[x] > 0 => Times[x] + age[x] <= Limit(x)
      /\ ~lost[x] => Times[x] + age[x] = Limit(x)

\* The operator's last frame before a silence is answered by a report that
\* carries its number, whatever was armed, lost or left by malloc before.
\* (Frames that come faster than SEND_TO_OCU_CNT put the report off.)
LastFrameAnswered == []<>(reported = From_OCU_ID)

\* Every joint that was polled is reported in error in the end, whether it
\* answers or not: nobody reads the answers.
PolledIsAccused == []<>(\A x \in Joints : TimeEn[x] => x \in joint_error)
=============================================================================
