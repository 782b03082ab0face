--------------------------- MODULE AlarmAppProofs ---------------------------
(* What the infrared alarm does for every number of intrusions. *)
EXTENDS AlarmApp, TLAPS

(* While there is an event flags object, the flag is set exactly when an   *)
(* intrusion came after the task last woke.                                *)
FlagIsNews == g_eventFlagsId = "made" => (flag = 1 <=> covered < intrusions)

(* Buzzer and status follow the place in the loop. *)
AlarmIsOn ==
  /\ beep = "ON" <=> pc = "sleep"
  /\ g_infraredStatus = (IF pc = "sleep" THEN 1 ELSE 0)

AInv == TypeOK /\ FlagIsNews /\ AlarmIsOn /\ PlatformAgrees

(* The task starts in silence, with no intrusion behind it.                *)
LEMMA AlarmInit == Init => AInv
BY AlarmAssumption DEF Init, AInv, TypeOK, FlagIsNews, AlarmIsOn, PlatformAgrees

(* Every step keeps the invariant: a step of the task moves on in its      *)
(* loop, the interrupt brings flag and count forward together.             *)
LEMMA AlarmNext == AInv /\ [Next]_vars => AInv'
<1> SUFFICES ASSUME AInv, [Next]_vars PROVE AInv'
    OBVIOUS
<1> USE AlarmAssumption DEF AInv
<1>1. CASE Connect
  BY <1>1 DEF Connect, TypeOK, FlagIsNews, AlarmIsOn, PlatformAgrees
<1>2. CASE Register
  BY <1>2 DEF Register, TypeOK, FlagIsNews, AlarmIsOn, PlatformAgrees
<1>3. CASE FirstReport
  BY <1>3 DEF FirstReport, Report, TypeOK, FlagIsNews, AlarmIsOn, PlatformAgrees
<1>4. CASE Wake
  BY <1>4 DEF Wake, TypeOK, FlagIsNews, AlarmIsOn, PlatformAgrees
<1>5. CASE BeginAlarm
  BY <1>5 DEF BeginAlarm, Report, TypeOK, FlagIsNews, AlarmIsOn, PlatformAgrees
<1>6. CASE EndAlarm
  BY <1>6 DEF EndAlarm, Report, TypeOK, FlagIsNews, AlarmIsOn, PlatformAgrees
<1>7. CASE BeepAlarm
  BY <1>7 DEF BeepAlarm, TypeOK, FlagIsNews, AlarmIsOn, PlatformAgrees
<1>8. CASE WifiConnect
  BY <1>8 DEF WifiConnect, TypeOK, FlagIsNews, AlarmIsOn, PlatformAgrees
<1>9. CASE UNCHANGED vars
  BY <1>9 DEF vars, TypeOK, FlagIsNews, AlarmIsOn, PlatformAgrees
<1> QED
  BY <1>1, <1>2, <1>3, <1>4, <1>5, <1>6, <1>7, <1>8, <1>9 DEF Next, Task

(* Type correctness of the alarm. *)
THEOREM AlarmTypeCorrect == Spec => []TypeOK
<1>1. AInv => TypeOK
  BY DEF AInv
<1> QED
  BY AlarmInit, AlarmNext, <1>1, PTL DEF Spec

(* The task never waits for the flag with an intrusion behind it that no   *)
(* alarm followed (lines 140-151 of iot_cloud_oc_sample.c).                *)
THEOREM AlarmForgetsNothing == Spec => []NothingForgotten
<1>1. AInv => NothingForgotten
  BY DEF AInv, TypeOK, FlagIsNews, NothingForgotten
<1> QED
  BY AlarmInit, AlarmNext, <1>1, PTL DEF Spec

(* Asleep or waiting, what the platform was told agrees with the buzzer. *)
THEOREM AlarmPlatformAgrees == Spec => []PlatformAgrees
<1>1. AInv => PlatformAgrees
  BY DEF AInv
<1> QED
  BY AlarmInit, AlarmNext, <1>1, PTL DEF Spec

(* Each alarm has an intrusion of its own. *)
THEOREM AlarmHasCause == Spec => EachAlarmHasCause
<1>1. AInv /\ [Next]_vars
        => [pc = "wait" /\ pc' = "alarm" /\ g_eventFlagsId = "made"
              => covered < intrusions]_vars
  <2> SUFFICES ASSUME AInv, Next, pc = "wait", pc' = "alarm", g_eventFlagsId = "made"
               PROVE  covered < intrusions
      BY DEF AInv
  <2>1. Wake
    BY DEF Next, Task, WifiConnect, Connect, Register, FirstReport, BeginAlarm, EndAlarm, BeepAlarm
  <2> QED
    BY <2>1 DEF Wake, AInv, FlagIsNews
<1> QED
  BY AlarmInit, AlarmNext, <1>1, PTL DEF Spec, EachAlarmHasCause
=============================================================================
