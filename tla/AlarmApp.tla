------------------------------ MODULE AlarmApp ------------------------------
(***************************************************************************)
(* The infrared alarm of BearPi-HM_Nano,                                   *)
(* bearpi_hm_nano/app/D10_iot_cloud_oc_infrared: an interrupt sets an      *)
(* event flag, and the cloud task, woken by the flag, sounds the buzzer    *)
(* for BEEP_DELAY seconds and tells the platform when it begins and ends.  *)
(*                                                                         *)
(* The interrupt can come between any two calls the task makes; a report   *)
(* to the platform may fail, which the code does not look at.              *)
(***************************************************************************)
EXTENDS Naturals

CONSTANT MaxIntrusions   (* bound: rising edges of the sensor in a behaviour *)

ASSUME AlarmAssumption == MaxIntrusions \in Nat

VARIABLES
  pc,               (* where CloudMainTaskEntry is                         *)
  g_eventFlagsId,   (* "made", or "null" if osEventFlagsNew failed         *)
  flag,             (* the bit FLAGS_MSK1: 0 or 1                          *)
  registered,       (* 1 once BeepAlarm is the interrupt's handler         *)
  connected,        (* g_app_cb.connected                                  *)
  g_infraredStatus, (* 0 or 1                                              *)
  beep,             (* the buzzer: "ON" or "OFF"                           *)
  heard,            (* the last Infrared_Status the platform received      *)
  lost,             (* 1 if the last report failed on its way              *)
  intrusions,       (* interrupts taken so far                             *)
  covered           (* interrupts taken before the last time the task woke *)

vars == <<pc, g_eventFlagsId, flag, registered, connected, g_infraredStatus, beep,
          heard, lost, intrusions, covered>>

Init ==
  /\ pc = "start"
  /\ g_eventFlagsId \in {"made", "null"}
  /\ flag = 0
  /\ registered = 0
  /\ connected = 0
  /\ g_infraredStatus = 0
  /\ beep = "OFF"
  /\ heard = "nothing"
  /\ lost = 0
  /\ intrusions = 0
  /\ covered = 0

(* deal_report_msg: nothing is sent without a connection, and the result   *)
(* of oc_mqtt_profile_propertyreport is ignored.                           *)
Report(status) ==
  IF connected = 1
  THEN \/ heard' = (IF status = 1 THEN "Intrude" ELSE "Safe") /\ lost' = 0
       \/ heard' = heard /\ lost' = 1
  ELSE UNCHANGED <<heard, lost>>

(* WifiConnect, whose result is not looked at, or which never returns. *)
WifiConnect ==
  /\ pc = "start"
  /\ pc' = "network"
  /\ UNCHANGED <<g_eventFlagsId, flag, registered, connected, g_infraredStatus, beep,
                 heard, lost, intrusions, covered>>

ConnectStoringResult ==
  /\ pc = "network"
  /\ connected' \in 0..2
  /\ pc' = "register"
  /\ UNCHANGED <<g_eventFlagsId, flag, registered, g_infraredStatus, beep, heard, lost,
                 intrusions, covered>>

(* The queue nobody uses, and oc_mqtt_profile_connect. *)
Connect ==
  /\ pc = "network"
  /\ connected' \in {0, 1}
  /\ pc' = "register"
  /\ UNCHANGED <<g_eventFlagsId, flag, registered, g_infraredStatus, beep, heard, lost,
                 intrusions, covered>>

(* E53IS1Init and E53IS1ReadData; if the handler cannot be registered the  *)
(* task ends.                                                              *)
Register ==
  /\ pc = "register"
  /\ \/ registered' = 1 /\ pc' = "first"
     \/ registered' = 0 /\ pc' = "ended"
  /\ UNCHANGED <<g_eventFlagsId, flag, connected, g_infraredStatus, beep, heard, lost,
                 intrusions, covered>>

(* The report before the loop. *)
FirstReport ==
  /\ pc = "first"
  /\ Report(g_infraredStatus)
  /\ pc' = "wait"
  /\ UNCHANGED <<g_eventFlagsId, flag, registered, connected, g_infraredStatus, beep,
                 intrusions, covered>>

WakeKeepingFlag ==
  /\ pc = "wait"
  /\ flag = 1 \/ g_eventFlagsId = "null"
  /\ pc' = "alarm"
  /\ covered' = intrusions
  /\ UNCHANGED <<g_eventFlagsId, flag, registered, connected, g_infraredStatus, beep,
                 heard, lost, intrusions>>

(* osEventFlagsWait returns and clears the flag.  Without an event flags   *)
(* object it returns an error at once, which the code does not look at.    *)
Wake ==
  /\ pc = "wait"
  /\ flag = 1 \/ g_eventFlagsId = "null"
  /\ flag' = 0
  /\ pc' = "alarm"
  /\ covered' = intrusions
  /\ UNCHANGED <<g_eventFlagsId, registered, connected, g_infraredStatus, beep, heard,
                 lost, intrusions>>

(* The alarm begins: buzzer, status, report. *)
BeginAlarm ==
  /\ pc = "alarm"
  /\ beep' = "ON"
  /\ g_infraredStatus' = 1
  /\ Report(1)
  /\ pc' = "sleep"
  /\ UNCHANGED <<g_eventFlagsId, flag, registered, connected, intrusions, covered>>

EndAlarmReportingFirst ==
  /\ pc = "sleep"
  /\ Report(g_infraredStatus)
  /\ beep' = "OFF"
  /\ g_infraredStatus' = 0
  /\ pc' = "wait"
  /\ UNCHANGED <<g_eventFlagsId, flag, registered, connected, intrusions, covered>>

EndAlarmDebounced ==
  /\ pc = "sleep"
  /\ beep' = "OFF"
  /\ g_infraredStatus' = 0
  /\ Report(0)
  /\ flag' = 0
  /\ pc' = "wait"
  /\ UNCHANGED <<g_eventFlagsId, registered, connected, intrusions, covered>>

(* After BEEP_DELAY seconds the alarm ends: buzzer, status, report. *)
EndAlarm ==
  /\ pc = "sleep"
  /\ beep' = "OFF"
  /\ g_infraredStatus' = 0
  /\ Report(0)
  /\ pc' = "wait"
  /\ UNCHANGED <<g_eventFlagsId, flag, registered, connected, intrusions, covered>>

(* BeepAlarm, the interrupt's handler: osEventFlagsSet, which fails on a   *)
(* null handle.                                                            *)
BeepAlarm ==
  /\ registered = 1
  /\ intrusions < MaxIntrusions
  /\ intrusions' = intrusions + 1
  /\ flag' = IF g_eventFlagsId = "made" THEN 1 ELSE flag
  /\ UNCHANGED <<pc, g_eventFlagsId, registered, connected, g_infraredStatus, beep, heard,
                 lost, covered>>

Task == WifiConnect \/ Connect \/ Register \/ FirstReport \/ Wake \/ BeginAlarm \/ EndAlarm

Next == Task \/ BeepAlarm

(* The kernel runs a task that is ready, and a sleep ends. *)
Spec == Init /\ [][Next]_vars /\ WF_vars(Task)

-----------------------------------------------------------------------------
TypeOK ==
  /\ pc \in {"start", "network", "register", "first", "wait", "alarm", "sleep", "ended"}
  /\ g_eventFlagsId \in {"made", "null"}
  /\ flag \in {0, 1}
  /\ registered \in {0, 1}
  /\ connected \in {0, 1}
  /\ g_infraredStatus \in {0, 1}
  /\ beep \in {"ON", "OFF"}
  /\ heard \in {"nothing", "Intrude", "Safe"}
  /\ lost \in {0, 1}
  /\ intrusions \in 0..MaxIntrusions
  /\ covered \in 0..intrusions

(* Intrusions that come while the alarm sounds share one flag; still the   *)
(* task never waits with an intrusion behind it that no alarm followed.    *)
NothingForgotten ==
  g_eventFlagsId = "made" /\ pc = "wait" /\ flag = 0 => covered = intrusions

(* What the platform was told agrees with the buzzer whenever the task     *)
(* sleeps or waits, unless that last report was lost on its way.           *)
PlatformAgrees ==
  pc \in {"sleep", "wait"} /\ connected = 1 /\ lost = 0
    => heard = (IF beep = "ON" THEN "Intrude" ELSE "Safe")

(* The alarm does not begin again without an intrusion after the task woke *)
(* for the last one, however many there were: each alarm has its own.      *)
EachAlarmHasCause ==
  [][ pc = "wait" /\ pc' = "alarm" /\ g_eventFlagsId = "made" => covered < intrusions ]_vars

(* Every intrusion, one during an alarm included, is followed by an alarm. *)
IntrusionSounds ==
  \A k \in 1..MaxIntrusions :
    intrusions >= k /\ covered < k ~> covered >= k /\ beep = "ON"
=============================================================================
