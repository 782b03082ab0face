------------------------------ MODULE CoverApp ------------------------------
(***************************************************************************)
(* The manhole cover of BearPi-HM_Nano,                                    *)
(* bearpi_hm_nano/app/D9_iot_cloud_oc_manhole_cover: the sensor task takes *)
(* the position of the cover every three seconds, compares it with the     *)
(* first one, sets g_coverStatus and queues the reading; the cloud task    *)
(* sends each queued reading with the status it finds at that moment.      *)
(*                                                                         *)
(* A reading is its number; readings[n] is the acceleration it holds.  The *)
(* heap block it travels in is owned as in CloudApp.                       *)
(***************************************************************************)
EXTENDS Integers, Sequences, FiniteSetsExt

CONSTANTS
  Positions,       (* accelerations <<x, y, z>> the sensor may deliver     *)
  FLIP_THRESHOLD,  (* difference on an axis that is no tilt yet            *)
  MSGQUEUE_COUNT,  (* capacity of the message queue                        *)
  MaxReadings      (* bound: readings in a behaviour                       *)

Short == -32768..32767

ASSUME CoverAssumption ==
  /\ Positions \subseteq Short \X Short \X Short
  /\ FLIP_THRESHOLD \in Nat
  /\ MSGQUEUE_COUNT \in Nat \ {0}
  /\ MaxReadings \in Nat

VARIABLES
  handle,        (* g_app_cb.app_msg: "unset", "made" or "failed"          *)
  queue,         (* the readings in it                                     *)
  connected,     (* g_app_cb.connected                                     *)
  g_coverStatus, (* 0 or 1                                                 *)
  sensorPc, sensorMsg,  (* SensorTaskEntry and its reading, 0 for NULL     *)
  base,          (* X, Y, Z of SensorTaskEntry                             *)
  cloudPc, cloudMsg,    (* CloudMainTaskEntry and its reading              *)
  readings,      (* every reading taken                                    *)
  reports        (* what deal_report_msg handed to the library, oldest     *)
                 (* first: reading, status, and the readings taken by then *)

sensorVars == <<sensorPc, sensorMsg, base, readings, g_coverStatus>>
cloudVars  == <<cloudPc, cloudMsg, connected, reports>>
coverVars == <<handle, queue, sensorVars, cloudVars>>

Origin == <<0, 0, 0>>

CoverInit ==
  /\ handle = "unset"
  /\ queue = <<>>
  /\ connected = 0
  /\ g_coverStatus = 0
  /\ sensorPc = "init" /\ sensorMsg = 0
  /\ base = Origin
  /\ cloudPc = "start" /\ cloudMsg = 0
  /\ readings = <<>>
  /\ reports = <<>>

-----------------------------------------------------------------------------
(* The sensor task.                                                        *)

(* Some axis moved by more than the threshold. *)
Far(from, p) ==
  \E axis \in 1..3 :
    from[axis] + FLIP_THRESHOLD < p[axis] \/ from[axis] - FLIP_THRESHOLD > p[axis]

(* E53SC2Init; on an error the task ends. *)
SensorInit ==
  /\ sensorPc = "init"
  /\ sensorPc' \in {"read", "ended"}
  /\ UNCHANGED <<handle, queue, sensorMsg, base, readings, g_coverStatus, cloudVars>>

ClassifyFromLast(p) ==
  /\ base' = p
  /\ g_coverStatus' = IF base # Origin /\ Far(base, p) THEN 1 ELSE 0

(* While X, Y and Z are all 0 the reading becomes the base, and the status *)
(* stays as it is; after that the base decides.  Two LEDs show the status. *)
Classify(p) ==
  IF base = Origin
  THEN base' = p /\ UNCHANGED g_coverStatus
  ELSE base' = base /\ g_coverStatus' = IF Far(base, p) THEN 1 ELSE 0

(* One round of the loop up to the Put: E53SC2ReadData, whose error ends   *)
(* the task, the status, and malloc, whose failure drops the reading.      *)
SensorRead ==
  /\ sensorPc = "read"
  /\ \/ /\ sensorPc' = "ended"
        /\ UNCHANGED <<sensorMsg, base, readings, g_coverStatus>>
     \/ /\ Len(readings) < MaxReadings
        /\ \E p \in Positions : readings' = Append(readings, p) /\ Classify(p)
        /\ \/ sensorMsg' = Len(readings) + 1 /\ sensorPc' = "put"
           \/ sensorMsg' = 0 /\ sensorPc' = "sleep"
  /\ UNCHANGED <<handle, queue, cloudVars>>

HasRoom == handle = "made" /\ Len(queue) < MSGQUEUE_COUNT

(* osMessageQueuePut: into the queue, or an error, at once without a queue *)
(* and after CONFIG_QUEUE_TIMEOUT without room; then the block is freed.   *)
SensorPut ==
  /\ sensorPc = "put"
  /\ queue' = IF HasRoom THEN Append(queue, sensorMsg) ELSE queue
  /\ sensorMsg' = 0
  /\ sensorPc' = "sleep"
  /\ UNCHANGED <<handle, base, readings, g_coverStatus, cloudVars>>

SensorSleep ==
  /\ sensorPc = "sleep"
  /\ sensorPc' = "read"
  /\ UNCHANGED <<handle, queue, sensorMsg, base, readings, g_coverStatus, cloudVars>>

-----------------------------------------------------------------------------
(* The cloud task.                                                         *)

(* WifiConnect, whose result is not looked at, or which never returns. *)
WifiConnect ==
  /\ cloudPc = "start"
  /\ cloudPc' = "create"
  /\ UNCHANGED <<handle, queue, sensorVars, cloudMsg, connected, reports>>

(* The initialisations, and osMessageQueueNew, whose failure is only       *)
(* logged.                                                                 *)
CreateQueue ==
  /\ cloudPc = "create"
  /\ handle' \in {"made", "failed"}
  /\ cloudPc' = "connect"
  /\ UNCHANGED <<queue, sensorVars, cloudMsg, connected, reports>>

ConnectStoringResult ==
  /\ cloudPc = "connect"
  /\ connected' \in 0..2
  /\ cloudPc' = "get"
  /\ UNCHANGED <<handle, queue, sensorVars, cloudMsg, reports>>

(* oc_mqtt_profile_connect. *)
Connect ==
  /\ cloudPc = "connect"
  /\ connected' \in {0, 1}
  /\ cloudPc' = "get"
  /\ UNCHANGED <<handle, queue, sensorVars, cloudMsg, reports>>

(* osMessageQueueGet returns a reading; on a queue that could not be made  *)
(* it returns an error again and again.                                    *)
Get ==
  /\ cloudPc = "get"
  /\ queue # <<>>
  /\ cloudMsg' = Head(queue)
  /\ queue' = Tail(queue)
  /\ cloudPc' = "report"
  /\ UNCHANGED <<handle, sensorVars, connected, reports>>

(* deal_report_msg, which does nothing without a connection and ignores    *)
(* the result of oc_mqtt_profile_propertyreport; then free.                *)
DealReport ==
  /\ cloudPc = "report"
  /\ IF connected = 1
     THEN reports' = Append(reports, [ n |-> cloudMsg, status |-> g_coverStatus,
                                       at |-> Len(readings) ])
     ELSE UNCHANGED reports
  /\ cloudMsg' = 0
  /\ cloudPc' = "get"
  /\ UNCHANGED <<handle, queue, sensorVars, connected>>

-----------------------------------------------------------------------------
Sensor == SensorInit \/ SensorRead \/ SensorPut \/ SensorSleep
Cloud  == WifiConnect \/ CreateQueue \/ Connect \/ Get \/ DealReport

CoverNext == Sensor \/ Cloud

CoverSpec == CoverInit /\ [][CoverNext]_coverVars

-----------------------------------------------------------------------------
CoverTypeOK ==
  /\ handle \in {"unset", "made", "failed"}
  /\ queue \in Seq(1..Len(readings)) /\ Len(queue) <= MSGQUEUE_COUNT
  /\ connected \in {0, 1}
  /\ g_coverStatus \in {0, 1}
  /\ sensorPc \in {"init", "read", "put", "sleep", "ended"}
  /\ sensorMsg \in 0..Len(readings)
  /\ base \in Positions \cup {Origin}
  /\ cloudPc \in {"start", "create", "connect", "get", "report"}
  /\ cloudMsg \in 0..Len(readings)
  /\ readings \in Seq(Positions) /\ Len(readings) <= MaxReadings
  /\ reports \in Seq([ n : Nat, status : {0, 1}, at : Nat ])

(* What the status after the n-th of the readings in a row should be:   *)
(* compared with the first one that is not the origin, once there was one. *)
Reference(row, n) ==
  LET usable == { i \in 1..(n - 1) : row[i] # Origin }
  IN  IF usable # {} /\ Far(row[Min(usable)], row[n]) THEN 1 ELSE 0

(* A report says of the cover what the newest reading says, however old    *)
(* the reading it carries is, and never anything older; and readings are   *)
(* reported in the order they were taken.                                  *)
StatusIsNewest ==
  \A i \in DOMAIN reports :
    /\ reports[i].n <= reports[i].at
    /\ reports[i].status = Reference(readings, reports[i].at)
    /\ \A j \in 1..(i - 1) : reports[j].n < reports[i].n
=============================================================================
