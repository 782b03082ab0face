------------------------------ MODULE CloudApp ------------------------------
(***************************************************************************)
(* Four cloud applications of BearPi-HM_Nano, iot_cloud_oc_sample.c of     *)
(* bearpi_hm_nano/app/D11_iot_cloud_oc_agriculture, D7_iot_cloud_oc_smoke, *)
(* D8_iot_cloud_oc_light and D12_iot_cloud_oc_gps: the MQTT engine's       *)
(* receive callback and the sensor task put heap blocks (app_msg_t) into   *)
(* one bounded message queue, and the cloud task takes them out, acts on   *)
(* them, publishes and frees them.  A board runs the one it was built with.*)
(*                                                                         *)
(* A pointer is the identity of a heap block; the contents of a block are  *)
(* what was stored in it.  The three threads interleave at their calls of  *)
(* the kernel and of the MQTT library.                                     *)
(***************************************************************************)
EXTENDS Integers, Sequences, FiniteSets

CONSTANTS
  Apps,         (* the applications a board may be built with              *)
  Blocks,       (* heap blocks an app_msg_t can be allocated in            *)
  NULL,         (* the null pointer, and what a free block contains        *)
  MSGQUEUE_COUNT, (* capacity of the message queue                         *)
  Commands,     (* kinds of command the platform sends                     *)
  EngineLock,   (* TRUE if the MQTT client library holds its lock while it *)
                (* runs the receive callback, so that publishing waits     *)
  MaxDelivered, (* bound: commands delivered in a behaviour                *)
  MaxSamples    (* bound: sensor readings in a behaviour                   *)

AllApps == {"agriculture", "smoke", "light", "gps"}

Actuators == {"light", "motor", "beep", "led"}

(* A command as deal_cmd_msg tells commands apart: what its command_name   *)
(* selects ("text" is not JSON, "unnamed" has no command_name, "other" is  *)
(* a name the code does not know) and the value it finds for the actuator. *)
CommandKinds == [ target : Actuators \cup {"other", "unnamed", "text"},
                  value  : {"ON", "OFF", "no_para", "no_paras"} ]

ASSUME CloudAssumption ==
  /\ Apps \subseteq AllApps
  /\ NULL \notin Blocks
  /\ NULL \notin Nat
  /\ MSGQUEUE_COUNT \in Nat \ {0}
  /\ Commands \subseteq CommandKinds
  /\ EngineLock \in BOOLEAN
  /\ MaxDelivered \in Nat
  /\ MaxSamples \in Nat

CommandMsg == [ type : {"cmd"}, n : 1..MaxDelivered, kind : CommandKinds ]
ReportMsg  == [ type : {"report"}, n : 1..MaxSamples ]

(* What the platform knows of a command. *)
Command == [ n : 1..MaxDelivered, kind : CommandKinds ]

ASSUME NullAssumption == NULL \notin CommandMsg \cup ReportMsg \cup Command

VARIABLES
  app,         (* the application on the board                             *)
  heap,        (* contents of every block, NULL when it is free            *)
  queue,       (* the blocks in g_app_cb.app_msg                           *)
  handle,      (* the queue itself: "unset", "made", or "failed"           *)
  session,     (* 1 once the library has subscribed to the command topic   *)
  connected,   (* g_app_cb.connected, 0 or 1                               *)
  on,          (* the actuators whose g_app_cb flag (led, motor) is 1      *)
  cloudPc, cloudMsg,    (* CloudMainTaskEntry                              *)
  tree,        (* obj_root of the command being handled                    *)
  leaked,      (* parsed commands whose tree was never deleted             *)
  sensorPc, sensorMsg,  (* SensorTaskEntry                                 *)
  samples,     (* readings taken                                           *)
  lost,        (* blocks the sensor task allocated and forgot              *)
  enginePc, engineMsg,  (* msg_rcv_callback, on the MQTT engine's thread   *)
  delivered,   (* commands handed to the callback                          *)
  answers,     (* oc_mqtt_profile_cmdresp calls, oldest first              *)
  reports      (* oc_mqtt_profile_propertyreport calls, oldest first       *)

heapVars   == <<heap, queue, handle>>
cloudVars  == <<cloudPc, cloudMsg, connected, on, tree, leaked, answers, reports>>
sensorVars == <<sensorPc, sensorMsg, samples, lost>>
engineVars == <<enginePc, engineMsg, session, delivered>>
vars == <<app, heapVars, cloudVars, sensorVars, engineVars>>

Init ==
  /\ app \in Apps
  /\ heap = [b \in Blocks |-> NULL]
  /\ queue = <<>>
  /\ handle = "unset"
  /\ session = 0
  /\ connected = 0
  /\ on = {}
  /\ cloudPc = "wifi"    /\ cloudMsg = NULL
  /\ tree = "none"
  /\ leaked = 0
  /\ sensorPc = "init"   /\ sensorMsg = NULL
  /\ samples = 0
  /\ lost = {}
  /\ enginePc = "idle"   /\ engineMsg = NULL
  /\ delivered = 0
  /\ answers = <<>>
  /\ reports = <<>>

-----------------------------------------------------------------------------
(* The kernel's queue and heap, as the application uses them.              *)

(* malloc: some free block receives the message. *)
Store(b, msg) == heap[b] = NULL /\ heap' = [heap EXCEPT ![b] = msg]

(* The actuators deal_cmd_msg of the application has commands for. *)
Own == CASE app = "agriculture" -> {"light", "motor"}
         [] app = "light" -> {"led"}
         [] OTHER -> {"beep"}

Free(b) == heap' = [heap EXCEPT ![b] = NULL]

HasRoom == handle = "made" /\ Len(queue) < MSGQUEUE_COUNT

PutSucceedsInFront(b) == HasRoom /\ queue' = <<b>> \o queue /\ UNCHANGED <<heap, handle>>

(* osMessageQueuePut returns 0: the pointer is in the queue. *)
PutSucceeds(b) ==
  /\ HasRoom
  /\ queue' = Append(queue, b)
  /\ UNCHANGED <<heap, handle>>

PutFailsWithoutFree(b) == ~HasRoom /\ UNCHANGED heapVars

PutNeverTimesOut(b) == handle # "made" /\ Free(b) /\ UNCHANGED <<queue, handle>>

(* osMessageQueuePut returns an error, at once on a null handle and after  *)
(* its timeout on a full queue; both callers then free the block.          *)
PutFails(b) ==
  /\ ~HasRoom
  /\ Free(b)
  /\ UNCHANGED <<queue, handle>>

-----------------------------------------------------------------------------
(* The MQTT engine's thread: msg_rcv_callback.  Messages of another type   *)
(* than a command return at once and change nothing.                       *)

(* The library, inside oc_mqtt_profile_connect, subscribes. *)
Subscribe ==
  /\ cloudPc = "connect"
  /\ session = 0
  /\ session' = 1
  /\ UNCHANGED <<heapVars, cloudVars, sensorVars, enginePc, engineMsg, delivered>>

(* A command arrives and is copied into a block, or malloc returns NULL    *)
(* and the callback returns.                                               *)
Receive(kind) ==
  /\ session = 1
  /\ enginePc = "idle"
  /\ delivered < MaxDelivered
  /\ kind.target \in Actuators => kind.target \in Own
  /\ delivered' = delivered + 1
  /\ \/ \E b \in Blocks :
          /\ Store(b, [type |-> "cmd", n |-> delivered + 1, kind |-> kind])
          /\ engineMsg' = b
          /\ enginePc' = "put"
     \/ UNCHANGED <<heap, enginePc, engineMsg>>
  /\ UNCHANGED <<queue, handle, session, cloudVars, sensorVars>>

(* Put with CONFIG_QUEUE_TIMEOUT, then return to the library. *)
CallbackPut ==
  /\ enginePc = "put"
  /\ PutSucceeds(engineMsg) \/ PutFails(engineMsg)
  /\ enginePc' = "idle"
  /\ engineMsg' = NULL
  /\ UNCHANGED <<session, delivered, cloudVars, sensorVars>>

-----------------------------------------------------------------------------
(* The sensor task.                                                        *)

(* E53IA1Init; on an error the task ends. *)
SensorInit ==
  /\ sensorPc = "init"
  /\ sensorPc' \in {"read", "ended"}
  /\ UNCHANGED <<heapVars, cloudVars, engineVars, sensorMsg, samples, lost>>

(* The smoke sensor's and the GPS board's initialisation cannot fail. *)
SensorStart ==
  /\ sensorPc = "init"
  /\ sensorPc' = "read"
  /\ UNCHANGED <<heapVars, cloudVars, engineVars, sensorMsg, samples, lost>>

PutNullReading == sensorPc' = "put" /\ UNCHANGED <<heap, sensorMsg>>

(* The null check after malloc. *)
DropReading == sensorPc' = "sleep" /\ UNCHANGED <<heap, sensorMsg>>

(* E53IA1ReadData; on an error the task ends.  A reading for which malloc  *)
(* returns NULL is dropped.                                                *)
SensorRead ==
  /\ sensorPc = "read"
  /\ \/ /\ sensorPc' = "ended"
        /\ UNCHANGED <<heap, sensorMsg, samples>>
     \/ /\ samples < MaxSamples
        /\ samples' = samples + 1
        /\ \/ \E b \in Blocks :
                /\ Store(b, [type |-> "report", n |-> samples + 1])
                /\ sensorMsg' = b
                /\ sensorPc' = "put"
           \/ DropReading
  /\ UNCHANGED <<queue, handle, lost, cloudVars, engineVars>>

(* The GPS receiver never fails to give a reading, but the reading may     *)
(* have no fix; its block is then neither queued nor freed.                *)
GpsRead ==
  /\ sensorPc = "read"
  /\ samples < MaxSamples
  /\ samples' = samples + 1
  /\ \/ \E b \in Blocks :
          /\ Store(b, [type |-> "report", n |-> samples + 1])
          /\ \/ sensorMsg' = b /\ sensorPc' = "put" /\ lost' = lost
             \/ lost' = lost \cup {b} /\ sensorPc' = "sleep" /\ sensorMsg' = sensorMsg
     \/ DropReading /\ lost' = lost
  /\ UNCHANGED <<queue, handle, cloudVars, engineVars>>

(* Put with a timeout of one tick (CONFIG_QUEUE_TIMEOUT != 0) in D11, of   *)
(* CONFIG_QUEUE_TIMEOUT in the others.                                     *)
SensorPut ==
  /\ sensorPc = "put"
  /\ PutSucceeds(sensorMsg) \/ PutFails(sensorMsg)
  /\ sensorPc' = "sleep"
  /\ sensorMsg' = NULL
  /\ UNCHANGED <<samples, lost, cloudVars, engineVars>>

SensorSleep ==
  /\ sensorPc = "sleep"
  /\ sensorPc' = "read"
  /\ UNCHANGED <<heapVars, cloudVars, engineVars, sensorMsg, samples, lost>>

-----------------------------------------------------------------------------
(* The cloud task.                                                         *)

WifiUpWithoutQueue ==
  /\ cloudPc = "wifi"
  /\ cloudPc' = "connect"
  /\ UNCHANGED <<heapVars, sensorVars, engineVars, cloudMsg, connected, on, tree,
                 leaked, answers, reports>>

(* WifiConnect returns; the DTLS, MQTT and OC layers are initialised. *)
WifiUp ==
  /\ cloudPc = "wifi"
  /\ cloudPc' = "create"
  /\ UNCHANGED <<heapVars, sensorVars, engineVars, cloudMsg, connected, on, tree,
                 leaked, answers, reports>>

(* osMessageQueueNew; the task goes on when it fails. *)
CreateQueue ==
  /\ cloudPc = "create"
  /\ cloudPc' = "connect"
  /\ handle' \in {"made", "failed"}
  /\ UNCHANGED <<heap, queue, sensorVars, engineVars, cloudMsg, connected, on, tree,
                 leaked, answers, reports>>

(* oc_mqtt_profile_connect returns; the task goes on when it failed. *)
Connect ==
  /\ cloudPc = "connect"
  /\ connected' \in {0, session}
  /\ cloudPc' = "get"
  /\ UNCHANGED <<heapVars, sensorVars, engineVars, cloudMsg, on, tree, leaked, answers,
                 reports>>

(* osMessageQueueGet waits for ever.  On a handle that is not a queue it   *)
(* returns an error at once and the loop spins without effect.             *)
Get ==
  /\ cloudPc = "get"
  /\ handle = "made"
  /\ queue # <<>>
  /\ cloudMsg' = Head(queue)
  /\ queue' = Tail(queue)
  /\ cloudPc' = IF heap[Head(queue)].type = "cmd" THEN "parse" ELSE "report"
  /\ UNCHANGED <<heap, handle, sensorVars, engineVars, connected, on, tree, leaked,
                 answers, reports>>

(* A call of the MQTT library that publishes waits for the client's lock. *)
CanPublish == EngineLock => enginePc = "idle"

Kind == heap[cloudMsg].kind

(* cJSON_Delete(obj_root) *)
Delete(t) == IF t = "live" THEN "deleted" ELSE IF t = "deleted" THEN "corrupt" ELSE t

(* cJSON_Parse; it returns NULL for text that is not JSON and when there   *)
(* is no memory for the tree.                                              *)
ParseCommand ==
  /\ cloudPc = "parse"
  /\ \/ Kind.target # "text" /\ tree' = "live" /\ cloudPc' = "execute"
     \/ tree' = "none" /\ cloudPc' = "reject"
  /\ UNCHANGED <<heapVars, sensorVars, engineVars, cloudMsg, connected, on, leaked,
                 answers, reports>>

Respond(code) ==
  answers' = Append(answers, [n |-> heap[cloudMsg].n, code |-> code, kind |-> Kind])

(* oc_cmdresp(cmd, 1), after which deal_cmd_msg goes on. *)
RejectCommand ==
  /\ cloudPc = "reject"
  /\ CanPublish
  /\ Respond(1)
  /\ cloudPc' = "execute"
  /\ UNCHANGED <<heapVars, sensorVars, engineVars, cloudMsg, connected, on, tree, leaked,
                 reports>>

(* strcmp is called on a null string: the tree, the name or the value is missing. *)
NullString ==
  \/ tree = "none"
  \/ Kind.target = "unnamed"
  \/ Kind.target \in Actuators /\ Kind.value \in {"no_para", "no_paras"}

(* Comparing a null string is undefined.  Either the task takes a fault,   *)
(* which stops the board, or the comparison finds a difference.            *)
Fault ==
  /\ cloudPc = "execute"
  /\ NullString
  /\ cloudPc' = "fault"
  /\ UNCHANGED <<heapVars, sensorVars, engineVars, cloudMsg, connected, on, tree, leaked,
                 answers, reports>>

(* The tree after the deletions made before the response. *)
TreeAfterLookup ==
  CASE Kind.target = "unnamed" -> Delete(tree)
    [] Kind.target \in Actuators /\ Kind.value = "no_paras" -> Delete(Delete(tree))
    [] Kind.target \in Actuators \ {"light"} /\ Kind.value = "no_para" -> Delete(tree)
    [] OTHER -> tree

SwitchOnOnly(a, value) == on' = IF value = "ON" THEN on \cup {a} ELSE on

(* The flag of the actuator and its pin. *)
Switch(a, value) == on' = IF value = "ON" THEN on \cup {a} ELSE on \ {a}

(* The command has a tree and a name that deal_cmd_msg knows. *)
IsKnown == tree # "none" /\ Kind.target \in Actuators

(* deal_light_cmd, deal_motor_cmd up to the response; another command has  *)
(* neither effect nor response.                                            *)
ExecuteCommand ==
  /\ cloudPc = "execute"
  /\ tree' = TreeAfterLookup
  /\ IF IsKnown
     THEN Switch(Kind.target, Kind.value) /\ cloudPc' = "respond"
     ELSE /\ cloudPc' = "free"
          /\ UNCHANGED on
  /\ UNCHANGED <<heapVars, sensorVars, engineVars, cloudMsg, connected, leaked, answers,
                 reports>>

RespondWithoutDelete ==
  /\ cloudPc = "respond"
  /\ CanPublish
  /\ Respond(0)
  /\ cloudPc' = "free"
  /\ UNCHANGED <<heapVars, sensorVars, engineVars, cloudMsg, connected, on, tree, leaked,
                 reports>>

(* D11: oc_cmdresp(cmd, 0) and the last deletion of the tree. *)
RespondToCommand ==
  /\ cloudPc = "respond"
  /\ CanPublish
  /\ Respond(0)
  /\ tree' = Delete(tree)
  /\ cloudPc' = "free"
  /\ UNCHANGED <<heapVars, sensorVars, engineVars, cloudMsg, connected, on, leaked, reports>>

(* D7, D8, D12: oc_cmdresp(cmd, 0) is the last thing deal_cmd_msg does;    *)
(* the tree stays in the heap.                                             *)
RespondToControl ==
  /\ cloudPc = "respond"
  /\ CanPublish
  /\ Respond(0)
  /\ cloudPc' = "free"
  /\ UNCHANGED <<heapVars, sensorVars, engineVars, cloudMsg, connected, on, tree, leaked,
                 reports>>

(* deal_report_msg: nothing is sent while the board is not connected.  The *)
(* status of the actuators is read here, not when the sensor was read.     *)
Report ==
  /\ cloudPc = "report"
  /\ IF connected = 1
     THEN /\ CanPublish
          /\ reports' = Append(reports, [n |-> heap[cloudMsg].n, on |-> on,
                                         after |-> Len(answers)])
     ELSE UNCHANGED reports
  /\ cloudPc' = "free"
  /\ UNCHANGED <<heapVars, sensorVars, engineVars, cloudMsg, connected, on, tree, leaked,
                 answers>>

(* free(app_msg) ends the round. *)
Release ==
  /\ cloudPc = "free"
  /\ Free(cloudMsg)
  /\ cloudMsg' = NULL
  /\ leaked' = IF tree = "live" THEN leaked + 1 ELSE leaked
  /\ tree' = "none"
  /\ cloudPc' = "get"
  /\ UNCHANGED <<queue, handle, sensorVars, engineVars, connected, on, answers, reports>>

-----------------------------------------------------------------------------
(* D11, the agriculture application.                                       *)

Engine == Subscribe \/ CallbackPut \/ \E kind \in Commands : Receive(kind)

Sensor == SensorInit \/ SensorRead \/ SensorPut \/ SensorSleep

HandleCommand ==
  \/ ParseCommand \/ RejectCommand \/ ExecuteCommand \/ RespondToCommand \/ Fault

Cloud == WifiUp \/ CreateQueue \/ Connect \/ Get \/ HandleCommand \/ Report \/ Release

(* The other applications have copies of all of this, wifi_connect.c       *)
(* included.  D7, the smoke detector: one actuator, a sensor that starts   *)
(* at once.                                                                *)

SmokeCallback == Engine

SmokeSensor == SensorStart \/ SensorRead \/ SensorPut \/ SensorSleep

SmokeCommand ==
  \/ ParseCommand \/ RejectCommand \/ ExecuteCommand \/ RespondToControl \/ Fault

SmokeReport == Report

SmokeWifiConnect == WifiUp

SmokeCloud ==
  \/ SmokeWifiConnect \/ CreateQueue \/ Connect \/ Get \/ SmokeCommand \/ SmokeReport \/ Release

(* D8, the light: as D7, with a sensor whose initialisation may fail.      *)

LightCallback == Engine

LightSensor == SensorInit \/ SensorRead \/ SensorPut \/ SensorSleep

LightCommand ==
  \/ ParseCommand \/ RejectCommand \/ ExecuteCommand \/ RespondToControl \/ Fault

LightReport == Report

LightWifiConnect == WifiUp

LightCloud ==
  \/ LightWifiConnect \/ CreateQueue \/ Connect \/ Get \/ LightCommand \/ LightReport \/ Release

(* D12, the GPS tracker: as D7, with readings that may have no fix.        *)

GpsCallback == Engine

GpsSensor == SensorStart \/ GpsRead \/ SensorPut \/ SensorSleep

GpsCommand ==
  \/ ParseCommand \/ RejectCommand \/ ExecuteCommand \/ RespondToControl \/ Fault

GpsReport == Report

GpsWifiConnect == WifiUp

GpsCloud ==
  \/ GpsWifiConnect \/ CreateQueue \/ Connect \/ Get \/ GpsCommand \/ GpsReport \/ Release

-----------------------------------------------------------------------------
Callback ==
  \/ app = "agriculture" /\ Engine
  \/ app = "smoke" /\ SmokeCallback
  \/ app = "light" /\ LightCallback
  \/ app = "gps" /\ GpsCallback

SensorTask ==
  \/ app = "agriculture" /\ Sensor
  \/ app = "smoke" /\ SmokeSensor
  \/ app = "light" /\ LightSensor
  \/ app = "gps" /\ GpsSensor

CloudTask ==
  \/ app = "agriculture" /\ Cloud
  \/ app = "smoke" /\ SmokeCloud
  \/ app = "light" /\ LightCloud
  \/ app = "gps" /\ GpsCloud

(* A fault in one task stops the board. *)
Running == cloudPc # "fault"

Next == Running /\ UNCHANGED app /\ (Callback \/ SensorTask \/ CloudTask)

Spec == Init /\ [][Next]_vars

(***************************************************************************)
(* The kernel runs every ready task in the end and a waiting Put ends, by  *)
(* room or by its timeout.  The library's lock goes to a waiting task when *)
(* it is released, so the cloud task gets it if it is free again and again.*)
(* Nothing is assumed of the Wi-Fi, the platform or the sensor.            *)
(***************************************************************************)
Fairness ==
  /\ SF_vars(UNCHANGED app /\ CloudTask /\ cloudPc # "wifi")
  /\ WF_vars(Running /\ UNCHANGED app /\ CallbackPut)
  /\ WF_vars(Running /\ UNCHANGED app /\ SensorPut)

FairSpec == Spec /\ Fairness

-----------------------------------------------------------------------------
(* Type invariant.                                                         *)

Answer == [ n : 1..MaxDelivered, code : {0, 1}, kind : CommandKinds ]

ReportSent == [ n : 1..MaxSamples, on : SUBSET Actuators, after : Nat ]

CloudPcs == {"wifi", "create", "connect", "get", "parse", "reject", "execute", "respond",
             "report", "free", "fault"}

TypeOK ==
  /\ app \in AllApps
  /\ heap \in [Blocks -> CommandMsg \cup ReportMsg \cup {NULL}]
  /\ queue \in Seq(Blocks)
  /\ handle \in {"unset", "made", "failed"}
  /\ session \in {0, 1}
  /\ connected \in {0, 1}
  /\ on \in SUBSET Actuators
  /\ cloudPc \in CloudPcs
  /\ cloudMsg \in Blocks \cup {NULL}
  /\ tree \in {"none", "live", "deleted", "corrupt"}
  /\ leaked \in Nat
  /\ sensorPc \in {"init", "read", "put", "sleep", "ended"}
  /\ sensorMsg \in Blocks \cup {NULL}
  /\ samples \in 0..MaxSamples
  /\ lost \in SUBSET Blocks
  /\ enginePc \in {"idle", "put"}
  /\ engineMsg \in Blocks \cup {NULL}
  /\ delivered \in 0..MaxDelivered
  /\ answers \in Seq(Answer)
  /\ reports \in Seq(ReportSent)

-----------------------------------------------------------------------------
(* Safety.                                                                 *)

Elements(q) == { q[i] : i \in DOMAIN q }
Distinct(q) == \A i, j \in DOMAIN q : i # j => q[i] # q[j]

Queued == Elements(queue)

(* Every app_msg_t in the heap belongs to exactly one of the three threads *)
(* or stands once in the queue, across the Puts that fail, time out or     *)
(* meet a null handle: none is leaked, freed twice or used after a free,   *)
(* but for the readings without a fix of the GPS application, which nobody *)
(* holds and which never come back.                                        *)
HeapOwnership ==
  /\ Distinct(queue)
  /\ engineMsg # NULL => engineMsg \notin Queued \cup {sensorMsg, cloudMsg}
  /\ sensorMsg # NULL => sensorMsg \notin Queued \cup {cloudMsg}
  /\ cloudMsg # NULL => cloudMsg \notin Queued
  /\ lost # {} => app = "gps" /\ lost \cap (Queued \cup {engineMsg, sensorMsg, cloudMsg}) = {}
  /\ \A b \in Blocks :
       heap[b] # NULL <=> b \in Queued \cup {engineMsg, sensorMsg, cloudMsg} \cup lost

(* What the answers sent so far say of an actuator: the last command for   *)
(* it that was answered with success, OFF before the first one.            *)
OnAfter(k, a) ==
  \E i \in 1..k :
    /\ answers[i].code = 0 /\ answers[i].kind.target = a /\ answers[i].kind.value = "ON"
    /\ \A j \in (i + 1)..k : answers[j].code = 0 => answers[j].kind.target # a

(* Readings reach the platform in the order they were taken, none twice,   *)
(* and the LightStatus and MotorStatus of a report are those the platform  *)
(* was told by the answers sent before it, whatever was queued in between. *)
ReportsTrue ==
  /\ \A i, j \in DOMAIN reports : i < j => reports[i].n < reports[j].n
  /\ \A i \in DOMAIN reports :
       reports[i].on = { a \in Actuators : OnAfter(reports[i].after, a) }

(* The commands the product profile of the README defines. *)
Profile == [ target : Actuators, value : {"ON", "OFF"} ]

Successes == { i \in DOMAIN answers : answers[i].code = 0 }

IsAnswered(n) == \E i \in DOMAIN answers : answers[i].n = n

(* The block of a command that the callback copied (it drops a command for *)
(* which malloc fails) is freed only in two places: by the callback, while *)
(* the queue is full or could not be created, and by the cloud task, after *)
(* the command was answered or has turned out to have no name, or one the  *)
(* application does not know.  So no command gets lost between the two,    *)
(* and none arrives before the queue exists.                               *)
FreedWhenAnsweredOrFull ==
  [][ \A b \in Blocks :
        heap[b] # NULL /\ heap[b].type = "cmd" /\ heap'[b] # heap[b] =>
          \/ b = engineMsg /\ (handle = "failed" \/ Len(queue) = MSGQUEUE_COUNT)
          \/ b = cloudMsg /\ (IsAnswered(heap[b].n) \/ heap[b].kind.target \in {"unnamed", "other"})
    ]_vars

(* While the platform keeps to the profile, the agriculture application    *)
(* deletes the JSON tree of every command exactly once; the other three    *)
(* lose exactly the trees of the commands they answered with success.      *)
TreesReleased ==
  Commands \subseteq Profile =>
    /\ tree # "corrupt"
    /\ IF app = "agriculture" THEN leaked = 0
       ELSE Cardinality(Successes)
              = leaked + (IF cloudPc = "free" /\ tree = "live" THEN 1 ELSE 0)

-----------------------------------------------------------------------------
(* Liveness.                                                               *)

(* The callback returns to the library, and every command of the profile   *)
(* that got into the queue is answered: the cloud task, waiting for the    *)
(* library's lock, and the callback, waiting for the cloud task to make    *)
(* room, do not wait for each other for ever.                              *)
CommandsAnswered ==
  /\ enginePc = "put" ~> enginePc = "idle" \/ ~Running
  /\ \A n \in 1..MaxDelivered :
       (\E b \in Queued : heap[b].type = "cmd" /\ heap[b].n = n /\ heap[b].kind \in Profile)
         ~> IsAnswered(n) \/ ~Running

-----------------------------------------------------------------------------
(* The application implements the command service.                         *)

CommandIn(msg) == [ n |-> msg.n, kind |-> msg.kind ]

Waiting == { CommandIn(heap[b]) : b \in { c \in Queued \cup ({engineMsg} \ {NULL}) :
                                           heap[c].type = "cmd" } }

Handled == IF cloudMsg # NULL /\ heap[cloudMsg].type = "cmd" THEN CommandIn(heap[cloudMsg]) ELSE NULL

Service == INSTANCE CommandService WITH
  Kinds    <- Commands,
  Idle     <- NULL,
  inbox    <- Waiting,
  current  <- Handled,
  switched <- on

(* Every step of the tasks is a step of the service or changes nothing it  *)
(* shows: commands are handled in order, the success code is sent while    *)
(* the actuator is as the command asks, and each command that names one is *)
(* answered, once.  See CommandService.                                    *)
ImplementsService == Service!ServiceSpec
=============================================================================
