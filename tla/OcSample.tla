------------------------------ MODULE OcSample ------------------------------
(***************************************************************************)
(* The cloud example of BearPi-HM_Nano that talks to the platform through  *)
(* its own OC layer, bearpi_hm_nano/app/D6_iot_cloud_oc: the registration  *)
(* of oc_mqtt.c, the receive callback, the sensor task and the cloud task  *)
(* of iot_cloud_oc_sample.c.  Unlike the other cloud applications it       *)
(* queues a pointer into the MQTT client's read buffer instead of a copy   *)
(* of the command, never waits in Put or Get, and creates its queue before *)
(* its tasks.                                                              *)
(***************************************************************************)
EXTENDS Integers, Sequences, FiniteSets

CONSTANTS
  Cells,       (* heap blocks an app_msg_t can be allocated in             *)
  Nil,         (* the null pointer, and what a free block contains         *)
  QueueSize,   (* MSGQUEUE_COUNT                                           *)
  Texts,       (* the commands the platform may send                       *)
  MaxPushed,   (* bound: commands sent to the board                        *)
  MaxRead      (* bound: sensor readings                                   *)

(* What a block can hold. *)
AppMsgs == [type : {"cmd", "report"}, n : Nat]

ASSUME OcSampleAssumption == Nil \notin Cells /\ Nil \notin AppMsgs

VARIABLES
  store,       (* contents of every block, Nil when it is free             *)
  mid_MsgQueue, queueMade,   (* the queue, and whether it was created      *)
  client,      (* the MQTT client: "none", "broken", "refused", "connected" *)
  cmd_rsp_cb,  (* 1 once the callback is registered                        *)
  readbuf,     (* the command whose text is in oc_mqtt_readbuf, 0 for none *)
  pushed,      (* the commands that arrived                                *)
  rcvMsg,      (* the block MsgRcvCallback is about to put                 *)
  mainPc, mainMsg, json,     (* CloudMainTaskEntry, and obj_root           *)
  g_app_cb,    (* the actuators that are on                                *)
  sensPc, sensMsg, taken,    (* SensorTaskEntry, and readings taken        *)
  forgotten,   (* blocks nobody points to any more                         *)
  obeyed,      (* commands handled: the one queued and the one read        *)
  reported     (* readings published                                       *)

ocMemory == <<store, mid_MsgQueue, queueMade, forgotten>>
ocEngine == <<client, cmd_rsp_cb, readbuf, pushed, rcvMsg>>
ocMain   == <<mainPc, mainMsg, json, g_app_cb, obeyed, reported>>
ocSensor == <<sensPc, sensMsg, taken>>
ocSampleVars == <<ocMemory, ocEngine, ocMain, ocSensor>>

(* The queue is created before the two tasks are. *)
OcSampleInit ==
  /\ store = [c \in Cells |-> Nil]
  /\ mid_MsgQueue = <<>>
  /\ queueMade \in {0, 1}
  /\ client = "none"
  /\ cmd_rsp_cb = 0
  /\ readbuf = 0
  /\ pushed = <<>>
  /\ rcvMsg = Nil
  /\ mainPc = "wifi" /\ mainMsg = Nil /\ json = "none"
  /\ g_app_cb = {}
  /\ sensPc = "init" /\ sensMsg = Nil /\ taken = 0
  /\ forgotten = {}
  /\ obeyed = <<>>
  /\ reported = <<>>

-----------------------------------------------------------------------------
Malloc(c, content) == store[c] = Nil /\ store' = [store EXCEPT ![c] = content]

RoomInQueue == queueMade = 1 /\ Len(mid_MsgQueue) < QueueSize

(* osMessageQueuePut with a timeout of 0. *)
PutNow(c) == RoomInQueue /\ mid_MsgQueue' = Append(mid_MsgQueue, c)

BoardRuns == mainPc # "fault"

-----------------------------------------------------------------------------
(* The MQTT client's task: mqtt_callback and MsgRcvCallback.  A command    *)
(* overwrites the read buffer whether or not the callback is registered.   *)
Push(text) ==
  /\ client = "connected" /\ rcvMsg = Nil
  /\ Len(pushed) < MaxPushed
  /\ pushed' = Append(pushed, text)
  /\ readbuf' = Len(pushed) + 1
  /\ IF cmd_rsp_cb = 0
     THEN UNCHANGED <<store, rcvMsg, mainPc>>
     ELSE \/ \E c \in Cells :
               /\ Malloc(c, [type |-> "cmd", n |-> Len(pushed) + 1])
               /\ rcvMsg' = c
               /\ UNCHANGED mainPc
          \/ mainPc' = "fault" /\ UNCHANGED <<store, rcvMsg>>     (* store through NULL *)
  /\ UNCHANGED <<mid_MsgQueue, queueMade, forgotten, client, cmd_rsp_cb, mainMsg, json,
                 g_app_cb, obeyed, reported, ocSensor>>

(* Put, or free(recv_data): what it frees is no block of the heap, which   *)
(* the allocator refuses or the board does not survive.                    *)
MsgRcvPut ==
  /\ rcvMsg # Nil
  /\ \/ PutNow(rcvMsg) /\ UNCHANGED <<forgotten, mainPc>>
     \/ /\ ~RoomInQueue
        /\ forgotten' = forgotten \cup {rcvMsg}
        /\ mainPc' \in {mainPc, "fault"}
        /\ UNCHANGED mid_MsgQueue
  /\ rcvMsg' = Nil
  /\ UNCHANGED <<store, queueMade, client, cmd_rsp_cb, readbuf, pushed, mainMsg, json,
                 g_app_cb, obeyed, reported, ocSensor>>

-----------------------------------------------------------------------------
(* SensorTaskEntry *)

SensorBegin ==
  /\ sensPc = "init"
  /\ sensPc' \in {"read", "ended"}
  /\ UNCHANGED <<ocMemory, ocEngine, ocMain, sensMsg, taken>>

TakeReading ==
  /\ sensPc = "read"
  /\ \/ sensPc' = "ended" /\ UNCHANGED <<store, sensMsg, taken>>
     \/ /\ taken < MaxRead
        /\ taken' = taken + 1
        /\ \/ \E c \in Cells :
                Malloc(c, [type |-> "report", n |-> taken + 1]) /\ sensMsg' = c /\ sensPc' = "put"
           \/ sensPc' = "sleep" /\ UNCHANGED <<store, sensMsg>>
  /\ UNCHANGED <<mid_MsgQueue, queueMade, forgotten, ocEngine, ocMain>>

PutReadingKept ==
  /\ sensPc = "put"
  /\ \/ PutNow(sensMsg) /\ UNCHANGED store
     \/ ~RoomInQueue /\ UNCHANGED <<store, mid_MsgQueue>>
  /\ sensPc' = "sleep" /\ sensMsg' = Nil
  /\ UNCHANGED <<queueMade, forgotten, ocEngine, ocMain, taken>>

PutReading ==
  /\ sensPc = "put"
  /\ \/ PutNow(sensMsg) /\ UNCHANGED store
     \/ ~RoomInQueue /\ store' = [store EXCEPT ![sensMsg] = Nil] /\ UNCHANGED mid_MsgQueue
  /\ sensPc' = "sleep" /\ sensMsg' = Nil
  /\ UNCHANGED <<queueMade, forgotten, ocEngine, ocMain, taken>>

SleepTask ==
  /\ sensPc = "sleep"
  /\ sensPc' = "read"
  /\ UNCHANGED <<ocMemory, ocEngine, ocMain, sensMsg, taken>>

-----------------------------------------------------------------------------
(* CloudMainTaskEntry *)

GoTo(from, to) == mainPc = from /\ mainPc' = to

(* WifiConnect, whose result is not looked at. *)
JoinHotspot ==
  /\ GoTo("wifi", "device")
  /\ UNCHANGED <<ocMemory, ocEngine, ocSensor, mainMsg, json, g_app_cb, obeyed, reported>>

(* device_info_init *)
DeviceInfo ==
  /\ GoTo("device", "mqtt")
  /\ UNCHANGED <<ocMemory, ocEngine, ocSensor, mainMsg, json, g_app_cb, obeyed, reported>>

(* oc_mqtt_entry: no memory for the two buffers, or the server refuses, or *)
(* it accepts; the task goes on in any case.                               *)
oc_mqtt_init ==
  /\ GoTo("mqtt", "register")
  /\ client' \in {"broken", "refused", "connected"}
  /\ UNCHANGED <<ocMemory, cmd_rsp_cb, readbuf, pushed, rcvMsg, ocSensor, mainMsg, json,
                 g_app_cb, obeyed, reported>>

oc_set_cmd_rsp_cb ==
  /\ GoTo("register", "poll")
  /\ cmd_rsp_cb' = 1
  /\ UNCHANGED <<ocMemory, client, readbuf, pushed, rcvMsg, ocSensor, mainMsg, json,
                 g_app_cb, obeyed, reported>>

(* osMessageQueueGet with a timeout of 0: the loop polls the queue. *)
Poll ==
  /\ mainPc = "poll" /\ mid_MsgQueue # <<>>
  /\ mainMsg' = Head(mid_MsgQueue)
  /\ mid_MsgQueue' = Tail(mid_MsgQueue)
  /\ mainPc' = IF store[Head(mid_MsgQueue)].type = "cmd" THEN "parse" ELSE "report"
  /\ UNCHANGED <<store, queueMade, forgotten, ocEngine, ocSensor, json, g_app_cb, obeyed,
                 reported>>

(* DealCmdMsg: the text is read now, from the MQTT client's buffer.  With  *)
(* no tree oc_cmdresp is called, which returns without sending: it names   *)
(* no device.                                                              *)
ParseText ==
  /\ mainPc = "parse"
  /\ \/ pushed[readbuf].target # "text" /\ json' = "live"
     \/ json' = "none"
  /\ obeyed' = Append(obeyed, [queued |-> store[mainMsg].n, read |-> readbuf])
  /\ mainPc' = "act"
  /\ UNCHANGED <<ocMemory, ocEngine, ocSensor, mainMsg, g_app_cb, reported>>

Command == pushed[obeyed[Len(obeyed)].read]

Misses ==
  \/ json = "none"
  \/ Command.target = "unnamed"
  \/ Command.target \in {"light", "motor"} /\ Command.value \notin {"ON", "OFF"}

(* A null string is compared: the board stops, or the comparison differs.  *)
CompareNull ==
  /\ mainPc = "act" /\ Misses
  /\ mainPc' = "fault"
  /\ UNCHANGED <<ocMemory, ocEngine, ocSensor, mainMsg, json, g_app_cb, obeyed, reported>>

(* The deletions of DealCmdMsg: one at the end, and one more for each      *)
(* lookup that failed on the way.                                          *)
Deletions ==
  1 + (IF Command.target = "unnamed" THEN 1
       ELSE IF Command.target \notin {"light", "motor"} THEN 0
       ELSE IF Command.value = "no_paras" THEN 2
       ELSE IF Command.value = "no_para" THEN 1 ELSE 0)

ActOnCommand ==
  /\ mainPc = "act"
  /\ json' = IF json = "none" \/ Deletions = 0 THEN json
             ELSE IF Deletions = 1 THEN "deleted" ELSE "corrupt"
  /\ g_app_cb' = IF json = "none" \/ Command.target \notin {"light", "motor"} THEN g_app_cb
                 ELSE IF Command.value = "ON" THEN g_app_cb \cup {Command.target}
                 ELSE g_app_cb \ {Command.target}
  /\ mainPc' = "free"
  /\ UNCHANGED <<ocMemory, ocEngine, ocSensor, mainMsg, obeyed, reported>>

(* ReportMsg, through oc_mqtt_profile_propertyreport: published when there *)
(* is a connection and memory for the topic and the text.                  *)
ReportReading ==
  /\ GoTo("report", "free")
  /\ reported' \in {reported} \cup
       (IF client = "connected"
        THEN {Append(reported, [n |-> store[mainMsg].n, on |-> g_app_cb])}
        ELSE {})
  /\ UNCHANGED <<ocMemory, ocEngine, ocSensor, mainMsg, json, g_app_cb, obeyed>>

FreeMessage ==
  /\ GoTo("free", "poll")
  /\ store' = [store EXCEPT ![mainMsg] = Nil]
  /\ mainMsg' = Nil
  /\ json' = "none"
  /\ UNCHANGED <<mid_MsgQueue, queueMade, forgotten, ocEngine, ocSensor, g_app_cb, obeyed,
                 reported>>

-----------------------------------------------------------------------------
OcSampleNext ==
  /\ BoardRuns
  /\ \/ (\E text \in Texts : Push(text)) \/ MsgRcvPut
     \/ SensorBegin \/ TakeReading \/ PutReading \/ SleepTask
     \/ JoinHotspot \/ DeviceInfo \/ oc_mqtt_init \/ oc_set_cmd_rsp_cb \/ Poll \/ ParseText \/ CompareNull
     \/ ActOnCommand \/ ReportReading \/ FreeMessage

OcSampleSpec == OcSampleInit /\ [][OcSampleNext]_ocSampleVars

-----------------------------------------------------------------------------
OcSampleTypeOK ==
  /\ store \in [Cells -> AppMsgs \cup {Nil}]
  /\ mid_MsgQueue \in Seq(Cells)
  /\ client \in {"none", "broken", "refused", "connected"}
  /\ cmd_rsp_cb \in {0, 1} /\ queueMade \in {0, 1}
  /\ rcvMsg \in Cells \cup {Nil} /\ mainMsg \in Cells \cup {Nil} /\ sensMsg \in Cells \cup {Nil}
  /\ json \in {"none", "live", "deleted", "corrupt"}
  /\ forgotten \subseteq Cells

InQueue == { mid_MsgQueue[i] : i \in DOMAIN mid_MsgQueue }

(* A message the callback cannot put is forgotten, and only such a one:    *)
(* readings are freed when they find no room, and everything else in the   *)
(* heap is in the queue or with one of the threads.                        *)
OnlyCommandsForgotten ==
  /\ \A c \in Cells :
       store[c] # Nil <=> c \in InQueue \cup {rcvMsg, mainMsg, sensMsg} \cup forgotten
  /\ \A c \in forgotten : store[c].type = "cmd" /\ c \notin InQueue \cup {mainMsg, sensMsg}

(* Each command's tree is gone when its message is freed, and was deleted  *)
(* once if the command is one of the product's profile.                    *)
JsonDeletedOnce ==
  mainPc = "free" =>
    /\ json # "live"
    /\ json = "corrupt" => Command.target = "unnamed" \/ Command.value \notin {"ON", "OFF"}

(* The README's "the data of the command is sent to the queue and read     *)
(* from the queue": the command acted upon is the one that was queued.     *)
ObeyedIsQueued == \A i \in DOMAIN obeyed : obeyed[i].read = obeyed[i].queued

(* A round of the cloud task leaves nothing behind: the heap holds what is *)
(* queued or in hand and the commands that found no room, and no tree.     *)
RoundCleansUp == OnlyCommandsForgotten /\ JsonDeletedOnce
=============================================================================
