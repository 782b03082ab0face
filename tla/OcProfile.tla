----------------------------- MODULE OcProfile ------------------------------
(***************************************************************************)
(* The OC profile layer of the Nano board's cloud example,                 *)
(* bearpi_hm_nano/app/D6_iot_cloud_oc/src: a call of oc_mqtt.c makes a     *)
(* topic, oc_mqtt_profile_package.c builds a JSON tree and prints it, the  *)
(* text is published, and all of it is given back.  Every allocation on    *)
(* the way may fail.                                                       *)
(*                                                                         *)
(* A function of the package that builds a tree is a frame: the node it    *)
(* returns and what it still has to attach to it.                          *)
(***************************************************************************)
EXTENDS Integers, Sequences, FiniteSets

CONSTANT Calls      (* the calls a client makes, built with the operators below *)

VARIABLES
  stage,      (* where the call of oc_mqtt.c is                            *)
  call,       (* the call being made, or the last one                      *)
  frames,     (* the package functions entered, the innermost last         *)
  nodes,      (* every cJSON node made: the node it is attached to, or 0   *)
  deleted,    (* the nodes that exist no more                              *)
  misused,    (* 1 once a deleted node was attached, printed or deleted    *)
  failed,     (* the functions an allocation failed in; the node that      *)
              (* make_kvs returns, and the one any other returns, apart    *)
  strings,    (* which of the texts "topic" and "msg" exist                *)
  result      (* what the call returned                                    *)

ocVars == <<stage, call, frames, nodes, deleted, misused, failed, strings, result>>

-----------------------------------------------------------------------------
(* The trees: what each function attaches to the node it makes, in order.  *)

Leaf    == [kind |-> "leaf"]
Devices == [kind |-> "devices"]
Device  == [kind |-> "device"]
Leaves(n) == [i \in 1..n |-> Leaf]

make_kvs(n) == [kind |-> "kvs", todo |-> Leaves(n)]

make_service(kvs, event_time) ==
  [kind |-> "service", todo |-> <<Leaf, make_kvs(kvs)>> \o Leaves(event_time)]

make_services(list) == [kind |-> "services", todo |-> list]

(* What a call asks of a list: a first service whose service_property is   *)
(* not NULL.  The services after it are not looked at, and make_kvs makes  *)
(* an empty object of NULL.                                                *)
HasProperties(list) == list # <<>> /\ list[1].todo[2].todo # <<>>

package_msgup(optional) == Leaves(optional + 1)

package_propertyreport(list) == <<make_services(list)>>

(* Every sub-device is attached to the array before it is filled. *)
package_gwpropertyreport(lists) ==
  <<Devices>> \o
  [i \in 1..(3 * Len(lists)) |->
     CASE i % 3 = 1 -> Device
       [] i % 3 = 2 -> Leaf
       [] i % 3 = 0 -> make_services(lists[i \div 3])]

package_propertysetresp(desc) == Leaves(1 + desc)

package_propertygetresp(list) == <<make_services(list)>>

package_cmdresp(ret_name, paras) ==
  Leaves(1 + ret_name) \o (IF paras = 0 THEN <<>> ELSE <<make_kvs(paras)>>)

-----------------------------------------------------------------------------
(* The calls.  device_id tells whether the caller names the device: the    *)
(* default device of the layer is never set.  Services and sub-devices     *)
(* have a name; oc_propertygetresp reads its list before it looks       *)
(* whether there is one, and is called with one.                           *)

Request(fn, deviceid, complete, todo) ==
  [fn |-> fn, device |-> deviceid, complete |-> complete, todo |-> todo]

oc_msgup(deviceid, msg, optional) ==
  Request("msgup", deviceid, msg, package_msgup(optional))
oc_propertyreport(deviceid, list) ==
  Request("propertyreport", deviceid, HasProperties(list), package_propertyreport(list))
oc_gwpropertyreport(deviceid, lists) ==
  Request("gwpropertyreport", deviceid, lists # <<>> /\ HasProperties(lists[1]),
          package_gwpropertyreport(lists))
oc_propertysetresp(deviceid, request_id, desc) ==
  Request("propertysetresp", deviceid, request_id, package_propertysetresp(desc))
oc_propertygetresp(deviceid, request_id, list) ==
  Request("propertygetresp", deviceid, request_id /\ HasProperties(list),
          package_propertygetresp(list))
oc_cmdresp(deviceid, request_id, ret_name, paras) ==
  Request("cmdresp", deviceid, request_id, package_cmdresp(ret_name, paras))

(* What the functions of the package attach: lists of any length, and an   *)
(* array of sub-devices before its sub-devices.                            *)
PackageFns == {"msgup", "propertyreport", "gwpropertyreport", "propertysetresp",
               "propertygetresp", "cmdresp"}

Kvs      == [kind : {"kvs"}, todo : Seq({Leaf})]
Service  == [kind : {"service"}, todo : Seq({Leaf} \cup Kvs)]
Services == [kind : {"services"}, todo : Seq(Service)]

Todo(fn) ==
  CASE fn = "kvs" -> Seq({Leaf})
    [] fn = "service" -> Seq({Leaf} \cup Kvs)
    [] fn = "services" -> Seq(Service)
    [] fn \in PackageFns -> Seq({Leaf, Devices, Device} \cup Kvs \cup Services)

ArrayFirst(todo) ==
  \A i \in DOMAIN todo : todo[i].kind = "device" => \E j \in 1..(i - 1) : todo[j].kind = "devices"

ASSUME OcAssumption ==
  \A c \in Calls : c.fn \in PackageFns /\ c.todo \in Todo(c.fn) /\ ArrayFirst(c.todo)

-----------------------------------------------------------------------------
OcInit ==
  /\ stage = "idle"
  /\ call = Request("msgup", FALSE, FALSE, <<>>)
  /\ frames = <<>>
  /\ nodes = <<>>
  /\ deleted = {}
  /\ misused = 0
  /\ failed = {}
  /\ strings = {}
  /\ result = "none"

(* The checks of the parameters. *)
BeginCall(c) ==
  /\ stage = "idle"
  /\ call' = c
  /\ nodes' = <<>>
  /\ deleted' = {}
  /\ misused' = 0
  /\ failed' = {}
  /\ IF c.device /\ c.complete
     THEN stage' = "topic" /\ result' = "none"
     ELSE stage' = "idle" /\ result' = "parafmt"
  /\ UNCHANGED <<frames, strings>>

NotMade == -1   (* a function that has not made its node yet; 0 is NULL *)

(* The package function is called whether or not there is a topic. *)
topic_make ==
  /\ stage = "topic"
  /\ \/ strings' = strings \cup {"topic"} /\ failed' = failed
     \/ strings' = strings /\ failed' = failed \cup {"topic_make"}
  /\ stage' = "package"
  /\ frames' = <<[fn |-> call.fn, node |-> NotMade, devices |-> 0, at |-> 0,
                 todo |-> call.todo]>>
  /\ UNCHANGED <<call, nodes, deleted, misused, result>>

-----------------------------------------------------------------------------
(* cJSON: new nodes, attaching and deleting.                               *)

Top == frames[Len(frames)]
Below == SubSeq(frames, 1, Len(frames) - 1)

(* The nodes of the tree under a node: those from which the way up, to     *)
(* nodes that are always older, meets it.                                  *)
Under(root) ==
  LET met[i \in 0..Len(nodes)] == IF i \in {0, root} THEN i ELSE met[nodes[i]]
  IN  { i \in 1..Len(nodes) : met[i] = root }

(* S is used: attached, printed or deleted. *)
Use(S) == misused' = IF S \cap deleted # {} THEN 1 ELSE misused

(* cJSON_Delete(root) *)
DeleteTree(root) ==
  /\ deleted' = deleted \cup Under(root)
  /\ Use(Under(root))
  /\ UNCHANGED nodes

NewNode(parent) == nodes' = Append(nodes, parent)

(* cJSON_AddItemToObject, cJSON_AddItemToArray: the child must exist and   *)
(* so must what it is attached to.                                         *)
Attach(child, parent) ==
  /\ nodes' = [nodes EXCEPT ![child] = parent]
  /\ Use({child, parent})
  /\ UNCHANGED deleted

GiveUpWithoutDelete ==
  /\ UNCHANGED <<nodes, deleted, misused>>
  /\ frames' = Append(Below, [Top EXCEPT !.node = 0, !.todo = <<>>])

(* An allocation fails in the innermost function, after its node was made. *)
(* make_services and the package functions delete their tree and return    *)
(* NULL; the other two delete it and return the deleted node.              *)
GiveUp ==
  /\ DeleteTree(Top.node)
  /\ IF Top.fn \in {"kvs", "service"}
     THEN frames' = Append(Below, [Top EXCEPT !.todo = <<>>])
     ELSE frames' = Append(Below, [Top EXCEPT !.node = 0, !.todo = <<>>])

Fresh == Top.node = NotMade

(* The function makes its own node, or returns NULL. *)
CreateNode ==
  /\ stage = "package" /\ frames # <<>> /\ Fresh
  /\ \/ /\ NewNode(0)
        /\ frames' = Append(Below, [Top EXCEPT !.node = Len(nodes) + 1, !.at = Len(nodes) + 1])
        /\ failed' = failed
     \/ /\ frames' = Append(Below, [Top EXCEPT !.node = 0, !.todo = <<>>])
        /\ failed' = failed \cup {IF Top.fn = "kvs" THEN "kvs_root" ELSE "root"}
        /\ UNCHANGED nodes
  /\ UNCHANGED <<stage, call, deleted, misused, strings, result>>

(* A string, a number, the array of sub-devices or a sub-device, made and  *)
(* attached; profile_fmtvalue has no node for a type it does not know.     *)
CreateItem ==
  /\ stage = "package" /\ frames # <<>> /\ ~Fresh /\ Top.todo # <<>>
  /\ Head(Top.todo).kind \in {"leaf", "devices", "device"}
  /\ \/ LET kind == Head(Top.todo).kind
            new  == Len(nodes) + 1
        IN /\ NewNode(CASE kind = "leaf" -> Top.at
                        [] kind = "devices" -> Top.node
                        [] kind = "device" -> Top.devices)
           /\ frames' = Append(Below,
                [Top EXCEPT !.todo = Tail(@),
                            !.devices = IF kind = "devices" THEN new ELSE @,
                            !.at = IF kind = "device" THEN new ELSE @])
           /\ failed' = failed
           /\ UNCHANGED <<deleted, misused>>
     \/ GiveUp /\ failed' = failed \cup {Top.fn}
  /\ UNCHANGED <<stage, call, strings, result>>

(* make_services, make_service or make_kvs is called. *)
Enter ==
  /\ stage = "package" /\ frames # <<>> /\ ~Fresh /\ Top.todo # <<>>
  /\ Head(Top.todo).kind \in {"services", "service", "kvs"}
  /\ frames' = Append(frames, [fn |-> Head(Top.todo).kind, node |-> NotMade, devices |-> 0,
                               at |-> 0, todo |-> Head(Top.todo).todo])
  /\ UNCHANGED <<stage, call, nodes, deleted, misused, failed, strings, result>>

(* ... and returns: its caller attaches the node, or gives up on NULL. *)
Return ==
  /\ stage = "package" /\ Len(frames) > 1 /\ ~Fresh /\ Top.todo = <<>>
  /\ LET caller == Below[Len(Below)]
         outer  == SubSeq(Below, 1, Len(Below) - 1)
     IN IF Top.node # 0
        THEN /\ Attach(Top.node, caller.at)
             /\ frames' = Append(outer, [caller EXCEPT !.todo = Tail(@)])
        ELSE /\ DeleteTree(caller.node)
             /\ frames' = Append(outer,
                  [caller EXCEPT !.todo = <<>>,
                                 !.node = IF caller.fn \in {"kvs", "service"} THEN @ ELSE 0])
  /\ failed' = IF Top.node = 0 THEN failed \cup {Below[Len(Below)].fn} ELSE failed
  /\ UNCHANGED <<stage, call, strings, result>>

(* cJSON_PrintUnformatted, which may fail too, and the tree is deleted. *)
PrintTree ==
  /\ stage = "package" /\ Len(frames) = 1 /\ ~Fresh /\ Top.todo = <<>>
  /\ frames' = <<>>
  /\ stage' = "publish"
  /\ IF Top.node = 0
     THEN UNCHANGED <<nodes, deleted, misused, strings, failed>>
     ELSE /\ DeleteTree(Top.node)
          /\ \/ strings' = strings \cup {"msg"} /\ failed' = failed
             \/ strings' = strings /\ failed' = failed \cup {"print"}
  /\ UNCHANGED <<call, result>>

-----------------------------------------------------------------------------
(* oc_mqtt_publish, or no memory. *)
Publish ==
  /\ stage = "publish"
  /\ IF strings = {"topic", "msg"}
     THEN result' \in {"ok", "error"}
     ELSE result' = "sysmem"
  /\ stage' = "free"
  /\ UNCHANGED <<call, frames, nodes, deleted, misused, failed, strings>>

(* free(topic); free(msg). *)
FreeTexts ==
  /\ stage = "free"
  /\ strings' = {}
  /\ stage' = "idle"
  /\ UNCHANGED <<call, frames, nodes, deleted, misused, failed, result>>

OcNext ==
  \/ \E c \in Calls : BeginCall(c)
  \/ topic_make \/ CreateNode \/ CreateItem \/ Enter \/ Return \/ PrintTree
  \/ Publish \/ FreeTexts

OcSpec == OcInit /\ [][OcNext]_ocVars

-----------------------------------------------------------------------------
OcTypeOK ==
  /\ stage \in {"idle", "topic", "package", "publish", "free"}
  /\ nodes \in Seq(Nat) /\ deleted \subseteq DOMAIN nodes
  /\ misused \in {0, 1}
  /\ strings \subseteq {"topic", "msg"}
  /\ result \in {"none", "ok", "error", "sysmem", "parafmt"}
  /\ frames # <<>> => stage = "package"

(* Whatever allocation fails, a call of the layer gives back every node    *)
(* and every text it made before it returns.                               *)
AllGivenBack == stage = "idle" => strings = {} /\ deleted = DOMAIN nodes

(* A deleted node is touched again only after make_kvs or make_service     *)
(* failed, whose callers cannot tell the deleted node they are given from  *)
(* a good one; every other failure reaches the caller as NULL.             *)
DeletedNotTouched == misused = 1 => failed \cap {"kvs", "service"} # {}

(* A call that says there is no memory met a failed allocation, and one    *)
(* that published, with whatever the network said, met none, except in     *)
(* make_kvs and make_service: their failures do not reach the caller.      *)
ResultTellsTruth ==
  stage = "idle" =>
    /\ result = "sysmem" => failed # {}
    /\ result \in {"ok", "error"} =>
         failed \subseteq {"kvs", "service", "kvs_root"} /\ call.device /\ call.complete

(* The error paths of a call of the layer (oc_mqtt.c:236-438): nothing     *)
(* leaks wherever an allocation fails; and where it fails anywhere but in  *)
(* make_kvs or make_service, no deleted node is touched and the caller is  *)
(* told that there is no memory.                                           *)
FailedCallCleansUp == AllGivenBack /\ DeletedNotTouched /\ ResultTellsTruth
=============================================================================
