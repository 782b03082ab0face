--------------------------- MODULE CloudAppProofs ---------------------------
(***************************************************************************)
(* Theorems about CloudApp, for every number of heap blocks, every queue   *)
(* capacity, every set of commands and both locking disciplines of the     *)
(* MQTT library: first who owns a block of the heap, then what a cloud     *)
(* application owes the platform, the order of commands and readings, the  *)
(* status that reports carry and the trees of the commands.                *)
(***************************************************************************)
EXTENDS CloudApp, FiniteSetTheorems, TLAPS

-----------------------------------------------------------------------------
(* The inductive invariant.                                                *)

(* What the place a thread has reached says of the block it holds and of   *)
(* the queue's handle.                                                     *)
Places ==
  /\ enginePc = "put" <=> engineMsg # NULL
  /\ engineMsg # NULL => session = 1 /\ heap[engineMsg] \in CommandMsg
  /\ sensorPc = "put" <=> sensorMsg # NULL
  /\ sensorMsg # NULL => heap[sensorMsg] \in ReportMsg
  /\ cloudPc \in {"wifi", "create", "connect", "get"} => cloudMsg = NULL
  /\ cloudPc \in {"parse", "reject", "execute", "respond"}
       => cloudMsg # NULL /\ heap[cloudMsg] \in CommandMsg
  /\ cloudPc = "report" => cloudMsg # NULL /\ heap[cloudMsg] \in ReportMsg
  /\ cloudPc = "free" => cloudMsg # NULL
  /\ handle = "unset" <=> cloudPc \in {"wifi", "create"}
  /\ session = 1 => cloudPc \notin {"wifi", "create"}
  /\ app \in Apps

(* The messages in the queue are allocated blocks, as many as it can hold. *)
QueueOK ==
  /\ \A b \in Queued : heap[b] # NULL
  /\ Len(queue) <= MSGQUEUE_COUNT
  /\ queue # <<>> => handle = "made"

IInv == TypeOK /\ Places /\ QueueOK /\ HeapOwnership

-----------------------------------------------------------------------------
(* Sequences.                                                              *)

(* Appending adds one element and keeps the elements distinct when it is new. *)
LEMMA AppendElements ==
  ASSUME NEW S, NEW q \in Seq(S), NEW x \in S
  PROVE  /\ Append(q, x) \in Seq(S)
         /\ Len(Append(q, x)) = Len(q) + 1
         /\ Elements(Append(q, x)) = Elements(q) \cup {x}
         /\ Distinct(q) /\ x \notin Elements(q) => Distinct(Append(q, x))
<1> DEFINE r == Append(q, x)
<1>1. /\ r \in Seq(S)
      /\ Len(r) = Len(q) + 1
      /\ DOMAIN r = 1..(Len(q) + 1)
      /\ DOMAIN q = 1..Len(q)
      /\ Len(q) \in Nat
      /\ \A i \in 1..Len(q) : r[i] = q[i]
      /\ r[Len(q) + 1] = x
  OBVIOUS
<1> HIDE DEF r
<1>2. Elements(r) = Elements(q) \cup {x}
  <2>1. ASSUME NEW e \in Elements(r) PROVE e \in Elements(q) \cup {x}
    BY <1>1, <2>1 DEF Elements
  <2>2. ASSUME NEW e \in Elements(q) PROVE e \in Elements(r)
    BY <1>1, <2>2 DEF Elements
  <2>3. x \in Elements(r)
    BY <1>1 DEF Elements
  <2> QED BY <2>1, <2>2, <2>3
<1>3. ASSUME Distinct(q), x \notin Elements(q) PROVE Distinct(r)
  BY <1>1, <1>3 DEF Distinct, Elements
<1> QED BY <1>1, <1>2, <1>3 DEF r

(* Taking the head removes one element, once. *)
LEMMA TailElements ==
  ASSUME NEW S, NEW q \in Seq(S), q # <<>>, Distinct(q)
  PROVE  /\ Head(q) \in Elements(q)
         /\ Head(q) \in S
         /\ Tail(q) \in Seq(S)
         /\ Len(Tail(q)) = Len(q) - 1
         /\ Elements(Tail(q)) = Elements(q) \ {Head(q)}
         /\ Distinct(Tail(q))
<1> DEFINE r == Tail(q)
<1>1. /\ r \in Seq(S)
      /\ Len(q) \in Nat \ {0}
      /\ Len(r) = Len(q) - 1
      /\ DOMAIN r = 1..(Len(q) - 1)
      /\ DOMAIN q = 1..Len(q)
      /\ \A i \in 1..(Len(q) - 1) : r[i] = q[i + 1]
      /\ Head(q) = q[1]
      /\ q[1] \in S
  OBVIOUS
<1> HIDE DEF r
<1>2. Elements(r) = Elements(q) \ {Head(q)}
  <2>1. ASSUME NEW e \in Elements(r) PROVE e \in Elements(q) \ {Head(q)}
    <3>1. PICK i \in 1..(Len(q) - 1) : e = q[i + 1]
      BY <1>1, <2>1 DEF Elements
    <3>2. i + 1 \in 1..Len(q) /\ 1 \in 1..Len(q) /\ i + 1 # 1
      BY <1>1, <3>1
    <3> QED BY <1>1, <3>1, <3>2 DEF Elements, Distinct
  <2>2. ASSUME NEW e \in Elements(q) \ {Head(q)} PROVE e \in Elements(r)
    <3>1. PICK i \in 1..Len(q) : e = q[i]
      BY <1>1, <2>2 DEF Elements
    <3>2. i - 1 \in 1..(Len(q) - 1) /\ i = (i - 1) + 1
      BY <1>1, <2>2, <3>1
    <3> QED BY <1>1, <3>1, <3>2 DEF Elements
  <2> QED BY <2>1, <2>2
<1>3. Distinct(r)
  <2> SUFFICES ASSUME NEW i \in 1..(Len(q) - 1), NEW j \in 1..(Len(q) - 1), i # j
               PROVE  q[i + 1] # q[j + 1]
    BY <1>1 DEF Distinct
  <2>1. i + 1 \in DOMAIN q /\ j + 1 \in DOMAIN q /\ i + 1 # j + 1
    BY <1>1
  <2> QED BY <2>1 DEF Distinct
<1>4. Head(q) \in Elements(q)
  BY <1>1 DEF Elements
<1> QED BY <1>1, <1>2, <1>3, <1>4 DEF r
-----------------------------------------------------------------------------
(* Invariance.                                                             *)

(* The inductive invariant holds when the board starts: the heap is free. *)
LEMMA InitInv == Init => IInv
<1> USE CloudAssumption, NullAssumption
<1> SUFFICES ASSUME Init PROVE IInv
  OBVIOUS
<1>1. TypeOK
  BY DEF Init, TypeOK, CloudPcs, AllApps
<1>2. Places
  BY DEF Init, Places
<1>3. QueueOK
  BY DEF Init, QueueOK, Queued, Elements
<1>4. HeapOwnership
  BY DEF Init, HeapOwnership, Queued, Elements, Distinct
<1> QED BY <1>1, <1>2, <1>3, <1>4 DEF IInv

(* Steps that touch neither the heap, nor the queue, nor a thread's block. *)
LEMMA HeapFrame ==
  ASSUME QueueOK, HeapOwnership, UNCHANGED <<app, lost, heapVars, engineMsg, sensorMsg, cloudMsg>>
  PROVE  QueueOK' /\ HeapOwnership'
BY DEF QueueOK, HeapOwnership, heapVars, Queued, Elements, Distinct

(* A Put that succeeds: the block passes from a thread to the queue. *)
LEMMA PutKeepsElements ==
  ASSUME TypeOK, QueueOK, HeapOwnership, NEW b \in Blocks, heap[b] # NULL, b \notin Queued,
         PutSucceeds(b)
  PROVE  /\ queue' \in Seq(Blocks)
         /\ QueueOK'
         /\ Queued' = Queued \cup {b}
         /\ Distinct(queue')
<1>1. /\ Append(queue, b) \in Seq(Blocks)
      /\ Len(Append(queue, b)) = Len(queue) + 1
      /\ Elements(Append(queue, b)) = Elements(queue) \cup {b}
      /\ Distinct(Append(queue, b))
  BY AppendElements DEF TypeOK, HeapOwnership, Queued
<1>2. queue' = Append(queue, b) /\ heap' = heap /\ handle' = handle /\ handle = "made"
      /\ Len(queue) < MSGQUEUE_COUNT
  BY DEF PutSucceeds, HasRoom
<1>3. Queued' = Queued \cup {b}
  BY <1>1, <1>2 DEF Queued
<1>4. Len(queue') <= MSGQUEUE_COUNT
  <2>1. Len(queue) \in Nat
    BY DEF TypeOK
  <2> QED BY <1>1, <1>2, <2>1, CloudAssumption
<1> QED BY <1>1, <1>2, <1>3, <1>4 DEF QueueOK

(* malloc and the stores into the block: a block nobody held. *)
LEMMA StoreFresh ==
  ASSUME TypeOK, QueueOK, HeapOwnership, NEW b \in Blocks,
         NEW msg \in CommandMsg \cup ReportMsg, Store(b, msg), UNCHANGED <<queue, handle>>
  PROVE  /\ b \notin Queued \cup {engineMsg, sensorMsg, cloudMsg} \cup lost
         /\ heap' = [heap EXCEPT ![b] = msg]
         /\ msg # NULL
         /\ Queued' = Queued
         /\ QueueOK'
<1>1. b \notin Queued \cup {engineMsg, sensorMsg, cloudMsg} \cup lost /\ heap' = [heap EXCEPT ![b] = msg]
  BY DEF Store, HeapOwnership
<1>2. Queued' = Queued
  BY DEF Queued
<1>3. msg # NULL
  BY NullAssumption
<1>4. QueueOK'
  BY <1>1, <1>2, <1>3 DEF TypeOK, QueueOK
<1> QED BY <1>1, <1>2, <1>3, <1>4

(* Every step of the callback and of the two tasks keeps the inductive     *)
(* invariant: one step of the proof per action.                            *)
LEMMA NextInv == IInv /\ [Next]_vars => IInv'
<1> SUFFICES ASSUME IInv, [Next]_vars PROVE IInv'
  OBVIOUS
<1> USE CloudAssumption, NullAssumption DEF IInv, heapVars, cloudVars, sensorVars, engineVars
<1>0. CASE UNCHANGED vars
  <2>1. TypeOK' /\ Places'
    BY <1>0 DEF vars, TypeOK, Places
  <2> QED BY <1>0, <2>1, HeapFrame DEF vars
<1>a. SUFFICES ASSUME Next, UNCHANGED app PROVE IInv'
  BY <1>0 DEF Next
<1> USE <1>a
<1>1. CASE Subscribe
  <2>1. TypeOK'
    BY <1>1 DEF Subscribe, TypeOK, CloudPcs
  <2>2. Places'
    BY <1>1 DEF Subscribe, TypeOK, Places
  <2> QED BY <1>1, <2>1, <2>2, HeapFrame DEF Subscribe
<1>2. CASE CallbackPut
  <2>1. engineMsg \in Blocks /\ heap[engineMsg] # NULL /\ engineMsg \notin Queued
        /\ engineMsg # cloudMsg /\ engineMsg # sensorMsg
    BY <1>2 DEF CallbackPut, TypeOK, Places, HeapOwnership
  <2>2. CASE PutSucceeds(engineMsg)
    <3>1. QueueOK' /\ Queued' = Queued \cup {engineMsg} /\ Distinct(queue') /\ queue' \in Seq(Blocks)
      BY <2>1, <2>2, PutKeepsElements
    <3>2. TypeOK'
      BY <1>2, <2>2, <3>1 DEF CallbackPut, PutSucceeds, TypeOK
    <3>3. Places'
      BY <1>2, <2>2 DEF CallbackPut, PutSucceeds, HasRoom, TypeOK, Places
    <3>4. HeapOwnership'
      BY <1>2, <2>1, <2>2, <3>1 DEF CallbackPut, PutSucceeds, TypeOK, HeapOwnership
    <3> QED BY <3>1, <3>2, <3>3, <3>4
  <2>3. CASE PutFails(engineMsg)
    <3>1. Queued' = Queued /\ Distinct(queue') /\ queue' = queue /\ handle' = handle
      BY <2>3 DEF PutFails, Queued, HeapOwnership
    <3>2. heap' = [heap EXCEPT ![engineMsg] = NULL]
      BY <2>3 DEF PutFails, Free
    <3>3. TypeOK'
      BY <1>2, <3>1, <3>2 DEF CallbackPut, TypeOK
    <3>4. Places'
      BY <1>2, <2>1, <3>1, <3>2 DEF CallbackPut, TypeOK, Places
    <3>5. QueueOK'
      BY <2>1, <3>1, <3>2 DEF TypeOK, QueueOK
    <3>6. HeapOwnership'
      BY <1>2, <2>1, <3>1, <3>2 DEF CallbackPut, TypeOK, HeapOwnership
    <3> QED BY <3>3, <3>4, <3>5, <3>6
  <2> QED BY <1>2, <2>2, <2>3 DEF CallbackPut
<1>3. CASE SensorInit
  <2>1. TypeOK'
    BY <1>3 DEF SensorInit, TypeOK, CloudPcs
  <2>2. Places'
    BY <1>3 DEF SensorInit, TypeOK, Places
  <2> QED BY <1>3, <2>1, <2>2, HeapFrame DEF SensorInit
<1>4. CASE SensorRead
  <2>1. CASE UNCHANGED <<heap, sensorMsg>> /\ sensorPc' \in {"ended", "sleep"}
    <3>1. TypeOK'
      BY <1>4, <2>1 DEF SensorRead, DropReading, TypeOK
    <3>2. Places'
      BY <1>4, <2>1 DEF SensorRead, DropReading, TypeOK, Places
    <3> QED BY <1>4, <2>1, <3>1, <3>2, HeapFrame DEF SensorRead, DropReading
  <2>2. ASSUME NEW b \in Blocks, samples < MaxSamples, samples' = samples + 1,
               Store(b, [type |-> "report", n |-> samples + 1]), sensorMsg' = b,
               sensorPc' = "put"
        PROVE  IInv'
    <3> DEFINE msg == [type |-> "report", n |-> samples + 1]
    <3>1. msg \in ReportMsg
      BY <2>2 DEF TypeOK, ReportMsg
    <3> HIDE DEF msg
    <3>2. /\ b \notin Queued \cup {engineMsg, sensorMsg, cloudMsg} \cup lost
          /\ heap' = [heap EXCEPT ![b] = msg]
          /\ msg # NULL /\ Queued' = Queued /\ QueueOK'
      BY <1>4, <2>2, <3>1, StoreFresh DEF SensorRead, DropReading, msg
    <3>3. TypeOK'
      BY <1>4, <2>2, <3>1, <3>2 DEF SensorRead, DropReading, TypeOK
    <3>4. Places'
      BY <1>4, <2>2, <3>1, <3>2 DEF SensorRead, DropReading, TypeOK, Places
    <3>5. HeapOwnership'
      BY <1>4, <2>2, <3>2 DEF SensorRead, DropReading, TypeOK, Places, HeapOwnership
    <3> QED BY <3>2, <3>3, <3>4, <3>5
  <2> QED BY <1>4, <2>1, <2>2 DEF SensorRead, DropReading
<1>5. CASE SensorPut
  <2>1. sensorMsg \in Blocks /\ heap[sensorMsg] # NULL /\ sensorMsg \notin Queued
        /\ sensorMsg # cloudMsg /\ sensorMsg # engineMsg
    BY <1>5 DEF SensorPut, TypeOK, Places, HeapOwnership
  <2>2. CASE PutSucceeds(sensorMsg)
    <3>1. QueueOK' /\ Queued' = Queued \cup {sensorMsg} /\ Distinct(queue') /\ queue' \in Seq(Blocks)
      BY <2>1, <2>2, PutKeepsElements
    <3>2. TypeOK'
      BY <1>5, <2>2, <3>1 DEF SensorPut, PutSucceeds, TypeOK
    <3>3. Places'
      BY <1>5, <2>2 DEF SensorPut, PutSucceeds, HasRoom, TypeOK, Places
    <3>4. HeapOwnership'
      BY <1>5, <2>1, <2>2, <3>1 DEF SensorPut, PutSucceeds, TypeOK, HeapOwnership
    <3> QED BY <3>1, <3>2, <3>3, <3>4
  <2>3. CASE PutFails(sensorMsg)
    <3>1. Queued' = Queued /\ Distinct(queue') /\ queue' = queue /\ handle' = handle
      BY <2>3 DEF PutFails, Queued, HeapOwnership
    <3>2. heap' = [heap EXCEPT ![sensorMsg] = NULL]
      BY <2>3 DEF PutFails, Free
    <3>3. TypeOK'
      BY <1>5, <3>1, <3>2 DEF SensorPut, TypeOK
    <3>4. Places'
      BY <1>5, <2>1, <3>1, <3>2 DEF SensorPut, TypeOK, Places
    <3>5. QueueOK'
      BY <2>1, <3>1, <3>2 DEF TypeOK, QueueOK
    <3>6. HeapOwnership'
      BY <1>5, <2>1, <3>1, <3>2 DEF SensorPut, TypeOK, HeapOwnership
    <3> QED BY <3>3, <3>4, <3>5, <3>6
  <2> QED BY <1>5, <2>2, <2>3 DEF SensorPut
<1>6. CASE SensorSleep
  <2>1. TypeOK'
    BY <1>6 DEF SensorSleep, TypeOK, CloudPcs
  <2>2. Places'
    BY <1>6 DEF SensorSleep, TypeOK, Places
  <2> QED BY <1>6, <2>1, <2>2, HeapFrame DEF SensorSleep
<1>7. CASE WifiUp
  <2>1. TypeOK'
    BY <1>7 DEF WifiUp, TypeOK, CloudPcs
  <2>2. Places'
    BY <1>7 DEF WifiUp, TypeOK, Places
  <2> QED BY <1>7, <2>1, <2>2, HeapFrame DEF WifiUp
<1>8. CASE CreateQueue
  <2>1. TypeOK' /\ Places'
    BY <1>8 DEF CreateQueue, TypeOK, CloudPcs, Places
  <2>2. queue = <<>>
    BY <1>8 DEF CreateQueue, Places, QueueOK
  <2>3. QueueOK' /\ HeapOwnership'
    BY <1>8, <2>2 DEF CreateQueue, QueueOK, HeapOwnership, Queued, Elements, Distinct
  <2> QED BY <2>1, <2>3
<1>9. CASE Connect
  <2>1. TypeOK'
    BY <1>9 DEF Connect, TypeOK, CloudPcs
  <2>2. Places'
    BY <1>9 DEF Connect, TypeOK, Places
  <2> QED BY <1>9, <2>1, <2>2, HeapFrame DEF Connect
<1>10. CASE Get
  <2> DEFINE b == Head(queue)
  <2>1. /\ b \in Queued
        /\ b \in Blocks
        /\ queue' \in Seq(Blocks)
        /\ Len(queue') = Len(queue) - 1
        /\ Queued' = Queued \ {b}
        /\ Distinct(queue')
    BY <1>10, TailElements DEF Get, TypeOK, HeapOwnership, Queued
  <2>2. heap[b] # NULL /\ heap[b] \in CommandMsg \cup ReportMsg
    BY <2>1 DEF TypeOK, QueueOK
  <2>3. cloudMsg' = b /\ cloudMsg = NULL /\ heap' = heap /\ handle' = handle
        /\ engineMsg' = engineMsg /\ sensorMsg' = sensorMsg /\ lost' = lost
    BY <1>10 DEF Get, Places
  <2> HIDE DEF b
  <2>4. TypeOK'
    BY <1>10, <2>1, <2>3 DEF Get, TypeOK, CloudPcs
  <2>5. Places'
    <3>1. heap[b].type = "cmd" <=> heap[b] \in CommandMsg
      BY <2>2 DEF CommandMsg, ReportMsg
    <3>2. cloudPc' = IF heap[b].type = "cmd" THEN "parse" ELSE "report"
      BY <1>10 DEF Get, b
    <3> QED BY <1>10, <2>1, <2>2, <2>3, <3>1, <3>2 DEF Get, TypeOK, Places
  <2>6. QueueOK'
    BY <1>10, <2>1, <2>3 DEF Get, TypeOK, QueueOK
  <2>7. HeapOwnership'
    BY <2>1, <2>2, <2>3 DEF TypeOK, HeapOwnership
  <2> QED BY <2>4, <2>5, <2>6, <2>7
<1>11. CASE ParseCommand
  <2>1. TypeOK'
    BY <1>11 DEF ParseCommand, TypeOK, CloudPcs
  <2>2. Places'
    BY <1>11 DEF ParseCommand, TypeOK, Places
  <2> QED BY <1>11, <2>1, <2>2, HeapFrame DEF ParseCommand
<1>12. CASE RejectCommand
  <2>1. TypeOK'
    BY <1>12 DEF RejectCommand, TypeOK, CloudPcs, Respond, Kind, Answer, CommandMsg, Places
  <2>2. Places'
    BY <1>12 DEF RejectCommand, TypeOK, Places
  <2> QED BY <1>12, <2>1, <2>2, HeapFrame DEF RejectCommand
<1>13. CASE Fault
  <2>1. TypeOK'
    BY <1>13 DEF Fault, TypeOK, CloudPcs
  <2>2. Places'
    BY <1>13 DEF Fault, TypeOK, Places
  <2> QED BY <1>13, <2>1, <2>2, HeapFrame DEF Fault
<1>14. CASE ExecuteCommand
  <2>1. TypeOK'
    BY <1>14 DEF ExecuteCommand, Switch, IsKnown, TypeOK, CloudPcs, TreeAfterLookup, Delete, Kind
  <2>2. Places'
    BY <1>14 DEF ExecuteCommand, IsKnown, TypeOK, Places
  <2> QED BY <1>14, <2>1, <2>2, HeapFrame DEF ExecuteCommand
<1>15. CASE RespondToCommand
  <2>1. TypeOK'
    BY <1>15 DEF RespondToCommand, TypeOK, CloudPcs, Respond, Kind, Answer, CommandMsg, Places,
       Delete
  <2>2. Places'
    BY <1>15 DEF RespondToCommand, TypeOK, Places
  <2> QED BY <1>15, <2>1, <2>2, HeapFrame DEF RespondToCommand
<1>16. CASE Report
  <2>1. TypeOK'
    <3>1. [n |-> heap[cloudMsg].n, on |-> on, after |-> Len(answers)] \in ReportSent
      <4>1. Len(answers) \in Nat
        BY DEF TypeOK
      <4>2. heap[cloudMsg].n \in 1..MaxSamples
        BY <1>16 DEF Report, Places, ReportMsg
      <4> QED BY <4>1, <4>2 DEF TypeOK, ReportSent
    <3>2. reports' \in Seq(ReportSent)
      <4> DEFINE sent == [n |-> heap[cloudMsg].n, on |-> on, after |-> Len(answers)]
      <4>1. reports' = Append(reports, sent) \/ reports' = reports
        BY <1>16 DEF Report
      <4>2. sent \in ReportSent
        BY <3>1
      <4> HIDE DEF sent
      <4>3. reports \in Seq(ReportSent)
        BY DEF TypeOK
      <4> QED BY <4>1, <4>2, <4>3
    <3> QED BY <1>16, <3>2 DEF Report, TypeOK, CloudPcs
  <2>2. Places'
    BY <1>16 DEF Report, TypeOK, Places
  <2> QED BY <1>16, <2>1, <2>2, HeapFrame DEF Report
<1>17. CASE Release
  <2>1. cloudMsg \in Blocks /\ cloudMsg \notin Queued \cup {engineMsg, sensorMsg}
    BY <1>17 DEF Release, TypeOK, Places, HeapOwnership
  <2>2. Queued' = Queued /\ Distinct(queue') /\ queue' = queue /\ handle' = handle
        /\ engineMsg' = engineMsg /\ sensorMsg' = sensorMsg /\ cloudMsg' = NULL
        /\ lost' = lost /\ cloudMsg \notin lost
    BY <1>17 DEF Release, Queued, HeapOwnership
  <2>3. heap' = [heap EXCEPT ![cloudMsg] = NULL]
    BY <1>17 DEF Release, Free
  <2>4. TypeOK'
    <3>1. leaked' \in Nat
      BY <1>17 DEF Release, TypeOK
    <3>2. heap' \in [Blocks -> CommandMsg \cup ReportMsg \cup {NULL}]
      BY <2>1, <2>3 DEF TypeOK
    <3> QED BY <1>17, <2>2, <3>1, <3>2 DEF Release, TypeOK, CloudPcs
  <2>5. Places'
    BY <1>17, <2>1, <2>2, <2>3 DEF Release, TypeOK, Places
  <2>6. QueueOK'
    BY <2>1, <2>2, <2>3 DEF TypeOK, QueueOK
  <2>7. HeapOwnership'
    BY <2>1, <2>2, <2>3 DEF TypeOK, HeapOwnership
  <2> QED BY <2>4, <2>5, <2>6, <2>7
<1>18. ASSUME NEW kind \in Commands, Receive(kind) PROVE IInv'
  <2>1. CASE UNCHANGED <<heap, enginePc, engineMsg>>
    <3>1. TypeOK'
      BY <1>18, <2>1 DEF Receive, TypeOK
    <3>2. Places'
      BY <1>18, <2>1 DEF Receive, TypeOK, Places
    <3> QED BY <1>18, <2>1, <3>1, <3>2, HeapFrame DEF Receive
  <2>2. ASSUME NEW b \in Blocks,
               Store(b, [type |-> "cmd", n |-> delivered + 1, kind |-> kind]),
               engineMsg' = b, enginePc' = "put"
        PROVE  IInv'
    <3> DEFINE msg == [type |-> "cmd", n |-> delivered + 1, kind |-> kind]
    <3>1. msg \in CommandMsg
      BY <1>18 DEF Receive, TypeOK, CommandMsg
    <3> HIDE DEF msg
    <3>2. /\ b \notin Queued \cup {engineMsg, sensorMsg, cloudMsg} \cup lost
          /\ heap' = [heap EXCEPT ![b] = msg]
          /\ msg # NULL /\ Queued' = Queued /\ QueueOK'
      BY <1>18, <2>2, <3>1, StoreFresh DEF Receive, msg
    <3>3. TypeOK'
      BY <1>18, <2>2, <3>1, <3>2 DEF Receive, TypeOK
    <3>4. Places'
      BY <1>18, <2>2, <3>1, <3>2 DEF Receive, TypeOK, Places
    <3>5. HeapOwnership'
      BY <1>18, <2>2, <3>2 DEF Receive, TypeOK, Places, HeapOwnership
    <3> QED BY <3>2, <3>3, <3>4, <3>5
  <2> QED BY <1>18, <2>1, <2>2 DEF Receive
<1>19. CASE SensorStart
  <2>1. TypeOK'
    BY <1>19 DEF SensorStart, TypeOK, CloudPcs
  <2>2. Places'
    BY <1>19 DEF SensorStart, TypeOK, Places
  <2> QED BY <1>19, <2>1, <2>2, HeapFrame DEF SensorStart
<1>20. CASE GpsRead /\ app = "gps"
  <2>1. CASE UNCHANGED <<heap, sensorMsg, lost>> /\ sensorPc' = "sleep"
    <3>1. TypeOK'
      BY <1>20, <2>1 DEF GpsRead, TypeOK
    <3>2. Places'
      BY <1>20, <2>1 DEF GpsRead, TypeOK, Places
    <3> QED BY <1>20, <2>1, <3>1, <3>2, HeapFrame DEF GpsRead
  <2>2. ASSUME NEW b \in Blocks, samples < MaxSamples, samples' = samples + 1,
               Store(b, [type |-> "report", n |-> samples + 1]),
               \/ sensorMsg' = b /\ sensorPc' = "put" /\ lost' = lost
               \/ lost' = lost \cup {b} /\ sensorPc' = "sleep" /\ sensorMsg' = sensorMsg
        PROVE  IInv'
    <3> DEFINE msg == [type |-> "report", n |-> samples + 1]
    <3>1. msg \in ReportMsg
      BY <2>2 DEF TypeOK, ReportMsg
    <3> HIDE DEF msg
    <3>2. /\ b \notin Queued \cup {engineMsg, sensorMsg, cloudMsg} \cup lost
          /\ heap' = [heap EXCEPT ![b] = msg]
          /\ msg # NULL /\ Queued' = Queued /\ QueueOK'
      BY <1>20, <2>2, <3>1, StoreFresh DEF GpsRead, msg
    <3>3. TypeOK'
      BY <1>20, <2>2, <3>1, <3>2 DEF GpsRead, TypeOK
    <3>4. Places'
      BY <1>20, <2>2, <3>1, <3>2 DEF GpsRead, TypeOK, Places
    <3>5. HeapOwnership'
      <4>1. sensorMsg = NULL
        BY <1>20 DEF GpsRead, Places
      <4> QED BY <1>20, <2>2, <3>2, <4>1 DEF GpsRead, TypeOK, HeapOwnership
    <3> QED BY <3>2, <3>3, <3>4, <3>5
  <2> QED BY <1>20, <2>1, <2>2 DEF GpsRead, DropReading
<1>21. CASE RespondToControl
  <2>1. TypeOK'
    BY <1>21 DEF RespondToControl, TypeOK, CloudPcs, Respond, Kind, Answer, CommandMsg, Places
  <2>2. Places'
    BY <1>21 DEF RespondToControl, TypeOK, Places
  <2> QED BY <1>21, <2>1, <2>2, HeapFrame DEF RespondToControl
<1>22. Callback => Engine
  BY DEF Callback, SmokeCallback, LightCallback, GpsCallback
<1>23. SensorTask => Sensor \/ SensorStart \/ (GpsRead /\ app = "gps")
  BY DEF SensorTask, Sensor, SmokeSensor, LightSensor, GpsSensor
<1>24. CloudTask => Cloud \/ RespondToControl
  BY DEF CloudTask, Cloud, HandleCommand, SmokeCloud, SmokeCommand, SmokeReport, SmokeWifiConnect,
         LightCloud, LightCommand, LightReport, LightWifiConnect, GpsCloud, GpsCommand,
         GpsReport, GpsWifiConnect
<1> QED
  <2>1. CASE Engine
    BY <1>1, <1>2, <1>18, <2>1 DEF Engine
  <2>2. CASE Sensor \/ SensorStart \/ (GpsRead /\ app = "gps")
    BY <1>3, <1>4, <1>5, <1>6, <1>19, <1>20, <2>2 DEF Sensor
  <2>3. CASE Cloud \/ RespondToControl
    BY <1>7, <1>8, <1>9, <1>10, <1>11, <1>12, <1>13, <1>14, <1>15, <1>16, <1>17, <1>21, <2>3
    DEF Cloud, HandleCommand
  <2> QED BY <1>22, <1>23, <1>24, <2>1, <2>2, <2>3 DEF Next
-----------------------------------------------------------------------------
(* The theorems.                                                           *)

(* The inductive invariant holds in every reachable state. *)
LEMMA Invariance == Spec => []IInv
<1>1. Init => IInv
  BY InitInv
<1>2. IInv /\ [Next]_vars => IInv'
  BY NextInv
<1> QED BY <1>1, <1>2, PTL DEF Spec

(* The variables keep their types. *)
THEOREM CloudTypeCorrect == Spec => []TypeOK
<1>1. IInv => TypeOK
  BY DEF IInv
<1> QED BY <1>1, Invariance, PTL

(* No app_msg_t is leaked, freed twice or reachable from two places,       *)
(* whatever the interleaving of the callback, the sensor task and the      *)
(* cloud task, the capacity of the queue and the failures of malloc,       *)
(* osMessageQueueNew and osMessageQueuePut.                                *)
THEOREM CloudHeapOwnership == Spec => []HeapOwnership
<1>1. IInv => HeapOwnership
  BY DEF IInv
<1> QED BY <1>1, Invariance, PTL

-----------------------------------------------------------------------------
(* The order of messages.                                                  *)

(* The number of the newest message of the type that block b holds. *)
Newest(b) == IF heap[b].type = "cmd" THEN delivered ELSE samples

InOrder ==
  \A j, k \in DOMAIN queue :
    j < k /\ heap[queue[j]].type = heap[queue[k]].type => heap[queue[j]].n < heap[queue[k]].n

(* What a thread is about to put is newer than all of its type. *)
NewestLast ==
  /\ \A b \in Queued : heap[b].n <= Newest(b)
  /\ \A m \in {engineMsg, sensorMsg} \ {NULL} :
       /\ heap[m].n = Newest(m)
       /\ \A b \in Queued : heap[b].type = heap[m].type => heap[b].n < heap[m].n

(* Blocks with a message that was not taken yet. *)
Pending == Queued \cup ({engineMsg, sensorMsg} \ {NULL})

(* What the cloud task holds is older than all that waits. *)
OldestFirst ==
  cloudMsg # NULL =>
    /\ heap[cloudMsg].n <= Newest(cloudMsg)
    /\ \A b \in Pending : heap[b].type = heap[cloudMsg].type => heap[cloudMsg].n < heap[b].n

(* The command being handled was not answered yet. *)
Unanswered == cloudPc \in {"parse", "reject", "respond"} \/ (cloudPc = "execute" /\ tree # "none")

(* Only older commands were answered, and only older readings reported. *)
AnswersOlder ==
  \A k \in DOMAIN answers :
    /\ answers[k].n <= delivered
    /\ \A b \in Pending : heap[b].type = "cmd" => answers[k].n < heap[b].n
    /\ cloudMsg # NULL /\ heap[cloudMsg].type = "cmd" => answers[k].n <= heap[cloudMsg].n
    /\ Unanswered => answers[k].n < heap[cloudMsg].n

ReportsOlder ==
  \A k \in DOMAIN reports :
    /\ reports[k].n <= samples
    /\ \A b \in Pending : heap[b].type = "report" => reports[k].n < heap[b].n
    /\ cloudPc = "report" => reports[k].n < heap[cloudMsg].n

RejectedHasNoTree == cloudPc = "reject" => tree = "none"

OrderInv ==
  InOrder /\ NewestLast /\ OldestFirst /\ AnswersOlder /\ ReportsOlder /\ RejectedHasNoTree

-----------------------------------------------------------------------------
(* The status.                                                             *)

(* The actuators are as the answers say; while the success of a command is *)
(* not told yet, but for what that command did.                            *)
StatusInv ==
  /\ cloudPc # "respond" => on = { a \in Actuators : OnAfter(Len(answers), a) }
  /\ cloudPc = "respond" =>
       on = { a \in Actuators : IF a = Kind.target THEN Kind.value = "ON" ELSE OnAfter(Len(answers), a) }
  /\ \A k \in DOMAIN reports : reports[k].after <= Len(answers)

ReportsInv == StatusInv /\ ReportsTrue

-----------------------------------------------------------------------------
(* The trees.                                                              *)

TreeInv ==
  Commands \subseteq Profile =>
    /\ \A b \in Blocks : heap[b] # NULL /\ heap[b].type = "cmd" => heap[b].kind \in Profile
    /\ tree # "none" => cloudPc \in {"execute", "respond", "free", "fault"}
    /\ cloudPc \in {"execute", "fault"} => tree \in {"none", "live"}
    /\ cloudPc = "respond" => tree = "live"
    /\ cloudPc = "free" => tree \in (IF app = "agriculture" THEN {"none", "deleted"} ELSE {"none", "live"})
    /\ TreesReleased

-----------------------------------------------------------------------------
(* The answers.                                                            *)

(* What deal_cmd_msg has found out of the command at each place, and that  *)
(* it has answered a command it can answer when it returns.                *)
AnsweredInv ==
  /\ cloudPc = "execute" => IF tree = "none" THEN IsAnswered(heap[cloudMsg].n) ELSE Kind.target # "text"
  /\ cloudPc = "respond" => Kind.target \in Actuators
  /\ cloudPc = "free" /\ heap[cloudMsg].type = "cmd" =>
       IsAnswered(heap[cloudMsg].n) \/ Kind.target \in {"unnamed", "other"}

SInv == OrderInv /\ ReportsInv /\ TreeInv /\ AnsweredInv

-----------------------------------------------------------------------------
(* The steps.                                                              *)

(* A step is one of these, whatever application is on the board. *)
LEMMA Steps ==
  ASSUME Next
  PROVE  /\ UNCHANGED app
         /\ \/ Subscribe \/ CallbackPut \/ (\E kind \in Commands : Receive(kind))
            \/ SensorInit \/ SensorStart \/ SensorRead \/ GpsRead \/ SensorPut \/ SensorSleep
            \/ WifiUp \/ CreateQueue \/ Connect \/ Get \/ ParseCommand \/ RejectCommand \/ Fault
            \/ ExecuteCommand \/ Report \/ Release
            \/ (RespondToCommand /\ app = "agriculture") \/ (RespondToControl /\ app # "agriculture")
<1>1. Callback => Engine
  BY DEF Callback, SmokeCallback, LightCallback, GpsCallback
<1>2. SensorTask => Sensor \/ SensorStart \/ GpsRead
  BY DEF SensorTask, Sensor, SmokeSensor, LightSensor, GpsSensor
<1>3. CloudTask => \/ Cloud /\ app = "agriculture"
                   \/ SmokeCloud /\ app # "agriculture"
  BY DEF CloudTask, SmokeCloud, SmokeCommand, SmokeReport, SmokeWifiConnect,
         LightCloud, LightCommand, LightReport, LightWifiConnect, GpsCloud, GpsCommand,
         GpsReport, GpsWifiConnect
<1> QED BY <1>1, <1>2, <1>3
        DEF Next, Engine, Sensor, Cloud, HandleCommand, SmokeCloud, SmokeCommand, SmokeReport,
            SmokeWifiConnect

(* The messages that are alive, and their numbers. *)
LEMMA Numbers ==
  ASSUME IInv
  PROVE  /\ Pending \subseteq Blocks /\ Queued \subseteq Pending
         /\ cloudMsg # NULL => cloudMsg \in Blocks \ Pending
         /\ \A b \in Pending \cup ({cloudMsg} \ {NULL}) :
              heap[b] # NULL /\ heap[b].type \in {"cmd", "report"} /\ heap[b].n \in Nat
         /\ engineMsg # NULL => heap[engineMsg].type = "cmd"
         /\ sensorMsg # NULL => heap[sensorMsg].type = "report"
         /\ delivered \in Nat /\ samples \in Nat
         /\ \A k \in DOMAIN answers : answers[k].n \in Nat
         /\ \A k \in DOMAIN reports : reports[k].n \in Nat
         /\ \A j \in DOMAIN queue : queue[j] \in Queued /\ j \in Nat
<1> USE CloudAssumption, NullAssumption DEF IInv
<1>1. \A j \in DOMAIN queue : queue[j] \in Queued /\ queue[j] \in Blocks /\ j \in Nat
  BY DEF TypeOK, Queued, Elements
<1>2. Queued \subseteq Blocks
  BY <1>1 DEF Queued, Elements
<1>3. Pending \subseteq Blocks /\ Queued \subseteq Pending
  BY <1>2 DEF TypeOK, Pending
<1>4. cloudMsg # NULL => cloudMsg \in Blocks \ Pending
  BY DEF TypeOK, Pending, HeapOwnership
<1>5. ASSUME NEW b \in Pending \cup ({cloudMsg} \ {NULL})
      PROVE  heap[b] # NULL /\ heap[b].type \in {"cmd", "report"} /\ heap[b].n \in Nat
  <2>1. b \in Blocks /\ heap[b] # NULL
    BY <1>3, <1>4 DEF Pending, HeapOwnership
  <2>2. heap[b] \in CommandMsg \/ heap[b] \in ReportMsg
    BY <2>1 DEF TypeOK
  <2> QED BY <2>1, <2>2 DEF CommandMsg, ReportMsg
<1>6. engineMsg # NULL => heap[engineMsg].type = "cmd"
  BY DEF Places, CommandMsg
<1>7. sensorMsg # NULL => heap[sensorMsg].type = "report"
  BY DEF Places, ReportMsg
<1>8. delivered \in Nat /\ samples \in Nat
  BY DEF TypeOK
<1>10. \A k \in DOMAIN answers : answers[k].n \in Nat
  <2>1. \A k \in DOMAIN answers : answers[k] \in Answer
    BY DEF TypeOK
  <2> QED BY <2>1 DEF Answer
<1>11. \A k \in DOMAIN reports : reports[k].n \in Nat
  <2>1. \A k \in DOMAIN reports : reports[k] \in ReportSent
    BY DEF TypeOK
  <2> QED BY <2>1 DEF ReportSent
<1> QED BY <1>1, <1>3, <1>4, <1>5, <1>6, <1>7, <1>8, <1>10, <1>11

(* Appending to a sequence keeps what was in it. *)
LEMMA Appended ==
  ASSUME NEW S, NEW q \in Seq(S), NEW x \in S
  PROVE  /\ Append(q, x) \in Seq(S)
         /\ DOMAIN Append(q, x) = DOMAIN q \cup {Len(q) + 1}
         /\ DOMAIN q = 1..Len(q) /\ Len(q) \in Nat /\ Len(Append(q, x)) = Len(q) + 1
         /\ \A k \in DOMAIN q : Append(q, x)[k] = q[k]
         /\ Append(q, x)[Len(q) + 1] = x
OBVIOUS

-----------------------------------------------------------------------------
(* Steps and the order of messages.                                        *)

(* Steps that move no message. *)
LEMMA OrderQuiet ==
  ASSUME OrderInv, RejectedHasNoTree', Unanswered' => Unanswered, cloudPc' = "report" => cloudPc = "report",
         UNCHANGED <<heap, queue, engineMsg, sensorMsg, cloudMsg, delivered, samples, answers, reports>>
  PROVE  OrderInv'
<1>1. Queued' = Queued /\ Pending' = Pending /\ \A b : Newest(b)' = Newest(b)
  BY DEF Queued, Elements, Pending, Newest
<1>2. InOrder' /\ NewestLast' /\ OldestFirst'
  BY <1>1 DEF OrderInv, InOrder, NewestLast, OldestFirst
<1>3. AnswersOlder'
  BY <1>1 DEF OrderInv, AnswersOlder
<1>4. ReportsOlder'
  BY <1>1 DEF OrderInv, ReportsOlder
<1> QED BY <1>2, <1>3, <1>4 DEF OrderInv

(* malloc and the stores into the block: the newest message of its type. *)
LEMMA OrderStore ==
  ASSUME IInv, OrderInv, NEW b \in Blocks, b \notin Pending, b # cloudMsg,
         UNCHANGED <<queue, cloudVars>>,
         \A c \in Blocks \ {b} : heap'[c] = heap[c],
         \/ /\ UNCHANGED <<samples, sensorMsg>> /\ engineMsg = NULL /\ delivered' = delivered + 1
            /\ engineMsg' = NULL \/ (engineMsg' = b /\ heap'[b].type = "cmd" /\ heap'[b].n = delivered + 1)
         \/ /\ UNCHANGED <<delivered, engineMsg>> /\ sensorMsg = NULL /\ samples' = samples + 1
            /\ sensorMsg' = NULL \/ (sensorMsg' = b /\ heap'[b].type = "report" /\ heap'[b].n = samples + 1)
  PROVE  OrderInv'
<1> USE Numbers DEF OrderInv, cloudVars
<1>1. Queued' = Queued /\ Pending \subseteq Pending' /\ Pending' \subseteq Pending \cup {b}
  BY DEF Queued, Elements, Pending
<1>2. \A c \in Pending \cup ({cloudMsg} \ {NULL}) : heap'[c] = heap[c]
  OBVIOUS
<1>4. InOrder'
  BY <1>1, <1>2 DEF InOrder
<1>5. NewestLast'
  <2>1. ASSUME NEW c \in Queued PROVE heap'[c].n <= Newest(c)'
    <3>1. heap'[c] = heap[c] /\ heap[c].n <= Newest(c)
      BY <1>2 DEF NewestLast
    <3> QED BY <3>1 DEF Newest
  <2>2. ASSUME NEW m \in {engineMsg', sensorMsg'} \ {NULL}
        PROVE  /\ heap'[m].n = Newest(m)'
               /\ \A c \in Queued : heap'[c].type = heap'[m].type => heap'[c].n < heap'[m].n
    <3>1. CASE m = b
      <4>1. heap'[b].n = Newest(b)'
        BY <3>1 DEF Newest, Pending
      <4>2. ASSUME NEW c \in Queued, heap'[c].type = heap'[b].type PROVE heap'[c].n < heap'[b].n
        <5>1. heap'[c] = heap[c] /\ heap[c].n <= Newest(c)
          BY <1>2 DEF NewestLast
        <5> QED BY <3>1, <4>2, <5>1 DEF Newest, Pending
      <4> QED BY <3>1, <4>1, <4>2
    <3>2. CASE m # b
      <4>1. m \in {engineMsg, sensorMsg} \ {NULL} /\ m \in Pending /\ heap'[m] = heap[m]
        BY <1>2, <3>2 DEF Pending
      <4>2. Newest(m)' = Newest(m)
        BY <3>2, <4>1 DEF Newest
      <4>3. ASSUME NEW c \in Queued PROVE heap'[c] = heap[c]
        BY <1>2
      <4> QED BY <4>1, <4>2, <4>3 DEF NewestLast
    <3> QED BY <3>1, <3>2
  <2> QED BY <1>1, <2>1, <2>2 DEF NewestLast
<1>6. OldestFirst'
  <2> SUFFICES ASSUME cloudMsg # NULL
               PROVE  /\ heap'[cloudMsg].n <= Newest(cloudMsg)'
                      /\ \A c \in Pending' : heap'[c].type = heap'[cloudMsg].type
                                           => heap'[cloudMsg].n < heap'[c].n
    BY DEF OldestFirst
  <2>1. heap'[cloudMsg] = heap[cloudMsg] /\ heap[cloudMsg].n <= Newest(cloudMsg)
    BY <1>2 DEF OldestFirst
  <2>2. heap[cloudMsg].n <= Newest(cloudMsg)'
    BY <2>1 DEF Newest
  <2>3. ASSUME NEW c \in Pending', heap'[c].type = heap[cloudMsg].type PROVE heap[cloudMsg].n < heap'[c].n
    <3>1. CASE c \in Pending
      BY <1>2, <2>3, <3>1 DEF OldestFirst
    <3>2. CASE c = b /\ c \notin Pending
      BY <1>1, <2>1, <2>3, <3>2 DEF Newest, Pending
    <3> QED BY <1>1, <3>1, <3>2
  <2> QED BY <2>1, <2>2, <2>3
<1>7. AnswersOlder'
  <2> SUFFICES ASSUME NEW k \in DOMAIN answers
               PROVE  /\ answers[k].n <= delivered'
                      /\ \A c \in Pending' : heap'[c].type = "cmd" => answers[k].n < heap'[c].n
                      /\ cloudMsg # NULL /\ heap'[cloudMsg].type = "cmd" => answers[k].n <= heap'[cloudMsg].n
                      /\ Unanswered => answers[k].n < heap'[cloudMsg].n
    BY DEF AnswersOlder, Unanswered
  <2>1. answers[k].n <= delivered'
    BY DEF AnswersOlder
  <2>2. ASSUME NEW c \in Pending', heap'[c].type = "cmd" PROVE answers[k].n < heap'[c].n
    BY <1>1, <1>2, <2>2 DEF AnswersOlder, Pending
  <2>3. Unanswered => cloudMsg # NULL
    BY DEF Unanswered, IInv, Places
  <2> QED BY <1>2, <2>1, <2>2, <2>3 DEF AnswersOlder
<1>8. ReportsOlder'
  <2> SUFFICES ASSUME NEW k \in DOMAIN reports
               PROVE  /\ reports[k].n <= samples'
                      /\ \A c \in Pending' : heap'[c].type = "report" => reports[k].n < heap'[c].n
                      /\ cloudPc = "report" => reports[k].n < heap'[cloudMsg].n
    BY DEF ReportsOlder
  <2>1. reports[k].n <= samples'
    BY DEF ReportsOlder
  <2>2. ASSUME NEW c \in Pending', heap'[c].type = "report" PROVE reports[k].n < heap'[c].n
    BY <1>1, <1>2, <2>2 DEF ReportsOlder, Pending
  <2>3. cloudPc = "report" => cloudMsg # NULL
    BY DEF IInv, Places
  <2> QED BY <1>2, <2>1, <2>2, <2>3 DEF ReportsOlder
<1> QED BY <1>4, <1>5, <1>6, <1>7, <1>8 DEF RejectedHasNoTree

(* A message that its thread puts into the queue, or that finds no room and *)
(* is freed.                                                               *)
LEMMA OrderPut ==
  ASSUME IInv, OrderInv, NEW m \in {engineMsg, sensorMsg} \ {NULL},
         UNCHANGED <<cloudVars, delivered, samples>>,
         \/ m = engineMsg /\ engineMsg' = NULL /\ sensorMsg' = sensorMsg
         \/ m = sensorMsg /\ sensorMsg' = NULL /\ engineMsg' = engineMsg,
         \/ queue' = Append(queue, m) /\ heap' = heap
         \/ queue' = queue /\ heap' = [heap EXCEPT ![m] = NULL]
  PROVE  OrderInv'
<1> USE Numbers DEF OrderInv, cloudVars
<1>1. m \in Pending \ Queued /\ m \in Blocks /\ m # cloudMsg /\ (engineMsg # NULL => engineMsg # sensorMsg)
      /\ queue \in Seq(Blocks) /\ heap \in [Blocks -> CommandMsg \cup ReportMsg \cup {NULL}]
  BY DEF Pending, IInv, TypeOK, HeapOwnership
<1>2. \A c \in Blocks \ {m} : heap'[c] = heap[c]
  BY <1>1
<1>3. CASE queue' = Append(queue, m) /\ heap' = heap
  <2>1. /\ DOMAIN queue' = DOMAIN queue \cup {Len(queue) + 1} /\ DOMAIN queue = 1..Len(queue)
        /\ Len(queue) \in Nat
        /\ \A k \in DOMAIN queue : queue'[k] = queue[k]
        /\ queue'[Len(queue) + 1] = m
    BY <1>1, <1>3, Appended
  <2>2. Queued' = Queued \cup {m}
    BY <1>1, <1>3, AppendElements DEF Queued
  <2>3. Pending' = Pending
    BY <1>1, <2>2 DEF Pending
  <2>4. InOrder'
    <3> SUFFICES ASSUME NEW j \in DOMAIN queue', NEW k \in DOMAIN queue', j < k,
                        heap[queue'[j]].type = heap[queue'[k]].type
                 PROVE  heap[queue'[j]].n < heap[queue'[k]].n
      BY <1>3 DEF InOrder
    <3>1. CASE k \in DOMAIN queue
      <4>1. j \in DOMAIN queue
        BY <2>1, <3>1
      <4> QED BY <2>1, <3>1, <4>1 DEF InOrder
    <3>2. CASE k = Len(queue) + 1
      <4>1. j \in DOMAIN queue
        BY <2>1, <3>2
      <4> QED BY <2>1, <3>2, <4>1 DEF NewestLast
    <3> QED BY <2>1, <3>1, <3>2
  <2>5. NewestLast'
    <3>1. ASSUME NEW c \in Queued' PROVE heap[c].n <= Newest(c)
      BY <2>2, <3>1 DEF NewestLast, Newest
    <3>2. ASSUME NEW x \in {engineMsg', sensorMsg'} \ {NULL}
          PROVE  /\ heap[x].n = Newest(x)
                 /\ \A c \in Queued' : heap[c].type = heap[x].type => heap[c].n < heap[x].n
      <4>1. x \in {engineMsg, sensorMsg} \ {NULL} /\ heap[x].type # heap[m].type
        BY <1>1
      <4> QED BY <2>2, <4>1 DEF NewestLast
    <3>3. \A c : Newest(c)' = Newest(c)
      BY <1>3 DEF Newest
    <3> QED BY <1>3, <3>1, <3>2, <3>3 DEF NewestLast
  <2>6. OldestFirst'
    BY <1>3, <2>3 DEF OldestFirst, Newest
  <2>7. AnswersOlder' /\ ReportsOlder'
    BY <1>3, <2>3 DEF AnswersOlder, ReportsOlder, Unanswered
  <2> QED BY <2>4, <2>5, <2>6, <2>7 DEF RejectedHasNoTree
<1>4. CASE queue' = queue /\ heap' = [heap EXCEPT ![m] = NULL]
  <2>1. Queued' = Queued /\ Pending' = Pending \ {m}
    BY <1>1, <1>4 DEF Queued, Elements, Pending
  <2>2. \A c \in (Pending \ {m}) \cup ({cloudMsg} \ {NULL}) : heap'[c] = heap[c] /\ Newest(c)' = Newest(c)
    BY <1>1, <1>2 DEF Newest
  <2>3. InOrder'
    <3>1. \A j \in DOMAIN queue : heap'[queue[j]] = heap[queue[j]]
      BY <1>1, <1>2
    <3> QED BY <1>4, <3>1 DEF InOrder
  <2>4. NewestLast'
    <3>1. Queued \subseteq Pending \ {m} /\ {engineMsg', sensorMsg'} \ {NULL} \subseteq Pending \ {m}
      BY <1>1 DEF Pending
    <3>2. {engineMsg', sensorMsg'} \ {NULL} \subseteq {engineMsg, sensorMsg} \ {NULL}
      OBVIOUS
    <3> QED BY <2>1, <2>2, <3>1, <3>2 DEF NewestLast
  <2>5. OldestFirst'
    BY <2>1, <2>2 DEF OldestFirst
  <2>6. AnswersOlder' /\ ReportsOlder'
    <3>1. Unanswered \/ cloudPc = "report" => cloudMsg # NULL
      BY DEF Unanswered, IInv, Places
    <3> QED BY <2>1, <2>2, <3>1 DEF AnswersOlder, ReportsOlder, Unanswered
  <2> QED BY <2>3, <2>4, <2>5, <2>6 DEF RejectedHasNoTree
<1> QED BY <1>3, <1>4

(* osMessageQueueGet: the oldest of its type, and not answered or reported. *)
LEMMA OrderTake == IInv /\ OrderInv /\ Get => OrderInv'
<1> SUFFICES ASSUME IInv, OrderInv, Get PROVE OrderInv'
  OBVIOUS
<1> USE Numbers DEF OrderInv
<1> DEFINE h == Head(queue)
<1>1. /\ h \in Queued /\ h \in Blocks
      /\ Queued' = Queued \ {h}
      /\ heap' = heap /\ cloudMsg' = h /\ cloudMsg = NULL
      /\ UNCHANGED <<engineMsg, sensorMsg, delivered, samples, answers, reports>>
  BY TailElements DEF Get, IInv, TypeOK, Places, HeapOwnership, Queued, sensorVars, engineVars
<1>2. /\ DOMAIN queue' = 1..(Len(queue) - 1) /\ DOMAIN queue = 1..Len(queue) /\ Len(queue) \in Nat
      /\ \A k \in DOMAIN queue' : queue'[k] = queue[k + 1] /\ k + 1 \in DOMAIN queue
      /\ h = queue[1] /\ 1 \in DOMAIN queue
  BY DEF Get, IInv, TypeOK
<1>3. cloudPc' = IF heap[h].type = "cmd" THEN "parse" ELSE "report"
  BY DEF Get
<1> HIDE DEF h
<1>4. h # engineMsg /\ h # sensorMsg /\ h # NULL
  BY <1>1, CloudAssumption DEF IInv, TypeOK, HeapOwnership
<1>5. Pending' = Pending \ {h} /\ h \in Pending /\ \A c : Newest(c)' = Newest(c)
  BY <1>1, <1>4 DEF Pending, Newest
<1>6. InOrder'
  <2> SUFFICES ASSUME NEW j \in DOMAIN queue', NEW k \in DOMAIN queue', j < k,
                      heap[queue'[j]].type = heap[queue'[k]].type
               PROVE  heap[queue'[j]].n < heap[queue'[k]].n
    BY <1>1 DEF InOrder
  <2>1. j + 1 < k + 1 /\ j + 1 \in DOMAIN queue /\ k + 1 \in DOMAIN queue
    BY <1>2
  <2> QED BY <1>2, <2>1 DEF InOrder
<1>7. NewestLast'
  BY <1>1, <1>5 DEF NewestLast
<1>8. OldestFirst'
  <2>1. heap[h].n <= Newest(h)
    BY <1>1 DEF NewestLast
  <2>2. ASSUME NEW c \in Queued \ {h}, heap[c].type = heap[h].type PROVE heap[h].n < heap[c].n
    <3>1. PICK k \in DOMAIN queue : c = queue[k]
      BY DEF Queued, Elements
    <3>2. 1 < k
      BY <1>2, <2>2, <3>1
    <3> QED BY <1>2, <2>2, <3>1, <3>2 DEF InOrder
  <2>3. ASSUME NEW c \in {engineMsg, sensorMsg} \ {NULL}, heap[c].type = heap[h].type PROVE heap[h].n < heap[c].n
    BY <1>1, <2>3 DEF NewestLast
  <2> QED BY <1>1, <1>5, <2>1, <2>2, <2>3 DEF OldestFirst, Pending
<1>9. AnswersOlder'
  <2> SUFFICES ASSUME NEW k \in DOMAIN answers
               PROVE  /\ answers[k].n <= delivered
                      /\ \A b \in Pending \ {h} : heap[b].type = "cmd" => answers[k].n < heap[b].n
                      /\ heap[h].type = "cmd" => answers[k].n <= heap[h].n
                      /\ Unanswered' => answers[k].n < heap[h].n
    BY <1>1, <1>5 DEF AnswersOlder
  <2>1. Unanswered' => heap[h].type = "cmd"
    BY <1>3 DEF Unanswered
  <2> QED BY <1>5, <2>1 DEF AnswersOlder
<1>10. ReportsOlder'
  <2>1. cloudPc' = "report" => heap[h].type = "report"
    BY <1>1, <1>3, <1>5
  <2> QED BY <1>1, <1>5, <2>1 DEF ReportsOlder
<1>11. RejectedHasNoTree'
  BY <1>3 DEF RejectedHasNoTree
<1> QED BY <1>6, <1>7, <1>8, <1>9, <1>10, <1>11

(* oc_mqtt_profile_cmdresp: the one answer to the command. *)
LEMMA OrderAnswer ==
  ASSUME IInv, OrderInv, Unanswered, ~Unanswered', RejectedHasNoTree', cloudPc' # "report",
         NEW r \in Answer, answers' = Append(answers, r), r.n = heap[cloudMsg].n,
         UNCHANGED <<heapVars, sensorVars, engineVars, cloudMsg, reports>>
  PROVE  OrderInv'
<1> USE Numbers DEF OrderInv, heapVars, sensorVars, engineVars
<1>1. Queued' = Queued /\ Pending' = Pending /\ \A b : Newest(b)' = Newest(b)
  BY DEF Queued, Elements, Pending, Newest
<1>2. InOrder' /\ NewestLast' /\ OldestFirst' /\ ReportsOlder'
  BY <1>1 DEF InOrder, NewestLast, OldestFirst, ReportsOlder
<1>3. AnswersOlder'
  <2>1. answers \in Seq(Answer)
    BY DEF IInv, TypeOK
  <2>2. /\ DOMAIN answers' = DOMAIN answers \cup {Len(answers) + 1}
        /\ \A k \in DOMAIN answers : answers'[k] = answers[k]
        /\ answers'[Len(answers) + 1] = r
    BY <2>1, Appended
  <2>3. cloudMsg # NULL /\ heap[cloudMsg].type = "cmd"
    BY DEF IInv, Places, Unanswered, CommandMsg
  <2>4. heap[cloudMsg].n <= delivered
    BY <2>3 DEF OldestFirst, Newest
  <2> SUFFICES ASSUME NEW k \in DOMAIN answers'
               PROVE  /\ answers'[k].n <= delivered
                      /\ \A b \in Pending : heap[b].type = "cmd" => answers'[k].n < heap[b].n
                      /\ answers'[k].n <= heap[cloudMsg].n
    BY <1>1 DEF AnswersOlder
  <2>5. CASE k \in DOMAIN answers
    BY <2>2, <2>3, <2>5 DEF AnswersOlder
  <2>6. CASE k = Len(answers) + 1
    BY <2>2, <2>3, <2>4, <2>6 DEF OldestFirst
  <2> QED BY <2>2, <2>5, <2>6
<1> QED BY <1>2, <1>3

(* oc_mqtt_profile_propertyreport, or a reading that is not sent. *)
LEMMA OrderReport == IInv /\ OrderInv /\ Report => OrderInv'
<1> SUFFICES ASSUME IInv, OrderInv, Report PROVE OrderInv'
  OBVIOUS
<1> USE Numbers DEF OrderInv, heapVars, sensorVars, engineVars
<1>0. UNCHANGED <<heap, queue, engineMsg, sensorMsg, cloudMsg, delivered, samples, answers>>
      /\ cloudPc = "report" /\ cloudPc' = "free"
  BY DEF Report
<1>1. Queued' = Queued /\ Pending' = Pending /\ \A b : Newest(b)' = Newest(b) 
  BY <1>0 DEF Queued, Elements, Pending, Newest
<1>2. InOrder' /\ NewestLast' /\ OldestFirst' /\ AnswersOlder' /\ RejectedHasNoTree'
  BY <1>0, <1>1 DEF InOrder, NewestLast, OldestFirst, AnswersOlder, Unanswered, RejectedHasNoTree
<1>3. CASE UNCHANGED reports
  BY <1>0, <1>1, <1>2, <1>3 DEF ReportsOlder
<1>4. ASSUME NEW r \in ReportSent, reports' = Append(reports, r), r.n = heap[cloudMsg].n
      PROVE  ReportsOlder'
  <2>1. reports \in Seq(ReportSent)
    BY DEF IInv, TypeOK
  <2>2. /\ DOMAIN reports' = DOMAIN reports \cup {Len(reports) + 1}
        /\ \A k \in DOMAIN reports : reports'[k] = reports[k]
        /\ reports'[Len(reports) + 1] = r
    BY <1>4, <2>1, Appended
  <2>3. cloudMsg # NULL /\ heap[cloudMsg].type = "report"
    BY <1>0 DEF IInv, Places, ReportMsg
  <2>4. heap[cloudMsg].n <= samples
    BY <2>3 DEF OldestFirst, Newest
  <2> SUFFICES ASSUME NEW k \in DOMAIN reports'
               PROVE  /\ reports'[k].n <= samples
                      /\ \A b \in Pending : heap[b].type = "report" => reports'[k].n < heap[b].n
    BY <1>0, <1>1 DEF ReportsOlder
  <2>5. CASE k \in DOMAIN reports
    BY <2>2, <2>5 DEF ReportsOlder
  <2>6. CASE k = Len(reports) + 1
    BY <1>4, <2>2, <2>3, <2>4, <2>6 DEF OldestFirst
  <2> QED BY <2>2, <2>5, <2>6
<1>5. [n |-> heap[cloudMsg].n, on |-> on, after |-> Len(answers)] \in ReportSent
  <2>1. Len(answers) \in Nat /\ on \in SUBSET Actuators
    BY DEF IInv, TypeOK
  <2>2. heap[cloudMsg].n \in 1..MaxSamples
    BY <1>0 DEF IInv, Places, ReportMsg
  <2> QED BY <2>1, <2>2 DEF ReportSent
<1> QED BY <1>2, <1>3, <1>4, <1>5 DEF Report

(* free(app_msg): the block was in nobody else's hands. *)
LEMMA OrderRelease == IInv /\ OrderInv /\ Release => OrderInv'
<1> SUFFICES ASSUME IInv, OrderInv, Release PROVE OrderInv'
  OBVIOUS
<1> USE Numbers DEF OrderInv
<1>0. UNCHANGED <<queue, engineMsg, sensorMsg, delivered, samples, answers, reports>>
      /\ cloudMsg' = NULL /\ cloudPc' = "get" /\ heap' = [heap EXCEPT ![cloudMsg] = NULL]
      /\ cloudMsg \notin Pending /\ heap \in [Blocks -> CommandMsg \cup ReportMsg \cup {NULL}]
  BY DEF Release, Free, sensorVars, engineVars, IInv, TypeOK, Places
<1>1. Queued' = Queued /\ Pending' = Pending /\ Queued \subseteq Pending
  BY <1>0 DEF Queued, Elements, Pending
<1>2. \A c \in Pending : heap'[c] = heap[c] /\ Newest(c)' = Newest(c)
  BY <1>0 DEF Newest
<1>3. InOrder'
  <2>1. \A j \in DOMAIN queue : heap'[queue[j]] = heap[queue[j]]
    BY <1>1, <1>2
  <2> QED BY <1>0, <2>1 DEF InOrder
<1>4. NewestLast'
  BY <1>0, <1>1, <1>2 DEF NewestLast, Pending
<1>5. OldestFirst' /\ AnswersOlder' /\ ReportsOlder' /\ RejectedHasNoTree'
  BY <1>0, <1>1, <1>2 DEF OldestFirst, AnswersOlder, ReportsOlder, Unanswered, RejectedHasNoTree
<1> QED BY <1>3, <1>4, <1>5

(* What oc_mqtt_profile_cmdresp is called with. *)
LEMMA AnswerType ==
  ASSUME IInv, cloudPc \in {"parse", "reject", "execute", "respond"}, NEW code \in {0, 1}
  PROVE  [n |-> heap[cloudMsg].n, code |-> code, kind |-> Kind] \in Answer
BY DEF IInv, Places, Kind, Answer, CommandMsg

(* Every step keeps the order. *)
LEMMA OrderNext == IInv /\ OrderInv /\ [Next]_vars => OrderInv'
<1> SUFFICES ASSUME IInv, OrderInv, [Next]_vars PROVE OrderInv'
  OBVIOUS
<1> USE DEF heapVars, cloudVars, sensorVars, engineVars
<1>r. RejectedHasNoTree
  BY DEF OrderInv
<1>0. CASE UNCHANGED vars
  BY <1>0, <1>r, OrderQuiet DEF vars, RejectedHasNoTree, Unanswered
<1>q. CASE \/ Subscribe \/ SensorInit \/ SensorStart \/ SensorSleep \/ WifiUp \/ CreateQueue \/ Connect
           \/ ParseCommand \/ Fault \/ ExecuteCommand
  <2>1. UNCHANGED <<heap, queue, engineMsg, sensorMsg, cloudMsg, delivered, samples, answers, reports>>
    BY <1>q DEF Subscribe, SensorInit, SensorStart, SensorSleep, WifiUp, CreateQueue, Connect,
                ParseCommand, Fault, ExecuteCommand
  <2>2. RejectedHasNoTree' /\ (Unanswered' => Unanswered) /\ (cloudPc' = "report" => cloudPc = "report")
    BY <1>q, <1>r DEF Subscribe, SensorInit, SensorStart, SensorSleep, WifiUp, CreateQueue,
       Connect,
                ParseCommand, Fault, ExecuteCommand, IsKnown, RejectedHasNoTree, Unanswered
  <2> QED BY <2>1, <2>2, OrderQuiet
<1>1. CASE CallbackPut
  BY <1>1, OrderPut DEF CallbackPut, PutSucceeds, PutFails, Free, IInv, Places
<1>2. CASE SensorPut
  BY <1>2, OrderPut DEF SensorPut, PutSucceeds, PutFails, Free, IInv, Places
<1>3. ASSUME NEW kind \in Commands, Receive(kind) PROVE OrderInv'
  <2>1. engineMsg = NULL /\ engineMsg' \in Blocks \cup {NULL}
    BY <1>3 DEF Receive, IInv, Places, TypeOK
  <2>2. CASE UNCHANGED <<heap, engineMsg>>
    <3>1. Queued' = Queued /\ Pending' = Pending
      BY <1>3, <2>2 DEF Receive, Queued, Elements, Pending
    <3>2. \A b \in Pending \cup ({cloudMsg} \ {NULL}) : Newest(b) <= Newest(b)' /\ Newest(b) \in Nat /\ Newest(b)' \in Nat
      BY <1>3, <2>2, Numbers DEF Receive, Newest
    <3>3. InOrder' /\ RejectedHasNoTree' /\ ReportsOlder'
      BY <1>3, <2>2, <3>1, <1>r DEF Receive, OrderInv, InOrder, RejectedHasNoTree, ReportsOlder
    <3>4. NewestLast'
      <4>1. ASSUME NEW b \in Queued PROVE heap[b].n <= Newest(b)'
        BY <3>2, Numbers DEF OrderInv, NewestLast
      <4>2. sensorMsg # NULL => Newest(sensorMsg)' = Newest(sensorMsg)
        BY <1>3, <2>2, Numbers DEF Receive, Newest
      <4> QED BY <1>3, <2>1, <2>2, <3>1, <4>1, <4>2 DEF Receive, OrderInv, NewestLast
    <3>5. OldestFirst'
      BY <1>3, <2>2, <3>1, <3>2, Numbers DEF Receive, OrderInv, OldestFirst
    <3>6. AnswersOlder'
      <4>1. \A k \in DOMAIN answers : answers[k].n <= delivered + 1
        BY Numbers DEF OrderInv, AnswersOlder
      <4> QED BY <1>3, <2>2, <3>1, <4>1 DEF Receive, OrderInv, AnswersOlder, Unanswered
    <3> QED BY <3>3, <3>4, <3>5, <3>6 DEF OrderInv
  <2>3. ASSUME NEW b \in Blocks,
               Store(b, [type |-> "cmd", n |-> delivered + 1, kind |-> kind]), engineMsg' = b
        PROVE  OrderInv'
    <3> DEFINE msg == [type |-> "cmd", n |-> delivered + 1, kind |-> kind]
    <3>1. b \notin Pending /\ b # cloudMsg
      BY <2>3 DEF Store, IInv, HeapOwnership, Pending
    <3>2. msg.type = "cmd" /\ msg.n = delivered + 1
      OBVIOUS
    <3> HIDE DEF msg
    <3>3. heap' = [heap EXCEPT ![b] = msg]
      BY <2>3 DEF Store, msg
    <3>4. heap'[b] = msg /\ \A c \in Blocks \ {b} : heap'[c] = heap[c]
      BY <3>3 DEF IInv, TypeOK
    <3> QED BY <1>3, <2>1, <2>3, <3>1, <3>2, <3>4, OrderStore DEF Receive
  <2> QED BY <1>3, <2>2, <2>3 DEF Receive
<1>4. CASE SensorRead \/ GpsRead
  <2>1. UNCHANGED <<queue, cloudVars, delivered, engineMsg>> /\ sensorMsg = NULL
    BY <1>4 DEF SensorRead, GpsRead, IInv, Places
  <2>2. CASE UNCHANGED <<heap, sensorMsg, samples>>
    BY <1>4, <1>r, <2>1, <2>2, OrderQuiet DEF RejectedHasNoTree, Unanswered
  <2>3. CASE UNCHANGED <<heap, sensorMsg>> /\ samples' = samples + 1
    <3>1. Queued' = Queued /\ Pending' = Pending
      BY <2>1, <2>3 DEF Queued, Elements, Pending
    <3>2. \A b \in Pending \cup ({cloudMsg} \ {NULL}) : Newest(b) <= Newest(b)' /\ Newest(b) \in Nat /\ Newest(b)' \in Nat
      BY <2>1, <2>3, Numbers DEF Newest
    <3>3. InOrder' /\ RejectedHasNoTree' /\ AnswersOlder'
      BY <2>1, <2>3, <3>1, <1>r DEF OrderInv, InOrder, RejectedHasNoTree, AnswersOlder, Unanswered
    <3>4. NewestLast'
      <4>1. ASSUME NEW b \in Queued PROVE heap[b].n <= Newest(b)'
        BY <3>2, Numbers DEF OrderInv, NewestLast
      <4>2. engineMsg # NULL => Newest(engineMsg)' = Newest(engineMsg)
        BY <2>1, <2>3, Numbers DEF Newest
      <4> QED BY <2>1, <2>3, <3>1, <4>1, <4>2 DEF OrderInv, NewestLast
    <3>5. OldestFirst'
      BY <2>1, <2>3, <3>1, <3>2, Numbers DEF OrderInv, OldestFirst
    <3>6. ReportsOlder'
      <4>1. \A k \in DOMAIN reports : reports[k].n <= samples + 1
        BY Numbers DEF OrderInv, ReportsOlder
      <4> QED BY <2>1, <2>3, <3>1, <4>1 DEF OrderInv, ReportsOlder
    <3> QED BY <3>3, <3>4, <3>5, <3>6 DEF OrderInv
  <2>4. ASSUME NEW b \in Blocks, samples' = samples + 1, sensorMsg' \in {NULL, b},
               Store(b, [type |-> "report", n |-> samples + 1])
        PROVE  OrderInv'
    <3> DEFINE msg == [type |-> "report", n |-> samples + 1]
    <3>1. b \notin Pending /\ b # cloudMsg
      BY <2>4 DEF Store, IInv, HeapOwnership, Pending
    <3>2. msg.type = "report" /\ msg.n = samples + 1
      OBVIOUS
    <3> HIDE DEF msg
    <3>3. heap' = [heap EXCEPT ![b] = msg]
      BY <2>4 DEF Store, msg
    <3>4. heap'[b] = msg /\ \A c \in Blocks \ {b} : heap'[c] = heap[c]
      BY <3>3 DEF IInv, TypeOK
    <3> QED BY <2>1, <2>4, <3>1, <3>2, <3>4, OrderStore
  <2>5. CASE SensorRead
    BY <2>1, <2>2, <2>3, <2>4, <2>5 DEF SensorRead, DropReading
  <2>6. CASE GpsRead
    BY <2>1, <2>2, <2>3, <2>4, <2>6 DEF GpsRead, DropReading
  <2> QED BY <1>4, <2>5, <2>6
<1>5. CASE Get
  BY <1>5, OrderTake
<1>6. CASE RejectCommand
  <2>1. Unanswered /\ ~Unanswered' /\ RejectedHasNoTree' /\ cloudPc' # "report"
    BY <1>6, <1>r DEF RejectCommand, Unanswered, RejectedHasNoTree
  <2> QED BY <1>6, <2>1, AnswerType, OrderAnswer DEF RejectCommand, Respond
<1>7. CASE RespondToCommand \/ RespondToControl
  <2>1. Unanswered /\ ~Unanswered' /\ RejectedHasNoTree' /\ cloudPc' # "report"
    BY <1>7 DEF RespondToCommand, RespondToControl, Unanswered, RejectedHasNoTree
  <2> QED BY <1>7, <2>1, AnswerType, OrderAnswer DEF RespondToCommand, RespondToControl, Respond
<1>8. CASE Report
  BY <1>8, OrderReport
<1>9. CASE Release
  BY <1>9, OrderRelease
<1> QED BY <1>0, <1>q, <1>1, <1>2, <1>3, <1>4, <1>5, <1>6, <1>7, <1>8, <1>9, Steps
-----------------------------------------------------------------------------
(* Steps and the status.                                                   *)

(* OnAfter of any sequence of answers. *)
OnIn(s, k, a) ==
  \E i \in 1..k :
    /\ s[i].code = 0 /\ s[i].kind.target = a /\ s[i].kind.value = "ON"
    /\ \A j \in (i + 1)..k : s[j].code = 0 => s[j].kind.target # a

(* One more answer leaves what the earlier ones said, and says itself what *)
(* a success code says of the actuator of its command.                     *)
LEMMA OneMoreAnswer ==
  ASSUME NEW s \in Seq(Answer), NEW r \in Answer, NEW a
  PROVE  /\ \A k \in 0..Len(s) : OnIn(Append(s, r), k, a) <=> OnIn(s, k, a)
         /\ OnIn(Append(s, r), Len(s) + 1, a) <=>
              IF r.code = 0 /\ r.kind.target = a THEN r.kind.value = "ON" ELSE OnIn(s, Len(s), a)
<1> DEFINE t == Append(s, r)
<1>1. /\ Len(s) \in Nat
      /\ \A i \in 1..Len(s) : t[i] = s[i]
      /\ t[Len(s) + 1] = r
  OBVIOUS
<1> HIDE DEF t
<1>2. ASSUME NEW k \in 0..Len(s) PROVE OnIn(t, k, a) <=> OnIn(s, k, a)
  <2>1. \A i \in 1..k : t[i] = s[i] /\ \A j \in (i + 1)..k : t[j] = s[j]
    BY <1>1
  <2> QED BY <2>1 DEF OnIn
<1>3. OnIn(t, Len(s) + 1, a) <=>
        IF r.code = 0 /\ r.kind.target = a THEN r.kind.value = "ON" ELSE OnIn(s, Len(s), a)
  <2> DEFINE n == Len(s)
  <2>1. n \in Nat /\ t[n + 1] = r /\ \A i \in 1..n : t[i] = s[i]
    BY <1>1
  <2>2. \A i \in 1..n : i \in 1..(n + 1) /\ n + 1 \in (i + 1)..(n + 1)
                        /\ (i + 1)..(n + 1) = ((i + 1)..n) \cup {n + 1}
                        /\ \A j \in (i + 1)..n : j \in 1..n
    BY <2>1
  <2>3. n + 1 \in 1..(n + 1) /\ (n + 1 + 1)..(n + 1) = {} /\ 1..(n + 1) = 1..n \cup {n + 1}
    BY <2>1
  <2> HIDE DEF n
  <2>4. CASE r.code = 0 /\ r.kind.target = a
    <3>1. OnIn(t, n + 1, a) <=> r.kind.value = "ON"
      BY <2>1, <2>2, <2>3, <2>4 DEF OnIn
    <3> QED BY <2>4, <3>1 DEF n
  <2>5. CASE ~(r.code = 0 /\ r.kind.target = a)
    <3>1. OnIn(t, n + 1, a) <=> OnIn(s, n, a)
      BY <2>1, <2>2, <2>3, <2>5 DEF OnIn
    <3> QED BY <2>5, <3>1 DEF n
  <2> QED BY <2>4, <2>5
<1> QED BY <1>2, <1>3 DEF t

(* Steps that answer nothing, report nothing and switch nothing, and do    *)
(* not pass the place between a command's effect and its answer.           *)
LEMMA ReportsQuiet ==
  ASSUME ReportsInv, UNCHANGED <<on, answers, reports>>,
         cloudPc' = "respond" <=> cloudPc = "respond",
         cloudPc = "respond" => Kind' = Kind
  PROVE  ReportsInv'
<1>1. \A k, a : OnAfter(k, a)' <=> OnAfter(k, a)
  BY DEF OnAfter
<1>2. StatusInv'
  BY <1>1 DEF ReportsInv, StatusInv
<1>3. ReportsTrue'
  BY <1>1 DEF ReportsInv, ReportsTrue
<1> QED BY <1>2, <1>3 DEF ReportsInv

(* An answer keeps what earlier reports say true of their time. *)
LEMMA ReportsAnswer ==
  ASSUME IInv, ReportsInv, NEW r \in Answer, answers' = Append(answers, r),
         UNCHANGED <<on, reports>>, cloudPc' # "respond",
         \/ cloudPc # "respond" /\ r.code = 1
         \/ cloudPc = "respond" /\ r.code = 0 /\ r.kind = Kind
  PROVE  ReportsInv'
<1>0. answers \in Seq(Answer) /\ Len(answers) \in Nat /\ Len(answers') = Len(answers) + 1
  BY DEF IInv, TypeOK
<1>1. \A a : \A k \in 0..Len(answers) : OnIn(answers', k, a) <=> OnIn(answers, k, a)
  BY <1>0, OneMoreAnswer
<1>2. \A a : OnIn(answers', Len(answers'), a) <=>
               IF r.code = 0 /\ r.kind.target = a THEN r.kind.value = "ON"
               ELSE OnIn(answers, Len(answers), a)
  BY <1>0, OneMoreAnswer
<1>3. \A k \in DOMAIN reports : reports[k].after \in 0..Len(answers)
  <2>1. \A k \in DOMAIN reports : reports[k] \in ReportSent
    BY DEF IInv, TypeOK
  <2> QED BY <1>0, <2>1 DEF ReportsInv, StatusInv, ReportSent
<1>4. StatusInv'
  <2>1. on = { a \in Actuators : OnIn(answers', Len(answers'), a) }
    <3>1. CASE cloudPc # "respond" /\ r.code = 1
      <4>1. on = { a \in Actuators : OnIn(answers, Len(answers), a) }
        BY <3>1 DEF ReportsInv, StatusInv, OnAfter, OnIn
      <4> QED BY <1>2, <3>1, <4>1
    <3>2. CASE cloudPc = "respond" /\ r.code = 0 /\ r.kind = Kind
      <4>1. on = { a \in Actuators : IF a = Kind.target THEN Kind.value = "ON"
                                     ELSE OnIn(answers, Len(answers), a) }
        BY <3>2 DEF ReportsInv, StatusInv, OnAfter, OnIn
      <4> QED BY <1>2, <3>2, <4>1
    <3> QED BY <3>1, <3>2
  <2>2. on' = { a \in Actuators : OnAfter(Len(answers), a)' }
    BY <2>1 DEF OnAfter, OnIn
  <2>3. \A k \in DOMAIN reports' : reports'[k].after <= Len(answers')
    BY <1>0, <1>3
  <2> QED BY <2>2, <2>3 DEF StatusInv
<1>5. ReportsTrue'
  <2> SUFFICES ASSUME NEW k \in DOMAIN reports
               PROVE  reports[k].on = { a \in Actuators : OnIn(answers', reports[k].after, a) }
    BY DEF ReportsInv, ReportsTrue, OnAfter, OnIn
  <2>1. reports[k].on = { a \in Actuators : OnIn(answers, reports[k].after, a) }
    BY DEF ReportsInv, ReportsTrue, OnAfter, OnIn
  <2> QED BY <1>1, <1>3, <2>1
<1> QED BY <1>4, <1>5 DEF ReportsInv

(* A report: newer than the reports before it, with the status of now. *)
LEMMA ReportsReport == IInv /\ OrderInv /\ ReportsInv /\ Report => ReportsInv'
<1> SUFFICES ASSUME IInv, OrderInv, ReportsInv, Report PROVE ReportsInv'
  OBVIOUS
<1>0. UNCHANGED <<on, answers>> /\ cloudPc = "report" /\ cloudPc' = "free"
  BY DEF Report
<1>1. CASE UNCHANGED reports
  BY <1>0, <1>1, ReportsQuiet
<1>2. CASE reports' = Append(reports, [n |-> heap[cloudMsg].n, on |-> on, after |-> Len(answers)])
  <2> DEFINE r == [n |-> heap[cloudMsg].n, on |-> on, after |-> Len(answers)]
  <2>1. r \in ReportSent
    <3>1. Len(answers) \in Nat /\ on \in SUBSET Actuators
      BY DEF IInv, TypeOK
    <3>2. heap[cloudMsg].n \in 1..MaxSamples
      BY <1>0 DEF IInv, Places, ReportMsg
    <3> QED BY <3>1, <3>2 DEF ReportSent
  <2>2. r.n = heap[cloudMsg].n /\ r.on = on /\ r.after = Len(answers)
    OBVIOUS
  <2> HIDE DEF r
  <2>3. reports \in Seq(ReportSent) /\ reports' = Append(reports, r) /\ Len(answers) \in Nat
    BY <1>2 DEF IInv, TypeOK, r
  <2>4. /\ DOMAIN reports' = DOMAIN reports \cup {Len(reports) + 1} /\ Len(reports) \in Nat
        /\ DOMAIN reports = 1..Len(reports)
        /\ \A k \in DOMAIN reports : reports'[k] = reports[k]
        /\ reports'[Len(reports) + 1] = r
    BY <2>1, <2>3, Appended
  <2>5. \A k \in DOMAIN reports : reports[k].n < r.n
    BY <1>0, <2>2 DEF OrderInv, ReportsOlder
  <2>6. \A k, a : OnAfter(k, a)' <=> OnAfter(k, a)
    BY <1>0 DEF OnAfter
  <2>7. StatusInv'
    BY <1>0, <2>2, <2>3, <2>4, <2>6 DEF ReportsInv, StatusInv
  <2>8. \A i, j \in DOMAIN reports' : i < j => reports'[i].n < reports'[j].n
    <3> SUFFICES ASSUME NEW i \in DOMAIN reports', NEW j \in DOMAIN reports', i < j
                 PROVE  reports'[i].n < reports'[j].n
      OBVIOUS
    <3>1. i \in DOMAIN reports
      BY <2>4
    <3>2. CASE j \in DOMAIN reports
      BY <2>4, <3>1, <3>2 DEF ReportsInv, ReportsTrue
    <3>3. CASE j = Len(reports) + 1
      BY <2>4, <2>5, <3>1, <3>3
    <3> QED BY <2>4, <3>2, <3>3
  <2>9. \A i \in DOMAIN reports' : reports'[i].on = { a \in Actuators : OnAfter(reports'[i].after, a) }
    <3>1. on = { a \in Actuators : OnAfter(Len(answers), a) }
      BY <1>0 DEF ReportsInv, StatusInv
    <3> QED BY <2>2, <2>4, <3>1 DEF ReportsInv, ReportsTrue
  <2>10. ReportsTrue'
    <3>1. \A i \in DOMAIN reports' : reports'[i].on = { a \in Actuators : OnAfter(reports[i].after, a)' }
      BY <2>6, <2>9 DEF OnAfter
    <3> QED BY <2>8, <3>1 DEF ReportsTrue
  <2> QED BY <2>7, <2>10 DEF ReportsInv
<1> QED BY <1>1, <1>2 DEF Report

(* The steps of the callback and of the sensor task leave the cloud task   *)
(* and its block alone.                                                    *)
LEMMA OthersKeepCloud ==
  ASSUME IInv,
         \/ Subscribe \/ CallbackPut \/ (\E kind \in Commands : Receive(kind))
         \/ SensorInit \/ SensorStart \/ SensorRead \/ GpsRead \/ SensorPut \/ SensorSleep
  PROVE  /\ UNCHANGED <<on, answers, reports, cloudPc, cloudMsg, tree>>
         /\ cloudMsg # NULL => heap'[cloudMsg] = heap[cloudMsg]
<1> USE DEF heapVars, cloudVars, sensorVars, engineVars
<1>1. UNCHANGED <<on, answers, reports, cloudPc, cloudMsg, tree>>
  BY DEF Subscribe, CallbackPut, Receive, SensorInit, SensorStart, SensorRead, GpsRead,
         SensorPut, SensorSleep
<1>2. ASSUME cloudMsg # NULL PROVE heap'[cloudMsg] = heap[cloudMsg]
  <2>1. cloudMsg # engineMsg /\ cloudMsg # sensorMsg /\ cloudMsg \in Blocks /\ heap[cloudMsg] # NULL
    BY <1>2, CloudAssumption DEF IInv, TypeOK, HeapOwnership
  <2>2. UNCHANGED heap \/ \E b \in Blocks \ {cloudMsg} : \E msg : heap' = [heap EXCEPT ![b] = msg]
    <3>1. CASE CallbackPut
      BY <2>1, <3>1 DEF CallbackPut, PutSucceeds, PutFails, Free, IInv, Places, TypeOK
    <3>2. CASE SensorPut
      BY <2>1, <3>2 DEF SensorPut, PutSucceeds, PutFails, Free, IInv, Places, TypeOK
    <3>3. ASSUME NEW kind \in Commands, Receive(kind)
          PROVE  UNCHANGED heap \/ \E b \in Blocks \ {cloudMsg} : \E msg : heap' = [heap EXCEPT ![b] = msg]
      BY <2>1, <3>3 DEF Receive, Store
    <3>4. CASE SensorRead \/ GpsRead
      BY <2>1, <3>4 DEF SensorRead, GpsRead, DropReading, Store
    <3> QED BY <3>1, <3>2, <3>3, <3>4 DEF Subscribe, SensorInit, SensorStart, SensorSleep
  <2> QED BY <2>1, <2>2 DEF IInv, TypeOK
<1> QED BY <1>1, <1>2

(* Every step keeps the status. *)
LEMMA ReportsNext == IInv /\ OrderInv /\ ReportsInv /\ [Next]_vars => ReportsInv'
<1> SUFFICES ASSUME IInv, OrderInv, ReportsInv, [Next]_vars PROVE ReportsInv'
  OBVIOUS
<1> USE DEF heapVars, cloudVars, sensorVars, engineVars
<1>0. CASE UNCHANGED vars
  BY <1>0, ReportsQuiet DEF vars, Kind
<1>1. CASE \/ Subscribe \/ CallbackPut \/ (\E kind \in Commands : Receive(kind))
           \/ SensorInit \/ SensorStart \/ SensorRead \/ GpsRead \/ SensorPut \/ SensorSleep
  <2>1. cloudPc = "respond" => cloudMsg # NULL
    BY DEF IInv, Places
  <2>2. UNCHANGED <<on, answers, reports, cloudPc, cloudMsg>> /\ cloudPc = "respond" => Kind' = Kind
    BY <1>1, <2>1, OthersKeepCloud DEF Kind
  <2>3. UNCHANGED <<on, answers, reports, cloudPc, cloudMsg>>
    BY <1>1, OthersKeepCloud
  <2> QED BY <2>2, <2>3, ReportsQuiet
<1>2. CASE WifiUp \/ CreateQueue \/ Connect \/ Get \/ ParseCommand \/ Fault \/ Release
  <2>1. UNCHANGED <<on, answers, reports>> /\ cloudPc # "respond" /\ cloudPc' # "respond"
    BY <1>2 DEF WifiUp, CreateQueue, Connect, Get, ParseCommand, Fault, Release
  <2> QED BY <2>1, ReportsQuiet
<1>3. CASE RejectCommand
  BY <1>3, AnswerType, ReportsAnswer DEF RejectCommand, Respond
<1>4. CASE RespondToCommand \/ RespondToControl
  BY <1>4, AnswerType, ReportsAnswer DEF RespondToCommand, RespondToControl, Respond
<1>5. CASE Report
  BY <1>5, ReportsReport
<1>6. CASE ExecuteCommand
  <2>1. UNCHANGED <<heap, cloudMsg, answers, reports>> /\ cloudPc = "execute"
    BY <1>6 DEF ExecuteCommand
  <2>2. CASE ~IsKnown
    BY <1>6, <2>1, <2>2, ReportsQuiet DEF ExecuteCommand
  <2>3. CASE IsKnown
    <3>0. cloudPc' = "respond" /\ Switch(Kind.target, Kind.value)
      BY <1>6, <2>3 DEF ExecuteCommand
    <3>1. /\ cloudPc' = "respond" /\ Kind' = Kind /\ Kind.target \in Actuators
          /\ on' = IF Kind.value = "ON" THEN on \cup {Kind.target} ELSE on \ {Kind.target}
      <4>1. Kind' = Kind
        BY <2>1 DEF Kind
      <4> QED BY <2>3, <3>0, <4>1 DEF Switch, IsKnown
    <3>2. on = { a \in Actuators : OnAfter(Len(answers), a) }
      BY <2>1 DEF ReportsInv, StatusInv
    <3>3. on' = { a \in Actuators : IF a = Kind.target THEN Kind.value = "ON" ELSE OnAfter(Len(answers), a) }
      <4>1. \A a \in Actuators : a \in on <=> OnAfter(Len(answers), a)
        BY <3>2
      <4>2. \A a \in Actuators : a \in on' <=> IF a = Kind.target THEN Kind.value = "ON"
                                                 ELSE OnAfter(Len(answers), a)
        BY <3>1, <4>1
      <4>3. on' \subseteq Actuators
        BY <3>1, <3>2
      <4> QED BY <4>2, <4>3
    <3>4. \A k, a : OnAfter(k, a)' <=> OnAfter(k, a)
      BY <2>1 DEF OnAfter
    <3>5. StatusInv'
      BY <2>1, <3>1, <3>3, <3>4 DEF ReportsInv, StatusInv
    <3>6. ReportsTrue'
      BY <2>1, <3>4 DEF ReportsInv, ReportsTrue
    <3> QED BY <3>5, <3>6 DEF ReportsInv
  <2> QED BY <2>2, <2>3
<1> QED BY <1>0, <1>1, <1>2, <1>3, <1>4, <1>5, <1>6, Steps

-----------------------------------------------------------------------------
(* Steps and the trees of the commands.                                    *)

(* An answer with a success code is one success more. *)
LEMMA SuccessCount ==
  ASSUME answers \in Seq(Answer), NEW r \in Answer, answers' = Append(answers, r)
  PROVE  /\ IsFiniteSet(Successes) /\ Cardinality(Successes) \in Nat
         /\ r.code = 1 => Successes' = Successes
         /\ r.code = 0 => Cardinality(Successes') = Cardinality(Successes) + 1
<1>1. /\ DOMAIN answers' = DOMAIN answers \cup {Len(answers) + 1}
      /\ DOMAIN answers = 1..Len(answers) /\ Len(answers) \in Nat
      /\ \A k \in DOMAIN answers : answers'[k] = answers[k]
      /\ answers'[Len(answers) + 1] = r
  BY Appended
<1>2. IsFiniteSet(Successes) /\ Cardinality(Successes) \in Nat
  <2>1. IsFiniteSet(1..Len(answers))
    BY <1>1, FS_Interval
  <2>2. Successes \subseteq 1..Len(answers)
    BY <1>1 DEF Successes
  <2> QED BY <2>1, <2>2, FS_Subset, FS_CardinalityType
<1>3. ASSUME r.code = 1 PROVE Successes' = Successes
  BY <1>1, <1>3 DEF Successes
<1>4. ASSUME r.code = 0 PROVE Cardinality(Successes') = Cardinality(Successes) + 1
  <2>1. Successes' = Successes \cup {Len(answers) + 1} /\ Len(answers) + 1 \notin Successes
    BY <1>1, <1>4 DEF Successes
  <2> QED BY <1>2, <2>1, FS_AddElement
<1> QED BY <1>2, <1>3, <1>4

(* Every step keeps the account of the trees. *)
LEMMA TreesNext == IInv /\ TreeInv /\ [Next]_vars => TreeInv'
<1> SUFFICES ASSUME IInv, TreeInv, [Next]_vars, Commands \subseteq Profile PROVE TreeInv'
  BY DEF TreeInv
<1> USE DEF TreeInv, heapVars, cloudVars, sensorVars, engineVars
<1> DEFINE Kinds == \A b \in Blocks : heap[b] # NULL /\ heap[b].type = "cmd" => heap[b].kind \in Profile
<1>s. app' = app
  BY Steps DEF vars
<1>t. heap \in [Blocks -> CommandMsg \cup ReportMsg \cup {NULL}] /\ leaked \in Nat
  BY DEF IInv, TypeOK
<1>k. UNCHANGED heap \/ (\E b : heap' = [heap EXCEPT ![b] = NULL]) => Kinds'
  BY <1>t
<1>0. CASE UNCHANGED vars
  BY <1>0 DEF vars, TreesReleased, Successes
<1>1. CASE \/ Subscribe \/ CallbackPut \/ (\E kind \in Commands : Receive(kind))
           \/ SensorInit \/ SensorStart \/ SensorRead \/ GpsRead \/ SensorPut \/ SensorSleep
  <2>1. UNCHANGED <<app, cloudPc, tree, leaked, answers>>
    BY <1>1, <1>s DEF Subscribe, CallbackPut, Receive, SensorInit, SensorStart, SensorRead,
       GpsRead,
                SensorPut, SensorSleep
  <2>2. Kinds'
    <3>1. CASE Subscribe \/ CallbackPut \/ SensorInit \/ SensorStart \/ SensorPut \/ SensorSleep
      BY <3>1, <1>k DEF Subscribe, CallbackPut, SensorInit, SensorStart, SensorPut, SensorSleep,
                        PutSucceeds, PutFails, Free
    <3>2. CASE SensorRead \/ GpsRead
      <4>1. UNCHANGED heap \/ \E b \in Blocks : heap' = [heap EXCEPT ![b] = [type |-> "report", n |-> samples + 1]]
        BY <3>2 DEF SensorRead, GpsRead, DropReading, Store
      <4> QED BY <1>t, <4>1
    <3>3. ASSUME NEW kind \in Commands, Receive(kind) PROVE Kinds'
      <4>1. UNCHANGED heap \/ \E b \in Blocks : heap' = [heap EXCEPT ![b] = [type |-> "cmd", n |-> delivered + 1, kind |-> kind]]
        BY <3>3 DEF Receive, Store
      <4> QED BY <1>t, <4>1
    <3> QED BY <1>1, <3>1, <3>2, <3>3
  <2> QED BY <2>1, <2>2 DEF TreesReleased, Successes
<1>2. CASE WifiUp \/ CreateQueue \/ Connect \/ Get
  <2>1. UNCHANGED <<app, heap, tree, leaked, answers>>
        /\ cloudPc \in {"wifi", "create", "connect", "get"}
        /\ cloudPc' \in {"create", "connect", "get", "parse", "report"}
    BY <1>2, <1>s DEF WifiUp, CreateQueue, Connect, Get
  <2> QED BY <2>1 DEF TreesReleased, Successes
<1>3. CASE ParseCommand \/ RejectCommand \/ Fault \/ Report
  <2>1. UNCHANGED <<app, heap, leaked>>
    BY <1>3, <1>s DEF ParseCommand, RejectCommand, Fault, Report
  <2>2. /\ cloudPc \in {"parse", "reject", "execute", "report"}
        /\ cloudPc' \in {"reject", "execute", "fault", "free"}
        /\ tree' \in {"none", "live"}
        /\ cloudPc' \in {"reject", "free"} => tree' = "none"
    BY <1>3 DEF ParseCommand, RejectCommand, Fault, Report
  <2>3. Successes' = Successes
    <3>1. CASE RejectCommand
      <4>1. answers \in Seq(Answer)
        BY DEF IInv, TypeOK
      <4>2. [n |-> heap[cloudMsg].n, code |-> 1, kind |-> Kind] \in Answer
        BY <3>1, AnswerType DEF RejectCommand
      <4> QED BY <3>1, <4>1, <4>2, SuccessCount DEF RejectCommand, Respond
    <3> QED BY <1>3, <3>1 DEF ParseCommand, Fault, Report, Successes
  <2> QED BY <2>1, <2>2, <2>3, <1>k DEF TreesReleased
<1>4. CASE ExecuteCommand
  <2>1. Kind \in Profile
    <3>1. cloudMsg \in Blocks /\ heap[cloudMsg] \in CommandMsg
      BY <1>4 DEF ExecuteCommand, IInv, Places, TypeOK
    <3>2. heap[cloudMsg] # NULL /\ heap[cloudMsg].type = "cmd"
      BY <3>1, NullAssumption DEF CommandMsg
    <3> QED BY <3>1, <3>2 DEF Kind
  <2>2. TreeAfterLookup = tree /\ Kind.target \in Actuators
    BY <2>1 DEF TreeAfterLookup, Profile, Actuators
  <2>3. UNCHANGED <<app, heap, leaked, answers, tree>> /\ cloudPc = "execute"
        /\ cloudPc' = IF tree # "none" THEN "respond" ELSE "free"
    BY <1>4, <1>s, <2>2 DEF ExecuteCommand, IsKnown
  <2> QED BY <2>3, <1>k DEF TreesReleased, Successes
<1>5. CASE (RespondToCommand /\ app = "agriculture") \/ (RespondToControl /\ app # "agriculture")
  <2>1. UNCHANGED <<app, heap, leaked>> /\ cloudPc = "respond" /\ cloudPc' = "free" /\ tree = "live"
        /\ tree' = IF app = "agriculture" THEN "deleted" ELSE "live"
    BY <1>5, <1>s DEF RespondToCommand, RespondToControl, Delete
  <2>2. Cardinality(Successes') = Cardinality(Successes) + 1 /\ Cardinality(Successes) \in Nat
    <3> DEFINE r == [n |-> heap[cloudMsg].n, code |-> 0, kind |-> Kind]
    <3>1. answers \in Seq(Answer)
      BY DEF IInv, TypeOK
    <3>2. r \in Answer
      BY <2>1, AnswerType
    <3>3. answers' = Append(answers, r) /\ r.code = 0
      BY <1>5 DEF RespondToCommand, RespondToControl, Respond
    <3> HIDE DEF r
    <3> QED BY <3>1, <3>2, <3>3, SuccessCount
  <2> QED BY <2>1, <2>2, <1>t, <1>k DEF TreesReleased
<1>6. CASE Release
  <2>1. /\ UNCHANGED <<app, answers>> /\ cloudPc = "free" /\ cloudPc' = "get" /\ tree' = "none"
        /\ leaked' = IF tree = "live" THEN leaked + 1 ELSE leaked
        /\ \E b : heap' = [heap EXCEPT ![b] = NULL]
    BY <1>6, <1>s DEF Release, Free
  <2> QED BY <2>1, <1>k, <1>t DEF TreesReleased, Successes
<1> QED BY <1>0, <1>1, <1>2, <1>3, <1>4, <1>5, <1>6, Steps

-----------------------------------------------------------------------------
(* Steps and the answers.                                                  *)

(* Every step keeps what is known of the answers. *)
LEMMA AnsweredNext == IInv /\ OrderInv /\ AnsweredInv /\ [Next]_vars => AnsweredInv'
<1> SUFFICES ASSUME IInv, OrderInv, AnsweredInv, [Next]_vars PROVE AnsweredInv'
  OBVIOUS
<1> USE DEF AnsweredInv, IsAnswered, Kind, heapVars, cloudVars, sensorVars, engineVars
<1>0. CASE UNCHANGED vars
  BY <1>0 DEF vars
<1>1. CASE \/ Subscribe \/ CallbackPut \/ (\E kind \in Commands : Receive(kind))
           \/ SensorInit \/ SensorStart \/ SensorRead \/ GpsRead \/ SensorPut \/ SensorSleep
  <2>1. cloudPc \in {"execute", "respond", "free"} => cloudMsg # NULL
    BY DEF IInv, Places
  <2> QED BY <1>1, <2>1, OthersKeepCloud
<1>2. CASE WifiUp \/ CreateQueue \/ Connect \/ Get \/ Fault \/ Release
  <2>1. cloudPc' \notin {"execute", "respond", "free"}
    BY <1>2 DEF WifiUp, CreateQueue, Connect, Get, Fault, Release
  <2> QED BY <2>1
<1>3. CASE ParseCommand
  BY <1>3 DEF ParseCommand
<1>4. CASE Report
  <2>1. heap'[cloudMsg'].type = "report"
    BY <1>4 DEF Report, IInv, Places, ReportMsg
  <2> QED BY <1>4, <2>1 DEF Report
<1>5. ASSUME NEW code \in {0, 1}, Respond(code), cloudPc \in {"reject", "respond"},
             UNCHANGED <<heap, cloudMsg>>, cloudPc' \in {"execute", "free"},
             cloudPc' = "execute" => tree' = "none"
      PROVE  AnsweredInv'
  <2> DEFINE r == [n |-> heap[cloudMsg].n, code |-> code, kind |-> Kind]
  <2>1. r \in Answer /\ answers \in Seq(Answer)
    BY <1>5, AnswerType DEF IInv, TypeOK
  <2>2. answers' = Append(answers, r) /\ r.n = heap[cloudMsg].n
    BY <1>5 DEF Respond
  <2> HIDE DEF r
  <2>3. Len(answers) + 1 \in DOMAIN answers' /\ answers'[Len(answers) + 1] = r
    BY <2>1, <2>2, Appended
  <2> QED BY <1>5, <2>2, <2>3
<1>6. CASE RejectCommand
  <2>1. tree' = "none"
    BY <1>6 DEF RejectCommand, OrderInv, RejectedHasNoTree
  <2> QED BY <1>5, <1>6, <2>1 DEF RejectCommand
<1>7. CASE RespondToCommand \/ RespondToControl
  BY <1>5, <1>7 DEF RespondToCommand, RespondToControl
<1>8. CASE ExecuteCommand
  <2>1. Kind.target \in Actuators \cup {"other", "unnamed", "text"}
    BY <1>8 DEF ExecuteCommand, IInv, Places, CommandMsg, CommandKinds
  <2>2. UNCHANGED <<heap, cloudMsg, answers>> /\ cloudPc = "execute"
        /\ cloudPc' = (IF IsKnown THEN "respond" ELSE "free")
    BY <1>8 DEF ExecuteCommand
  <2> QED BY <2>1, <2>2 DEF IsKnown
<1> QED BY <1>0, <1>1, <1>2, <1>3, <1>4, <1>6, <1>7, <1>8, Steps

-----------------------------------------------------------------------------
(* The service invariant.                                                  *)

(* It holds when the board starts: nothing was delivered, read or sent. *)
LEMMA InitService == Init => SInv
<1> SUFFICES ASSUME Init PROVE SInv
  OBVIOUS
<1>0. /\ queue = <<>> /\ answers = <<>> /\ reports = <<>> /\ engineMsg = NULL /\ sensorMsg = NULL
      /\ cloudMsg = NULL /\ cloudPc = "wifi" /\ tree = "none" /\ on = {} /\ leaked = 0
      /\ heap = [b \in Blocks |-> NULL]
  BY DEF Init
<1>1. OrderInv
  BY <1>0 DEF OrderInv, InOrder, NewestLast, OldestFirst, AnswersOlder, ReportsOlder,
              RejectedHasNoTree, Queued, Elements, Pending, Unanswered
<1>2. ReportsInv
  BY <1>0 DEF ReportsInv, StatusInv, ReportsTrue, OnAfter
<1>3. Successes = {}
  BY <1>0 DEF Successes
<1>4. TreeInv
  BY <1>0, <1>3, FS_EmptySet DEF TreeInv, TreesReleased
<1>5. AnsweredInv
  BY <1>0 DEF AnsweredInv
<1> QED BY <1>1, <1>2, <1>4, <1>5 DEF SInv

(* It holds in every reachable state. *)
LEMMA ServiceInvariance == Spec => [](IInv /\ SInv)
<1>1. Init => IInv /\ SInv
  BY InitInv, InitService
<1>2. IInv /\ SInv /\ [Next]_vars => (IInv /\ SInv)'
  BY NextInv, OrderNext, ReportsNext, TreesNext, AnsweredNext DEF SInv
<1> QED BY <1>1, <1>2, PTL DEF Spec

(* The heap is freed of a command only by the callback, which found no     *)
(* room, or by the cloud task, which has answered it or could not.         *)
THEOREM CloudFreesWhenAnsweredOrFull == Spec => FreedWhenAnsweredOrFull
<1> DEFINE Allowed(b) ==
      \/ b = engineMsg /\ (handle = "failed" \/ Len(queue) = MSGQUEUE_COUNT)
      \/ b = cloudMsg /\ (IsAnswered(heap[b].n) \/ heap[b].kind.target \in {"unnamed", "other"})
<1> DEFINE A == \A b \in Blocks : heap[b] # NULL /\ heap[b].type = "cmd" /\ heap'[b] # heap[b] => Allowed(b)
<1>1. IInv /\ SInv /\ [Next]_vars => [A]_vars
  <2> SUFFICES ASSUME IInv, SInv, Next, NEW b \in Blocks,
                      heap[b] # NULL, heap[b].type = "cmd", heap'[b] # heap[b]
               PROVE  Allowed(b)
    OBVIOUS
  <2> USE DEF heapVars, cloudVars, sensorVars, engineVars
  <2>t. heap \in [Blocks -> CommandMsg \cup ReportMsg \cup {NULL}]
    BY DEF IInv, TypeOK
  <2>1. ASSUME NEW c, NEW msg, heap' = [heap EXCEPT ![c] = msg] PROVE b = c
    BY <2>t, <2>1
  <2>2. CASE CallbackPut
    <3>1. ~HasRoom /\ b = engineMsg
      BY <2>2, <2>1 DEF CallbackPut, PutSucceeds, PutFails, Free
    <3>2. handle # "unset" /\ handle \in {"unset", "made", "failed"}
      BY <2>2 DEF CallbackPut, IInv, Places, TypeOK
    <3>3. Len(queue) \in Nat /\ Len(queue) <= MSGQUEUE_COUNT
      BY DEF IInv, TypeOK, QueueOK
    <3> QED BY <3>1, <3>2, <3>3, CloudAssumption DEF HasRoom
  <2>3. CASE Release
    <3>1. b = cloudMsg /\ cloudPc = "free"
      BY <2>3, <2>1 DEF Release, Free
    <3> QED BY <3>1 DEF SInv, AnsweredInv, Kind
  <2>4. CASE SensorPut
    <3>1. heap[sensorMsg].type = "report"
      BY <2>4 DEF SensorPut, IInv, Places, ReportMsg
    <3> QED BY <2>4, <2>1, <3>1 DEF SensorPut, PutSucceeds, PutFails, Free
  <2>5. ASSUME NEW kind \in Commands, Receive(kind) PROVE Allowed(b)
    BY <2>5, <2>1 DEF Receive, Store
  <2>6. CASE SensorRead \/ GpsRead
    BY <2>6, <2>1 DEF SensorRead, GpsRead, DropReading, Store
  <2>7. CASE ~(CallbackPut \/ Release \/ SensorPut \/ (\E kind \in Commands : Receive(kind))
               \/ SensorRead \/ GpsRead)
    <3>1. UNCHANGED heap
      BY <2>7, Steps DEF Subscribe, SensorInit, SensorStart, SensorSleep, WifiUp, CreateQueue,
         Connect, Get, ParseCommand, RejectCommand, Fault, ExecuteCommand, Report,
         RespondToCommand, RespondToControl
    <3> QED BY <3>1
  <2> QED BY <2>2, <2>3, <2>4, <2>5, <2>6, <2>7
<1> QED BY <1>1, ServiceInvariance, PTL DEF Spec, FreedWhenAnsweredOrFull

(* The status of a report is what the answers before it said, and readings *)
(* arrive in the order they were taken, whatever the threads' interleaving *)
(* and the queue's capacity.                                               *)
THEOREM CloudReportsTrue == Spec => []ReportsTrue
<1>1. SInv => ReportsTrue
  BY DEF SInv, ReportsInv
<1> QED BY <1>1, ServiceInvariance, PTL

(* With commands of the product profile the agriculture application deletes *)
(* every tree exactly once; the others lose those they answered 0 to.       *)
THEOREM CloudTreesReleased == Spec => []TreesReleased
<1>1. IInv /\ SInv => TreesReleased
  BY DEF SInv, TreeInv, TreesReleased
<1> QED BY <1>1, ServiceInvariance, PTL

-----------------------------------------------------------------------------
(* The refinement.                                                         *)

(* The blocks with the commands that wait. *)
Waiters == { c \in Queued \cup ({engineMsg} \ {NULL}) : heap[c].type = "cmd" }

(* A command of the heap is one the platform knows. *)
LEMMA CommandType ==
  ASSUME NEW m \in CommandMsg
  PROVE  /\ CommandIn(m) \in Command /\ CommandIn(m) # NULL
         /\ CommandIn(m).n = m.n /\ CommandIn(m).kind = m.kind /\ m.n \in Nat
<1>1. CommandIn(m) \in Command
  BY DEF CommandIn, Command, CommandMsg
<1> QED BY <1>1, NullAssumption DEF CommandIn, CommandMsg

(* The commands that wait and the one being handled depend on the heap     *)
(* only through the blocks in question.                                    *)
LEMMA WaitingFrame ==
  ASSUME Queued' \cup ({engineMsg'} \ {NULL}) = Queued \cup ({engineMsg} \ {NULL}),
         \A c \in Queued \cup ({engineMsg} \ {NULL}) : heap'[c] = heap[c]
  PROVE  Waiting' = Waiting
BY DEF Waiting

(* The service's view of the command in hand depends on the block of the   *)
(* cloud task only.                                                        *)
LEMMA HandledFrame ==
  ASSUME cloudMsg' = cloudMsg, cloudMsg # NULL => heap'[cloudMsg] = heap[cloudMsg]
  PROVE  Handled' = Handled
BY DEF Handled

(* Steps that the service does not see. *)
LEMMA QuietSimulation ==
  ASSUME UNCHANGED <<heap, queue, engineMsg, cloudMsg, delivered, on, answers>>
  PROVE  UNCHANGED Service!serviceVars
<1>1. Queued' = Queued
  BY DEF Queued, Elements
<1>2. Waiting' = Waiting /\ Handled' = Handled
  BY <1>1, WaitingFrame, HandledFrame
<1> QED BY <1>2 DEF Service!serviceVars

(* A block that nobody holds changes, or one of the sensor task's. *)
LEMMA SensorSimulation ==
  ASSUME IInv, SensorRead \/ GpsRead \/ SensorPut
  PROVE  UNCHANGED Service!serviceVars
<1> USE DEF sensorVars, cloudVars, engineVars, heapVars
<1>0. UNCHANGED <<engineMsg, cloudMsg, delivered, on, answers>>
  BY DEF SensorRead, GpsRead, SensorPut
<1>t. heap \in [Blocks -> CommandMsg \cup ReportMsg \cup {NULL}] /\ queue \in Seq(Blocks)
      /\ Queued \subseteq Blocks /\ Waiters \subseteq Blocks
  BY Numbers DEF IInv, TypeOK, Waiters
<1>1. CASE SensorRead \/ GpsRead
  <2>1. CASE UNCHANGED heap
    BY <1>0, <1>1, <2>1, QuietSimulation DEF SensorRead, GpsRead
  <2>2. ASSUME NEW b \in Blocks, NEW msg, Store(b, msg) PROVE UNCHANGED Service!serviceVars
    <3>1. b \notin Queued \cup {engineMsg, cloudMsg} /\ heap' = [heap EXCEPT ![b] = msg]
      BY <2>2 DEF Store, IInv, HeapOwnership
    <3>2. Queued' = Queued
      BY <1>1 DEF SensorRead, GpsRead, Queued, Elements
    <3>3. Waiting' = Waiting /\ Handled' = Handled
      <4>1. \A c \in Queued \cup ({engineMsg} \ {NULL}) : heap'[c] = heap[c]
        BY <1>t, <3>1 DEF IInv, TypeOK
      <4>2. cloudMsg # NULL => heap'[cloudMsg] = heap[cloudMsg]
        BY <1>t, <3>1 DEF IInv, TypeOK
      <4> QED BY <1>0, <3>2, <4>1, <4>2, WaitingFrame, HandledFrame
    <3> QED BY <1>0, <3>3 DEF Service!serviceVars
  <2> QED BY <1>1, <2>1, <2>2 DEF SensorRead, GpsRead, DropReading
<1>2. CASE SensorPut
  <2>0. sensorMsg \in Blocks /\ sensorMsg \notin Queued \cup {engineMsg, cloudMsg}
        /\ heap[sensorMsg].type = "report"
    BY <1>2 DEF SensorPut, IInv, Places, TypeOK, HeapOwnership, ReportMsg
  <2>1. CASE PutSucceeds(sensorMsg)
    <3>1. Queued' = Queued \cup {sensorMsg} /\ heap' = heap
      BY <1>t, <2>0, <2>1, AppendElements DEF PutSucceeds, Queued
    <3>2. Waiters' = Waiters
      BY <1>0, <2>0, <3>1 DEF Waiters
    <3>3. Waiting' = Waiting
      BY <3>1, <3>2 DEF Waiting, Waiters
    <3>4. Handled' = Handled
      BY <1>0, <3>1, HandledFrame
    <3> QED BY <1>0, <3>3, <3>4 DEF Service!serviceVars
  <2>2. CASE PutFails(sensorMsg)
    <3>1. Queued' = Queued /\ heap' = [heap EXCEPT ![sensorMsg] = NULL]
      BY <2>2 DEF PutFails, Free, Queued, Elements
    <3>2. \A c \in Queued \cup ({engineMsg} \ {NULL}) : heap'[c] = heap[c]
      BY <1>t, <2>0, <3>1 DEF IInv, TypeOK
    <3>3. Waiting' = Waiting
      BY <1>0, <3>1, <3>2, WaitingFrame
    <3>4. cloudMsg # NULL => heap'[cloudMsg] = heap[cloudMsg]
      BY <1>t, <2>0, <3>1 DEF IInv, TypeOK
    <3> QED BY <1>0, <3>3, <3>4, HandledFrame DEF Service!serviceVars
  <2> QED BY <1>2, <2>1, <2>2 DEF SensorPut
<1> QED BY <1>1, <1>2

(* A command arrives: accepted or not, it is delivered. *)
LEMMA ReceiveSimulation ==
  ASSUME IInv, NEW kind \in Commands, Receive(kind)
  PROVE  Service!Deliver
<1> USE DEF sensorVars, cloudVars
<1>0. UNCHANGED <<queue, cloudMsg, on, answers>> /\ delivered' = delivered + 1 /\ engineMsg = NULL
  BY DEF Receive, IInv, Places
<1>1. Queued' = Queued /\ Queued \subseteq Blocks
  BY <1>0, Numbers DEF Queued, Elements
<1>t. heap \in [Blocks -> CommandMsg \cup ReportMsg \cup {NULL}] /\ cloudMsg \in Blocks \cup {NULL}
  BY DEF IInv, TypeOK
<1>2. CASE UNCHANGED <<heap, engineMsg>>
  <2>1. Waiting' = Waiting /\ Handled' = Handled
    BY <1>0, <1>1, <1>2, WaitingFrame, HandledFrame
  <2> QED BY <1>0, <2>1 DEF Service!Deliver
<1>3. ASSUME NEW b \in Blocks, engineMsg' = b,
             Store(b, [type |-> "cmd", n |-> delivered + 1, kind |-> kind])
      PROVE  Service!Deliver
  <2> DEFINE msg == [type |-> "cmd", n |-> delivered + 1, kind |-> kind]
  <2> DEFINE c0 == [n |-> delivered + 1, kind |-> kind]
  <2>1. b \notin Queued \cup {cloudMsg} /\ b # NULL /\ msg.type = "cmd" /\ CommandIn(msg) = c0
    BY <1>3, CloudAssumption DEF Store, IInv, HeapOwnership, CommandIn
  <2> HIDE DEF msg
  <2>2. heap' = [heap EXCEPT ![b] = msg]
    BY <1>3 DEF Store, msg
  <2>3. \A c \in Queued \cup ({cloudMsg} \ {NULL}) : heap'[c] = heap[c]
    BY <1>1, <1>t, <2>1, <2>2
  <2>4. heap'[b] = msg
    BY <1>t, <2>2
  <2>5. Handled' = Handled
    BY <1>0, <2>3, HandledFrame
  <2>6. Waiters' = Waiters \cup {b} /\ \A c \in Waiters : heap'[c] = heap[c]
    BY <1>0, <1>1, <1>3, <2>1, <2>3, <2>4 DEF Waiters
  <2>7. Waiting' = Waiting \cup {c0}
    <3>1. Waiting = { CommandIn(heap[c]) : c \in Waiters } /\ Waiting' = { CommandIn(heap'[c]) : c \in Waiters' }
      BY DEF Waiting, Waiters
    <3> QED BY <2>1, <2>4, <2>6, <3>1
  <2> QED BY <1>0, <2>5, <2>7 DEF Service!Deliver
<1> QED BY <1>0, <1>2, <1>3 DEF Receive

(* The callback's Put: invisible, or the newest command is given back. *)
LEMMA PutSimulation ==
  ASSUME IInv, OrderInv, CallbackPut
  PROVE  Service!Refuse \/ UNCHANGED Service!serviceVars
<1> USE DEF sensorVars, cloudVars
<1>0. UNCHANGED <<cloudMsg, on, answers, delivered>> /\ engineMsg' = NULL
  BY DEF CallbackPut
<1>1. engineMsg \in Blocks /\ engineMsg # NULL /\ engineMsg \notin Queued \cup {cloudMsg}
      /\ heap[engineMsg].type = "cmd"
  BY DEF CallbackPut, IInv, Places, TypeOK, HeapOwnership, CommandMsg
<1>t. heap \in [Blocks -> CommandMsg \cup ReportMsg \cup {NULL}] /\ queue \in Seq(Blocks)
      /\ Queued \subseteq Blocks /\ cloudMsg \in Blocks \cup {NULL}
  BY Numbers DEF IInv, TypeOK
<1>2. CASE PutSucceeds(engineMsg)
  <2>1. Queued' = Queued \cup {engineMsg} /\ heap' = heap
    BY <1>1, <1>2, <1>t, AppendElements DEF PutSucceeds, Queued
  <2>2. Waiting' = Waiting /\ Handled' = Handled
    BY <1>0, <1>1, <2>1, WaitingFrame, HandledFrame
  <2> QED BY <1>0, <2>2 DEF Service!serviceVars
<1>3. CASE PutFails(engineMsg)
  <2>1. Queued' = Queued /\ heap' = [heap EXCEPT ![engineMsg] = NULL]
    BY <1>3 DEF PutFails, Free, Queued, Elements
  <2>2. \A c \in Queued \cup ({cloudMsg} \ {NULL}) : heap'[c] = heap[c]
    BY <1>1, <1>t, <2>1
  <2>3. Handled' = Handled
    BY <1>0, <2>2, HandledFrame
  <2>4. Waiters = Waiters' \cup {engineMsg} /\ \A c \in Waiters' : heap'[c] = heap[c]
    BY <1>0, <1>1, <2>1, <2>2 DEF Waiters
  <2>5. heap[engineMsg].n = delivered
    BY <1>1 DEF OrderInv, NewestLast, Newest
  <2>6. \A c \in Waiters' : heap[c].n # delivered
    <3>1. \A c \in Waiters' : c \in Queued /\ heap[c].type = "cmd"
      BY <1>0, <2>1, <2>4 DEF Waiters
    <3>2. \A c \in Queued : heap[c].type = "cmd" => heap[c].n < heap[engineMsg].n
      BY <1>1 DEF OrderInv, NewestLast
    <3> QED BY <2>5, <3>1, <3>2, Numbers
  <2>7. Waiting = { CommandIn(heap[c]) : c \in Waiters } /\ Waiting' = { CommandIn(heap'[c]) : c \in Waiters' }
    BY DEF Waiting, Waiters
  <2> DEFINE refused == CommandIn(heap[engineMsg])
  <2>8. Waiting' = Waiting \ {refused} /\ refused \in Waiting /\ refused.n = delivered
    <3>1. \A c \in Waiters' : CommandIn(heap[c]) # refused
      BY <2>5, <2>6 DEF CommandIn
    <3>2. Waiting = { CommandIn(heap[c]) : c \in Waiters' } \cup {refused}
      BY <2>4, <2>7
    <3>3. Waiting' = { CommandIn(heap[c]) : c \in Waiters' }
      BY <2>4, <2>7
    <3> QED BY <2>5, <3>1, <3>2, <3>3 DEF CommandIn
  <2> QED BY <1>0, <2>3, <2>8 DEF Service!Refuse
<1> QED BY <1>2, <1>3 DEF CallbackPut

(* The cloud task takes a message: the oldest command, or a reading. *)
LEMMA GetSimulation ==
  ASSUME IInv, OrderInv, Get
  PROVE  Service!Take \/ UNCHANGED Service!serviceVars
<1> USE DEF sensorVars, engineVars
<1> DEFINE h == Head(queue)
<1>1. /\ h \in Queued /\ Queued' = Queued \ {h} /\ h # engineMsg /\ h # NULL
      /\ cloudMsg = NULL /\ cloudMsg' = h
      /\ UNCHANGED <<heap, engineMsg, delivered, on, answers>>
  <2>1. h \in Queued /\ h \in Blocks /\ Queued' = Queued \ {h}
    BY TailElements DEF Get, IInv, TypeOK, HeapOwnership, Queued
  <2>2. h # NULL /\ h # engineMsg
    BY <2>1, CloudAssumption DEF IInv, HeapOwnership
  <2> QED BY <2>1, <2>2 DEF Get, IInv, Places
<1> HIDE DEF h
<1>2. Waiters' = Waiters \ {h}
  BY <1>1 DEF Waiters
<1>3. Waiting = { CommandIn(heap[c]) : c \in Waiters } /\ Waiting' = { CommandIn(heap[c]) : c \in Waiters' }
  BY <1>1 DEF Waiting, Waiters
<1>4. CASE heap[h].type = "cmd"
  <2>1. h \in Waiters /\ Handled = NULL /\ Handled' = CommandIn(heap[h])
    BY <1>1, <1>4 DEF Waiters, Handled
  <2>2. \A c \in Waiters' : heap[h].n < heap[c].n
    <3>1. OldestFirst'
      BY OrderTake DEF OrderInv
    <3>2. \A c \in Waiters' : c \in Pending' /\ heap'[c].type = "cmd"
      BY <1>1, <1>2 DEF Waiters, Pending
    <3> QED BY <1>1, <1>4, <3>1, <3>2 DEF OldestFirst
  <2>3. \A c \in Waiters : heap[c].n \in Nat
    BY Numbers DEF Waiters, Pending
  <2> DEFINE taken == CommandIn(heap[h])
  <2>4. Waiting' = Waiting \ {taken} /\ taken \in Waiting
    <3>1. \A c \in Waiters' : CommandIn(heap[c]) # taken
      BY <2>1, <2>2, <2>3, <1>2 DEF CommandIn
    <3>2. Waiting = { CommandIn(heap[c]) : c \in Waiters' } \cup {taken}
      BY <1>2, <1>3, <2>1
    <3> QED BY <1>3, <3>1, <3>2
  <2>5. \A d \in Waiting : taken.n <= d.n
    BY <1>2, <1>3, <2>1, <2>2, <2>3 DEF CommandIn
  <2>6. NULL = Handled /\ Handled' = taken
    BY <2>1
  <2> HIDE DEF taken
  <2> QED BY <1>1, <2>4, <2>5, <2>6 DEF Service!Take
<1>5. CASE heap[h].type # "cmd"
  <2>1. Waiting' = Waiting
    BY <1>2, <1>3, <1>5 DEF Waiters
  <2>2. Handled' = NULL /\ Handled = NULL
    BY <1>1, <1>5 DEF Handled
  <2> QED BY <1>1, <2>1, <2>2 DEF Service!serviceVars
<1> QED BY <1>4, <1>5

(* oc_mqtt_profile_cmdresp: the answer to the command being handled; the   *)
(* success code only while the actuator is as the command asks.            *)
LEMMA AnswerSimulation ==
  ASSUME IInv, SInv, Unanswered, cloudPc \in {"reject", "respond"}, NEW code \in {0, 1},
         code = 0 => cloudPc = "respond", Respond(code),
         UNCHANGED <<heap, queue, engineMsg, cloudMsg, delivered, on>>
  PROVE  Service!Answer
<1>1. cloudMsg # NULL /\ heap[cloudMsg].type = "cmd" /\ heap[cloudMsg] \in CommandMsg
  BY DEF IInv, Places, CommandMsg
<1>2. /\ Handled = CommandIn(heap[cloudMsg]) /\ Handled # NULL
      /\ Handled.n = heap[cloudMsg].n /\ Handled.kind = Kind /\ Handled.n \in Nat
  BY <1>1, CommandType DEF Handled, Kind
<1>3. Queued' = Queued
  BY DEF Queued, Elements
<1>4. Waiting' = Waiting /\ Handled' = Handled
  BY <1>3, WaitingFrame, HandledFrame
<1>5. answers' = Append(answers, [n |-> Handled.n, code |-> code, kind |-> Handled.kind])
  BY <1>2 DEF Respond
<1>6. Handled.n \notin Service!Answered
  <2>1. \A k \in DOMAIN answers : answers[k].n # Handled.n
    BY <1>1, <1>2, Numbers DEF SInv, OrderInv, AnswersOlder
  <2> QED BY <2>1 DEF Service!Answered
<1>7. ASSUME code = 0 PROVE Service!HasEffect
  <2>1. Kind.target \in Actuators /\ (Kind.target \in on <=> Kind.value = "ON")
    BY <1>7 DEF SInv, AnsweredInv, ReportsInv, StatusInv
  <2> QED BY <1>2, <2>1 DEF Service!HasEffect, Service!IsAboutActuator
<1> QED BY <1>2, <1>4, <1>5, <1>6, <1>7 DEF Service!Answer

(* Every step is a step of the service or changes nothing it shows. *)
LEMMA ServiceSimulation ==
  IInv /\ SInv /\ [Next]_vars => [Service!ServiceNext]_(Service!serviceVars)
<1> SUFFICES ASSUME IInv, SInv, [Next]_vars
             PROVE  Service!ServiceNext \/ UNCHANGED Service!serviceVars
  OBVIOUS
<1> USE DEF heapVars, cloudVars, sensorVars, engineVars, SInv
<1>0. CASE UNCHANGED vars
  BY <1>0, QuietSimulation DEF vars
<1>1. CASE \/ Subscribe \/ SensorInit \/ SensorStart \/ SensorSleep \/ WifiUp \/ CreateQueue \/ Connect
           \/ ParseCommand \/ Fault \/ Report \/ (ExecuteCommand /\ ~IsKnown)
  <2>1. UNCHANGED <<heap, queue, engineMsg, cloudMsg, delivered, on, answers>>
    BY <1>1 DEF Subscribe, SensorInit, SensorStart, SensorSleep, WifiUp, CreateQueue, Connect,
                ParseCommand, Fault, Report, ExecuteCommand
  <2> QED BY <2>1, QuietSimulation
<1>2. CASE SensorRead \/ GpsRead \/ SensorPut
  BY <1>2, SensorSimulation
<1>3. CASE \E kind \in Commands : Receive(kind)
  BY <1>3, ReceiveSimulation DEF Service!ServiceNext
<1>4. CASE CallbackPut
  BY <1>4, PutSimulation DEF Service!ServiceNext
<1>5. CASE Get
  BY <1>5, GetSimulation DEF Service!ServiceNext
<1>6. CASE RejectCommand \/ RespondToCommand \/ RespondToControl
  <2>1. UNCHANGED <<heap, queue, engineMsg, cloudMsg, delivered, on>> /\ Unanswered
        /\ cloudPc \in {"reject", "respond"}
        /\ \E code \in {0, 1} : Respond(code) /\ (code = 0 => cloudPc = "respond")
    BY <1>6 DEF RejectCommand, RespondToCommand, RespondToControl, Unanswered
  <2> QED BY <2>1, AnswerSimulation DEF Service!ServiceNext
<1>7. CASE ExecuteCommand /\ IsKnown
  <2>0. cloudMsg # NULL /\ heap[cloudMsg].type = "cmd" /\ heap[cloudMsg] \in CommandMsg
    BY <1>7 DEF ExecuteCommand, IInv, Places, CommandMsg
  <2>1. Handled # NULL /\ Handled.kind = Kind
    BY <2>0, CommandType DEF Handled, Kind
  <2>2. UNCHANGED <<heap, queue, engineMsg, cloudMsg, delivered, answers>>
        /\ Switch(Kind.target, Kind.value) /\ Kind.target \in Actuators
    BY <1>7 DEF ExecuteCommand, IsKnown
  <2>3. Queued' = Queued
    BY <2>2 DEF Queued, Elements
  <2>4. Waiting' = Waiting /\ Handled' = Handled
    BY <2>2, <2>3, WaitingFrame, HandledFrame
  <2>6. Service!Switch
    BY <2>1, <2>2, <2>4 DEF Service!Switch, Service!IsAboutActuator, Switch
  <2> QED BY <2>6 DEF Service!ServiceNext
<1>8. CASE Release
  <2>0. /\ cloudMsg \in Blocks /\ cloudMsg # NULL /\ cloudMsg \notin Queued \cup {engineMsg}
        /\ UNCHANGED <<queue, engineMsg, delivered, on, answers>> /\ cloudMsg' = NULL
        /\ heap' = [heap EXCEPT ![cloudMsg] = NULL]
        /\ heap \in [Blocks -> CommandMsg \cup ReportMsg \cup {NULL}] /\ engineMsg \in Blocks \cup {NULL}
    BY <1>8 DEF Release, Free, IInv, Places, TypeOK, HeapOwnership
  <2>1. Queued' = Queued /\ Queued \subseteq Blocks
    BY <2>0, Numbers DEF Queued, Elements
  <2>2. \A c \in Queued \cup ({engineMsg} \ {NULL}) : heap'[c] = heap[c]
    BY <2>0, <2>1
  <2>3. Waiting' = Waiting
    BY <2>0, <2>1, <2>2, WaitingFrame
  <2>4. Handled' = NULL
    BY <2>0 DEF Handled
  <2>5. CASE Handled = NULL
    BY <2>0, <2>3, <2>4, <2>5 DEF Service!serviceVars
  <2>6. CASE Handled # NULL
    <3>1. heap[cloudMsg].type = "cmd" /\ Handled = CommandIn(heap[cloudMsg])
      BY <2>6 DEF Handled
    <3>2. Kind.target \in Actuators => IsAnswered(Handled.n)
      BY <1>8, <3>1 DEF Release, SInv, AnsweredInv, CommandIn, Actuators
    <3>3. Service!IsAboutActuator => Handled.n \in Service!Answered
      BY <3>1, <3>2 DEF Service!IsAboutActuator, Service!Answered, IsAnswered, CommandIn, Kind
    <3> QED BY <2>0, <2>3, <2>4, <2>6, <3>3 DEF Service!ServiceNext, Service!Finish
  <2> QED BY <2>5, <2>6
<1> QED BY <1>0, <1>1, <1>2, <1>3, <1>4, <1>5, <1>6, <1>7, <1>8, Steps

(* The application keeps what CommandService promises the platform: a      *)
(* command is refused only while it is the newest, the others are taken    *)
(* oldest first; each that names an actuator is answered once, with the    *)
(* success code only while the actuator is as the command asks.            *)
THEOREM CloudImplementsService == Spec => ImplementsService
<1>1. Init => Service!ServiceInit
  <2> SUFFICES ASSUME Init PROVE Service!ServiceInit
    OBVIOUS
  <2>1. Waiting = {} /\ Handled = NULL
    BY DEF Init, Waiting, Handled, Queued, Elements
  <2> QED BY <2>1 DEF Init, Service!ServiceInit
<1> QED BY <1>1, ServiceInvariance, ServiceSimulation, PTL
        DEF Spec, ImplementsService, Service!ServiceSpec
=============================================================================
