---------------------------- MODULE WifiStaProofs ---------------------------
(***************************************************************************)
(* Theorems about WifiSta, for every timeout, every list a scan can have   *)
(* and any number of scans.                                                *)
(***************************************************************************)
EXTENDS WifiSta, FiniteSetTheorems, TLAPS

-----------------------------------------------------------------------------
(* The inductive invariants.                                               *)

Polling == {"waitScan", "waitConnect"}
Searching == {"init", "failed"} \cup ScanLoop
Choosing == {"select", "waitConnect", "giveUp", "dhcp", "poll", "online"}

(* A poll has a second left, and the interface is only known after a join. *)
TInv ==
  /\ TypeOK
  /\ pc \in Polling => timer > 0
  /\ g_lwip_netif = 1 => pc \in {"dhcp", "poll", "online"}

(* A service that reports in time leaves no scan pending when the wait for *)
(* it ends: the list read, the count and the flag are of one scan.         *)
Reported ==
  /\ pending <= 1
  /\ pc # "waitScan" => pending = 0
  /\ pc \in {"init", "failed", "scan"} => g_staScanSuccess = 0
  /\ pending = 1 => g_staScanSuccess = 0
  /\ g_staScanSuccess = 1 => g_ssid_count = Len(found) /\ found # <<>>
  /\ pc = "checkScan" /\ g_staScanSuccess = 1 => info = found
  /\ pc \in Choosing => g_staScanSuccess = 1 /\ info = found

(* How far the loop over the list has come. *)
Examined ==
  /\ pc \in Searching => tried = {} /\ i = 0
  /\ pc = "select" => tried = 0..(i - 1) /\ i < Len(info)
  /\ pc \in {"waitConnect", "giveUp", "dhcp", "poll", "online"} => tried = 0..i /\ i < Len(info)
  /\ pc = "giveUp" => i = Len(info) - 1

PInv == punctual = 1 => Reported /\ Examined

(* Before the first join the flag is 0; a join of a list with one hotspot  *)
(* of that name is the first.                                              *)
JoinedBefore == \E k \in 0..(i - 1) : k < Len(info) /\ info[k + 1] = "mine"

FlagOfThisJoin ==
  /\ link = "idle" => g_ConnectSuccess = 0
  /\ pc \in Searching => link = "idle"
  /\ pc = "select" /\ link # "idle" => JoinedBefore
  /\ pc = "waitConnect" => Matches
  /\ file = "connect" /\ OneHotspot(info) /\ g_ConnectSuccess = 1 => link = "up"

IInv == TInv /\ PInv /\ FlagOfThisJoin

-----------------------------------------------------------------------------
(* The steps.                                                              *)

(* A step is one of the task's or of the service's. *)
LEMMA Steps ==
  ASSUME Next
  PROVE  /\ UNCHANGED file
         /\ \/ Start \/ StartScan \/ WaitScanResult \/ GetScanInfoList \/ CheckScan
            \/ Join \/ Skip \/ RunOut \/ WaitConnectResult \/ StartDhcp \/ DhcpBound
            \/ ScanStateChanged \/ ConnectionChanged \/ LeaseChanged
BY DEF Next, Task, WifiStaTask, WifiConnect

(* What a scan can have found. *)
LEMMA ListType ==
  ASSUME NEW list \in Lists \cup {<<>>}
  PROVE  list \in Seq({"mine", "other"}) /\ Len(list) \in Nat
<1>1. <<>> \in Seq({"mine", "other"})
  OBVIOUS
<1>2. list \in Seq({"mine", "other"})
  BY <1>1, WifiAssumption
<1> QED BY <1>2

(* The variables keep their types, whoever runs when. *)
LEMMA TInvariance == Spec => []TInv
<1> USE WifiAssumption DEF TInv, Polling, globals, locals, service
<1>1. Init => TInv
  BY DEF Init, TypeOK
<1>2. TInv /\ [Next]_vars => TInv'
  <2> SUFFICES ASSUME TInv, [Next]_vars PROVE TInv'
    OBVIOUS
  <2>0. CASE UNCHANGED vars
    BY <2>0 DEF vars, TypeOK
  <2>a. CASE Next
    <3> USE <2>a
    <3>1. CASE Start
      BY <3>1, Steps DEF Start, TypeOK
    <3>2. CASE StartScan
      BY <3>2, Steps DEF StartScan, TypeOK
    <3>3. CASE WaitScanResult
      BY <3>3, Steps DEF WaitScanResult, TypeOK
    <3>4. CASE GetScanInfoList
      BY <3>4, Steps DEF GetScanInfoList, TypeOK
    <3>5. CASE CheckScan
      BY <3>5, Steps DEF CheckScan, TypeOK
    <3>6. CASE Join
      BY <3>6, Steps DEF Join, NextHotspot, TypeOK
    <3>7. CASE Skip
      BY <3>7, Steps DEF Skip, NextHotspot, TypeOK
    <3>8. CASE RunOut
      BY <3>8, Steps DEF RunOut, TypeOK
    <3>9. CASE WaitConnectResult
      BY <3>9, Steps DEF WaitConnectResult, NextHotspot, TypeOK
    <3>10. CASE DhcpBound
      BY <3>10, Steps DEF DhcpBound, TypeOK
    <3>11. CASE ScanStateChanged
      <4>1. Len(found') \in Nat
        BY <3>11, ListType DEF ScanStateChanged
      <4> QED BY <3>11, <4>1, Steps DEF ScanStateChanged, NonEmptyScanSucceeds, TypeOK
    <3>12. CASE ConnectionChanged
      BY <3>12, Steps DEF ConnectionChanged, FlagIsSet, FlagFollowsState, TypeOK
    <3>13. CASE StartDhcp
      BY <3>13, Steps DEF StartDhcp, TypeOK
    <3>14. CASE LeaseChanged
      BY <3>14, Steps DEF LeaseChanged, TypeOK
    <3> QED BY <3>1, <3>2, <3>3, <3>4, <3>5, <3>6, <3>7, <3>8, <3>9, <3>10, <3>11, <3>12,
             <3>13, <3>14, Steps
  <2> QED BY <2>0, <2>a
<1> QED BY <1>1, <1>2, PTL DEF Spec

-----------------------------------------------------------------------------
(* The scan and the list.                                                  *)

(* With a punctual service the list examined is the one that was counted. *)
LEMMA PInvNext == TInv /\ PInv /\ [Next]_vars => PInv'
<1> SUFFICES ASSUME TInv, PInv, [Next]_vars, punctual' = 1 PROVE Reported' /\ Examined'
  BY DEF PInv
<1> USE WifiAssumption DEF TInv, PInv, Reported, Examined, Searching, ScanLoop, Choosing, Polling,
        globals, locals, service
<1>0. CASE UNCHANGED vars
  BY <1>0 DEF vars
<1>1. CASE Next
  <2> USE <1>1
  <2>0. Len(info) \in Nat /\ Len(found) \in Nat /\ i \in Nat /\ pending \in Nat
        /\ (found # <<>> => Len(found) > 0)
    <3>1. Len(info) \in Nat /\ Len(found) \in Nat /\ found \in Seq({"mine", "other"})
      BY ListType DEF TypeOK
    <3>2. found # <<>> => Len(found) > 0
      BY <3>1
    <3> QED BY <3>1, <3>2 DEF TypeOK
  <2>b. (0..(i - 1)) \cup {i} = 0..i /\ (i + 1) - 1 = i
    BY <2>0
  <2>1. CASE Start
    BY <2>0, <2>1, Steps DEF Start, TypeOK
  <2>2. CASE StartScan
    BY <2>0, <2>2, Steps DEF StartScan, TypeOK
  <2>3. CASE WaitScanResult
    BY <2>0, <2>3, Steps DEF WaitScanResult, TypeOK
  <2>4. CASE GetScanInfoList
    BY <2>0, <2>4, Steps DEF GetScanInfoList, TypeOK
  <2>5. CASE CheckScan
    <3>1. 0..(0 - 1) = {}
      OBVIOUS
    <3> QED BY <2>0, <2>5, <3>1, Steps DEF CheckScan, TypeOK
  <2>6. CASE Join
    <3>1. g_ssid_count = Len(info) /\ tried' = 0..i /\ i < Len(info)
      <4>1. tried = 0..(i - 1) /\ tried' = tried \cup {i}
        BY <2>6, Steps DEF Join
      <4> QED BY <2>b, <2>6, <4>1, Steps DEF Join
    <3>2. Reported'
      BY <2>0, <2>6, Steps DEF Join, NextHotspot
    <3>3. Examined'
      BY <2>0, <2>b, <2>6, <3>1, Steps DEF Join, NextHotspot
    <3> QED BY <3>2, <3>3
  <2>7. CASE Skip
    BY <2>0, <2>7, Steps DEF Skip, NextHotspot, TypeOK
  <2>8. CASE RunOut
    BY <2>0, <2>8, Steps DEF RunOut, TypeOK
  <2>9. CASE WaitConnectResult
    BY <2>0, <2>9, Steps DEF WaitConnectResult, NextHotspot, TypeOK
  <2>10. CASE DhcpBound
    BY <2>0, <2>10, Steps DEF DhcpBound, TypeOK
  <2>11. CASE ScanStateChanged
    <3>1. Len(found') \in Nat /\ (Len(found') > 0 => found' # <<>>)
      BY <2>11, ListType DEF ScanStateChanged
    <3>2. pc = "waitScan" /\ g_staScanSuccess = 0
      BY <2>0, <2>11, Steps DEF ScanStateChanged, TypeOK
    <3> QED BY <2>0, <2>11, <3>1, <3>2, Steps DEF ScanStateChanged, NonEmptyScanSucceeds, TypeOK
  <2>12. CASE ConnectionChanged
    BY <2>12, Steps DEF ConnectionChanged, FlagIsSet, FlagFollowsState, TypeOK
  <2>13. CASE StartDhcp
    BY <2>13, Steps DEF StartDhcp, TypeOK
  <2>14. CASE LeaseChanged
    BY <2>14, Steps DEF LeaseChanged, TypeOK
  <2> QED BY <2>1, <2>2, <2>3, <2>4, <2>5, <2>6, <2>7, <2>8, <2>9, <2>10, <2>11, <2>12,
           <2>13, <2>14, Steps
<1> QED BY <1>0, <1>1

-----------------------------------------------------------------------------
(* The flag and the link.                                                  *)

(* A list with one hotspot of that name has it at one index. *)
LEMMA OneIndex ==
  ASSUME NEW list \in Lists \cup {<<>>}, OneHotspot(list),
         NEW j \in 0..(Len(list) - 1), NEW k \in 0..(Len(list) - 1),
         list[j + 1] = "mine", list[k + 1] = "mine"
  PROVE  j = k
<1> DEFINE S == { n \in DOMAIN list : list[n] = "mine" }
<1>1. Len(list) \in Nat /\ DOMAIN list = 1..Len(list)
  BY ListType
<1>2. IsFiniteSet(S)
  <2>1. IsFiniteSet(1..Len(list))
    BY <1>1, FS_Interval
  <2>2. S \in SUBSET (1..Len(list))
    BY <1>1
  <2> HIDE DEF S
  <2> QED BY <2>1, <2>2, FS_Subset
<1>3. j + 1 \in S /\ k + 1 \in S
  BY <1>1
<1>4. Cardinality(S) <= 1 /\ Cardinality(S) \in Nat
  BY <1>2, FS_CardinalityType DEF OneHotspot
<1> HIDE DEF S
<1>5. Cardinality(S) = 1
  BY <1>2, <1>3, <1>4, FS_EmptySet
<1>6. PICK x : S = {x}
  BY <1>2, <1>5, FS_Singleton
<1> QED BY <1>1, <1>3, <1>6

(* With one hotspot of the name the flag cannot outlive the link. *)
LEMMA FlagNext == TInv /\ FlagOfThisJoin /\ [Next]_vars => FlagOfThisJoin'
<1> SUFFICES ASSUME TInv, FlagOfThisJoin, [Next]_vars PROVE FlagOfThisJoin'
  OBVIOUS
<1> USE DEF TInv, FlagOfThisJoin, Searching, ScanLoop, globals, locals, service
<1>0. CASE UNCHANGED vars
  BY <1>0 DEF vars, Matches, JoinedBefore
<1>1. CASE Next
  <2> USE <1>1
  <2>0. i \in Nat /\ Len(info) \in Nat
    BY ListType DEF TypeOK
  <2>a. ASSUME Matches, i' = i + 1, info' = info PROVE JoinedBefore'
    BY <2>0, <2>a DEF Matches, JoinedBefore
  <2>1. CASE Start
    BY <2>1, Steps DEF Start, TypeOK, JoinedBefore
  <2>2. CASE StartScan
    BY <2>2, Steps DEF StartScan, TypeOK, JoinedBefore
  <2>3. CASE WaitScanResult
    BY <2>3, Steps DEF WaitScanResult, TypeOK, JoinedBefore
  <2>4. CASE GetScanInfoList
    BY <2>4, Steps DEF GetScanInfoList, TypeOK, JoinedBefore
  <2>5. CASE CheckScan
    BY <2>5, Steps DEF CheckScan, TypeOK, JoinedBefore
  <2>6. CASE Join
    <3>1. CASE link' = "joining" /\ pc' = "waitConnect" /\ i' = i
      <4>1. Matches'
        BY <2>6, <3>1 DEF Join, Matches
      <4>2. ASSUME OneHotspot(info), link # "idle" PROVE FALSE
        <5>1. PICK k \in 0..(i - 1) : k < Len(info) /\ info[k + 1] = "mine"
          BY <2>6, <4>2 DEF Join, JoinedBefore
        <5>2. i \in 0..(Len(info) - 1) /\ k \in 0..(Len(info) - 1) /\ k # i
          BY <2>0, <2>6, <5>1 DEF Join, Matches
        <5> QED BY <2>6, <4>2, <5>1, <5>2, OneIndex DEF Join, Matches, TypeOK
      <4> QED BY <2>6, <3>1, <4>1, <4>2, Steps DEF Join, TypeOK
    <3>2. CASE NextHotspot /\ UNCHANGED link
      BY <2>0, <2>6, <2>a, <3>2, Steps DEF Join, NextHotspot
    <3> QED BY <2>6, <3>1, <3>2 DEF Join
  <2>7. CASE Skip
    <3>1. ASSUME JoinedBefore, i' \in {i, i + 1}, info' = info PROVE JoinedBefore'
      <4>1. ASSUME NEW k \in 0..(i - 1) PROVE k \in 0..(i' - 1)
        <5>1. i' = i \/ i' = i + 1
          BY <3>1
        <5> QED BY <2>0, <5>1
      <4>2. PICK k \in 0..(i' - 1) : k < Len(info) /\ info[k + 1] = "mine"
        BY <3>1, <4>1 DEF JoinedBefore
      <4>3. k < Len(info') /\ info'[k + 1] = "mine"
        BY <3>1, <4>2
      <4> QED BY <4>3 DEF JoinedBefore
    <3> QED BY <2>7, <3>1, Steps DEF Skip, NextHotspot, TypeOK
  <2>8. CASE RunOut
    BY <2>8, Steps DEF RunOut, TypeOK, JoinedBefore
  <2>9. CASE WaitConnectResult
    <3>1. Matches /\ (i' = i => Matches')
      BY <2>9 DEF WaitConnectResult, Matches
    <3> QED BY <2>9, <2>a, <3>1, Steps DEF WaitConnectResult, NextHotspot, TypeOK
  <2>10. CASE DhcpBound
    BY <2>10, Steps DEF DhcpBound, TypeOK, JoinedBefore
  <2>11. CASE ScanStateChanged
    BY <2>11, Steps DEF ScanStateChanged, TypeOK, JoinedBefore, Matches
  <2>12. CASE ConnectionChanged
    BY <2>12, Steps DEF ConnectionChanged, FlagIsSet, FlagFollowsState, TypeOK, JoinedBefore,
       Matches
  <2>13. CASE StartDhcp
    BY <2>13, Steps DEF StartDhcp, TypeOK, JoinedBefore, Matches
  <2>14. CASE LeaseChanged
    BY <2>14, Steps DEF LeaseChanged, TypeOK, JoinedBefore, Matches
  <2> QED BY <2>1, <2>2, <2>3, <2>4, <2>5, <2>6, <2>7, <2>8, <2>9, <2>10, <2>11, <2>12,
           <2>13, <2>14, Steps
<1> QED BY <1>0, <1>1
-----------------------------------------------------------------------------
(* The theorems.                                                           *)

(* The inductive invariant holds in every reachable state. *)
LEMMA Invariance == Spec => []IInv
<1>1. Init => PInv /\ FlagOfThisJoin
  BY DEF Init, PInv, Reported, Examined, FlagOfThisJoin, Searching, ScanLoop, Choosing
<1>2. TInv /\ PInv /\ FlagOfThisJoin /\ [Next]_vars => PInv' /\ FlagOfThisJoin'
  BY PInvNext, FlagNext
<1> QED BY <1>1, <1>2, TInvariance, PTL DEF Spec, IInv

(* The variables keep their types. *)
THEOREM WifiTypeCorrect == Spec => []TypeOK
<1>1. IInv => TypeOK
  BY DEF IInv, TInv
<1> QED BY <1>1, Invariance, PTL

(* With a service that reports within DEF_TIMEOUT, whatever that is, the   *)
(* loop of WifiConnect looks at entries GetScanInfoList wrote and at no    *)
(* others, and gives up only after the last one.                           *)
THEOREM WifiExaminesWholeList == Spec => []ExaminesWholeList
<1>1. IInv => ExaminesWholeList
  <2> SUFFICES ASSUME IInv, punctual = 1
               PROVE  /\ tried \subseteq 0..(Len(info) - 1)
                      /\ pc = "giveUp" => tried = 0..(Len(info) - 1)
    BY DEF ExaminesWholeList
  <2>1. Len(info) \in Nat /\ i \in Nat
    BY ListType DEF IInv, TInv, TypeOK
  <2> QED BY <2>1 DEF IInv, TInv, TypeOK, PInv, Examined, Searching, ScanLoop
<1> QED BY <1>1, Invariance, PTL

(* When the scan has one hotspot of that name, WaitConnectResult sees the  *)
(* flag of a link that is up: it was not left over, and a link that went   *)
(* down took the flag with it.                                             *)
THEOREM WifiSuccessMeansLink == Spec => SuccessMeansLink
<1>1. IInv /\ [Next]_vars =>
        [file = "connect" /\ OneHotspot(info) /\ pc = "waitConnect" /\ pc' = "dhcp" => link = "up"]_vars
  <2> SUFFICES ASSUME IInv, Next, file = "connect", OneHotspot(info), pc = "waitConnect", pc' = "dhcp"
               PROVE  link = "up"
    OBVIOUS
  <2>1. WaitConnectResult
    BY Steps DEF Start, StartScan, WaitScanResult, GetScanInfoList, CheckScan, Join, Skip, RunOut,
                 StartDhcp, DhcpBound, ScanStateChanged, ConnectionChanged, LeaseChanged
  <2>2. g_ConnectSuccess = 1
    BY <2>1 DEF WaitConnectResult, NextHotspot
  <2> QED BY <2>2 DEF IInv, FlagOfThisJoin
<1> QED BY <1>1, Invariance, PTL DEF Spec, SuccessMeansLink

-----------------------------------------------------------------------------
(* The refinement.                                                         *)

(* Every step of the task or of the service is a step of HotspotJoin or    *)
(* changes neither the phase nor the interface.                            *)
LEMMA StepSimulation == TInv /\ [Next]_vars => [Promise!JoinNext]_(Promise!joinVars)
<1> SUFFICES ASSUME TInv, [Next]_vars
             PROVE  Promise!JoinNext \/ UNCHANGED <<Phase, g_lwip_netif, lease>>
  BY DEF Promise!joinVars
<1> USE DEF TInv, globals, locals, service, Phase
<1>0. CASE UNCHANGED vars
  BY <1>0 DEF vars
<1>1. CASE Start
  <2>1. Promise!Fail \/ Promise!Search
    BY <1>1 DEF Start, TypeOK, Promise!Fail, Promise!Search, Promise!Step
  <2> QED BY <2>1 DEF Promise!JoinNext
<1>2. CASE StartScan \/ WaitScanResult \/ GetScanInfoList \/ CheckScan
  BY <1>2 DEF StartScan, WaitScanResult, GetScanInfoList, CheckScan, TypeOK
<1>3. CASE Join \/ Skip
  <2>1. pc' = "giveUp" => Promise!GiveUp
    BY <1>3 DEF Join, Skip, TypeOK, Promise!GiveUp, Promise!Step
  <2>2. pc' # "giveUp" => UNCHANGED <<Phase, g_lwip_netif, lease>>
    BY <1>3 DEF Join, Skip, NextHotspot, TypeOK
  <2> QED BY <2>1, <2>2 DEF Promise!JoinNext
<1>4. CASE RunOut
  <2>1. Promise!GiveUp
    BY <1>4 DEF RunOut, TypeOK, Promise!GiveUp, Promise!Step
  <2> QED BY <2>1 DEF Promise!JoinNext
<1>5. CASE WaitConnectResult
  <2>1. pc' = "dhcp" => Promise!Join \/ Promise!GiveUp
    BY <1>5 DEF WaitConnectResult, NextHotspot, TypeOK, Promise!Join, Promise!GiveUp, Promise!Step
  <2>2. pc' = "giveUp" => Promise!GiveUp
    BY <1>5 DEF WaitConnectResult, NextHotspot, TypeOK, Promise!GiveUp, Promise!Step
  <2>3. pc' \notin {"dhcp", "giveUp"} => UNCHANGED <<Phase, g_lwip_netif, lease>>
    BY <1>5 DEF WaitConnectResult, NextHotspot, TypeOK
  <2> QED BY <2>1, <2>2, <2>3 DEF Promise!JoinNext
<1>6. CASE DhcpBound
  <2>1. Promise!Bind
    BY <1>6 DEF DhcpBound, TypeOK, Promise!Bind, Promise!Step
  <2> QED BY <2>1 DEF Promise!JoinNext
<1>7. CASE ScanStateChanged \/ ConnectionChanged
  BY <1>7 DEF ScanStateChanged, ConnectionChanged
<1>8. CASE StartDhcp
  BY <1>8 DEF StartDhcp, TypeOK
<1>9. CASE LeaseChanged
  <2>1. Promise!Obtain \/ Promise!Lose
    BY <1>9 DEF LeaseChanged, TypeOK, Promise!Obtain, Promise!Lose
  <2> QED BY <2>1 DEF Promise!JoinNext
<1> QED BY <1>0, <1>1, <1>2, <1>3, <1>4, <1>5, <1>6, <1>7, <1>8, <1>9, Steps

(* The callers of WifiConnect get what HotspotJoin promises, with late     *)
(* reports, lost links and whatever hotspots there are: success means a    *)
(* join, an interface that was found and an address it got over the link,  *)
(* and failure is told only at the start.                                  *)
THEOREM WifiKeepsPromise == Spec => KeepsPromise
<1>1. Init => Promise!JoinInit
  BY DEF Init, Phase, Promise!JoinInit
<1>2. TInv /\ [Next]_vars => [Promise!JoinNext]_(Promise!joinVars)
  BY StepSimulation
<1> QED BY <1>1, <1>2, TInvariance, PTL DEF Spec, KeepsPromise, Promise!JoinSpec
=============================================================================
