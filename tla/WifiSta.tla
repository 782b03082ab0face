------------------------------- MODULE WifiSta -------------------------------
(***************************************************************************)
(* Joining a hotspot: WifiConnect of wifi_connect.c, the file every IoT    *)
(* case of BearPi-HM_Nano has a copy of.  One task scans, waits, reads the *)
(* list of hotspots, tries the ones with the right name and waits for an   *)
(* address, while the Wi-Fi service calls the registered handlers on its   *)
(* own thread.  The two share four plain global variables.                 *)
(*                                                                         *)
(* The station example, D2_iot_wifi_sta_connect/wifi_sta_connect.c, does   *)
(* the same in a task of its own, with an older connection handler.        *)
(***************************************************************************)
EXTENDS Integers, Sequences, FiniteSets

CONSTANTS
  DEF_TIMEOUT,  (* seconds WaitScanResult and WaitConnectResult poll       *)
  Lists,        (* results a scan can have, sequences of "mine" (the SSID  *)
                (* asked for) and "other"                                  *)
  MaxScans      (* bound: scans started in a behaviour                     *)

ASSUME WifiAssumption ==
  /\ DEF_TIMEOUT \in Nat \ {0}
  /\ Lists \subseteq Seq({"mine", "other"})
  /\ MaxScans \in Nat

VARIABLES
  file,              (* which of the two is on the board: "connect", "sta" *)
  pc,                (* where the task is                                  *)
  g_staScanSuccess,  (* 0 or 1, set by the scan handler                    *)
  g_ssid_count,      (* size reported by the scan handler                  *)
  g_ConnectSuccess,  (* 0 or 1, set by the connection handler              *)
  g_lwip_netif,      (* 1 once the interface was looked up, else 0         *)
  info,              (* what GetScanInfoList has written so far            *)
  i,                 (* index of the hotspot being tried                   *)
  timer,             (* scanTimeout or ConnectTimeout                      *)
  tried,             (* indices the loop has examined                      *)
  scans,             (* scans started                                      *)
  pending,           (* scans started and not yet reported                 *)
  found,             (* list the service holds                             *)
  punctual,          (* 1 if the service always reports within DEF_TIMEOUT *)
  link,              (* "idle", "joining", "up" or "down"                  *)
  lease              (* 1 while the interface has an address               *)

globals == <<g_staScanSuccess, g_ssid_count, g_ConnectSuccess, g_lwip_netif>>
locals  == <<info, i, timer, tried>>
service == <<scans, pending, found, punctual, link, lease>>
vars == <<file, pc, globals, locals, service>>

Init ==
  /\ file \in {"connect", "sta"}
  /\ pc = "init"
  /\ g_staScanSuccess = 0 /\ g_ssid_count = 0 /\ g_ConnectSuccess = 0 /\ g_lwip_netif = 0
  /\ info = <<>> /\ i = 0 /\ timer = 0 /\ tried = {}
  /\ scans = 0 /\ pending = 0 /\ found = <<>> /\ link = "idle" /\ lease = 0
  /\ punctual \in {0, 1}

-----------------------------------------------------------------------------
(* The Wi-Fi service and the handlers it calls.                            *)

(* A scan that found nothing is not a success. *)
NonEmptyScanSucceeds ==
  IF Len(found') > 0
  THEN g_ssid_count' = Len(found') /\ g_staScanSuccess' = 1
  ELSE UNCHANGED <<g_ssid_count, g_staScanSuccess>>

(* A scan ends: OnWifiScanStateChangedHandler. *)
ScanStateChanged ==
  /\ pending > 0
  /\ pending' = pending - 1
  /\ found' \in Lists
  /\ NonEmptyScanSucceeds
  /\ UNCHANGED <<pc, g_ConnectSuccess, g_lwip_netif, locals, scans, punctual, link, lease>>

FlagNeverReset == g_ConnectSuccess' = IF link' = "up" THEN 1 ELSE g_ConnectSuccess

(* What the handler makes of the new state: the flag follows it, ... *)
FlagFollowsState == g_ConnectSuccess' = IF link' = "up" THEN 1 ELSE 0

(* ... in the station example it is only ever set. *)
FlagIsSet == g_ConnectSuccess' = IF link' = "up" THEN 1 ELSE g_ConnectSuccess

(* The link comes up or goes down: OnWifiConnectionChangedHandler, which   *)
(* the service gives the link's info.                                      *)
ConnectionChanged ==
  /\ link # "idle"
  /\ link' \in {"up", "down"} \ {link}
  /\ IF file = "sta" THEN FlagIsSet ELSE FlagFollowsState
  /\ UNCHANGED <<pc, g_staScanSuccess, g_ssid_count, g_lwip_netif, locals, scans, pending,
                 found, punctual, lease>>

(* The DHCP client, started by dhcp_start: it gets an address over the     *)
(* link, and may lose it again, with the link or without.                  *)
LeaseChanged ==
  /\ pc \in {"poll", "online"} /\ g_lwip_netif = 1
  /\ lease = 0 => link = "up"
  /\ lease' = 1 - lease
  /\ UNCHANGED <<pc, globals, locals, scans, pending, found, punctual, link>>

-----------------------------------------------------------------------------
(* The task.                                                               *)

(* WiFiInit and malloc; on an error WifiConnect returns -1. *)
Start ==
  /\ pc = "init"
  /\ pc' \in {"scan", "failed"}
  /\ UNCHANGED <<globals, locals, service>>

StartScanLate ==
  /\ pc = "scan"
  /\ scans < MaxScans
  /\ scans' = scans + 1
  /\ pending' = pending + 1
  /\ timer' = DEF_TIMEOUT + 1
  /\ pc' = "waitScan"
  /\ UNCHANGED <<globals, info, i, tried, found, punctual, link, lease>>

(* Scan, and WaitScanResult sets its timeout. *)
StartScan ==
  /\ pc = "scan"
  /\ scans < MaxScans
  /\ scans' = scans + 1
  /\ pending' = pending + 1
  /\ timer' = DEF_TIMEOUT
  /\ pc' = "waitScan"
  /\ UNCHANGED <<globals, info, i, tried, found, punctual, link, lease>>

(* One second of WaitScanResult: after DEF_TIMEOUT of them it returns. *)
WaitScanResult ==
  /\ pc = "waitScan"
  /\ punctual = 1 /\ timer = 1 => pending = 0
  /\ timer' = timer - 1
  /\ pc' = IF g_staScanSuccess = 1 \/ timer' = 0 THEN "getList" ELSE "waitScan"
  /\ UNCHANGED <<globals, info, i, tried, service>>

(* Without results the service leaves the buffer as it is. *)
GetScanInfoList ==
  /\ pc = "getList"
  /\ info' = IF found = <<>> THEN info ELSE found
  /\ pc' = "checkScan"
  /\ UNCHANGED <<globals, i, timer, tried, service>>

CheckScanInverted ==
  /\ pc = "checkScan"
  /\ pc' = IF g_staScanSuccess = 1 THEN "scan" ELSE "select"
  /\ UNCHANGED <<globals, locals, service>>

(* while (g_staScanSuccess != 1) *)
CheckScan ==
  /\ pc = "checkScan"
  /\ pc' = IF g_staScanSuccess = 1 THEN "select" ELSE "scan"
  /\ UNCHANGED <<globals, locals, service>>

(* strcmp finds the SSID in entry i; an entry nobody wrote holds no name. *)
Matches == i < Len(info) /\ info[i + 1] = "mine"

NextHotspotOneShort ==
  IF i >= g_ssid_count - 2
  THEN pc' = "giveUp" /\ UNCHANGED i
  ELSE pc' = "select" /\ i' = i + 1

(* The end of a round of the loop whose WifiConnectAp returned -1. *)
NextHotspot ==
  IF i = g_ssid_count - 1
  THEN pc' = "giveUp" /\ UNCHANGED i
  ELSE pc' = "select" /\ i' = i + 1

(* WifiConnectAp up to ConnectTo, for a hotspot with the right name ... *)
Join ==
  /\ pc = "select" /\ i < g_ssid_count
  /\ Matches
  /\ tried' = tried \cup {i}
  /\ \/ /\ link' = "joining"
        /\ timer' = DEF_TIMEOUT
        /\ pc' = "waitConnect"
        /\ UNCHANGED i
     \/ NextHotspot /\ UNCHANGED <<timer, link>>
  /\ UNCHANGED <<globals, info, scans, pending, found, punctual, lease>>

(* ... and for another one. *)
Skip ==
  /\ pc = "select" /\ i < g_ssid_count
  /\ ~Matches
  /\ tried' = tried \cup {i}
  /\ NextHotspot
  /\ UNCHANGED <<globals, info, timer, service>>

(* The loop ends because i is no longer below g_ssid_count. *)
RunOut ==
  /\ pc = "select" /\ i >= g_ssid_count
  /\ pc' = "dhcp"
  /\ UNCHANGED <<globals, locals, service>>

(* One second of WaitConnectResult.  Success is reported only when the     *)
(* flag was seen with time left; then netifapi_netif_find looks for the    *)
(* interface, and WifiConnectAp returns 0 whether it finds one or not.     *)
WaitConnectResult ==
  /\ pc = "waitConnect"
  /\ timer' = timer - 1
  /\ IF g_ConnectSuccess = 1 /\ timer' > 0
     THEN pc' = "dhcp" /\ g_lwip_netif' \in {0, 1} /\ UNCHANGED i
     ELSE /\ UNCHANGED g_lwip_netif
          /\ IF timer' = 0 THEN NextHotspot ELSE UNCHANGED <<pc, i>>
  /\ UNCHANGED <<g_staScanSuccess, g_ssid_count, g_ConnectSuccess, info, tried, service>>

(* dhcp_start on the interface, if there is one. *)
StartDhcp ==
  /\ pc = "dhcp"
  /\ pc' = "poll"
  /\ UNCHANGED <<globals, locals, service>>

DhcpBoundWithoutLease ==
  /\ pc = "poll"
  /\ g_lwip_netif = 1
  /\ pc' = "online"
  /\ UNCHANGED <<globals, locals, service>>

(* The poll, every DHCP_DELAY, that finds the interface bound; without an  *)
(* interface dhcp_is_bound never says so.                                  *)
DhcpBound ==
  /\ pc = "poll"
  /\ g_lwip_netif = 1 /\ lease = 1
  /\ pc' = "online"
  /\ UNCHANGED <<globals, locals, service>>

(* WifiConnect, which the programs of the board call ... *)
WifiConnect ==
  \/ Start \/ StartScan \/ WaitScanResult \/ GetScanInfoList \/ CheckScan
  \/ Join \/ Skip \/ RunOut \/ WaitConnectResult \/ StartDhcp \/ DhcpBound

(* ... and WifiStaTask, which ends on an error and idles when online. *)
WifiStaTask == WifiConnect

Task == IF file = "sta" THEN WifiStaTask ELSE WifiConnect

Next == UNCHANGED file /\ (Task \/ ScanStateChanged \/ ConnectionChanged \/ LeaseChanged)

Spec == Init /\ [][Next]_vars

(* The task runs, its sleeps end, and the service reports every scan. *)
FairSpec == Spec /\ WF_vars(UNCHANGED file /\ Task) /\ WF_vars(UNCHANGED file /\ ScanStateChanged)

-----------------------------------------------------------------------------
(* Type invariant. *)
TypeOK ==
  /\ file \in {"connect", "sta"}
  /\ pc \in {"init", "failed", "scan", "waitScan", "getList", "checkScan", "select",
             "waitConnect", "dhcp", "poll", "online", "giveUp"}
  /\ g_staScanSuccess \in {0, 1}
  /\ g_ssid_count \in Nat
  /\ g_ConnectSuccess \in {0, 1}
  /\ g_lwip_netif \in {0, 1}
  /\ info \in Lists \cup {<<>>}
  /\ i \in Nat
  /\ timer \in 0..DEF_TIMEOUT
  /\ tried \subseteq Nat
  /\ scans \in 0..MaxScans
  /\ pending \in 0..scans
  /\ found \in Lists \cup {<<>>}
  /\ punctual \in {0, 1}
  /\ link \in {"idle", "joining", "up", "down"}
  /\ lease \in {0, 1}

-----------------------------------------------------------------------------
(* Safety.  The code relies on the service to report scans in time: it     *)
(* reads g_ssid_count again and again while a late report may change it.   *)

(* With a service that reports in time, every hotspot the loop examines    *)
(* was written by GetScanInfoList, though the handler counts them and the  *)
(* task reads them at different times, and the task gives up only when it  *)
(* has examined all of them.                                               *)
ExaminesWholeList ==
  punctual = 1 =>
    /\ tried \subseteq 0..(Len(info) - 1)
    /\ pc = "giveUp" => tried = 0..(Len(info) - 1)

(* Late or in time, the callers of WifiConnect get what HotspotJoin        *)
(* promises: the hotspot it joined may be lost before it is online, but an *)
(* address it got, over an interface it found, while there was a link.     *)
(* The loop for an address that has no interface it never returns from.    *)
Phase ==
  CASE pc = "init" -> "called"
    [] pc \in {"failed", "online"} -> pc
    [] pc = "giveUp" -> "stuck"
    [] pc \in {"dhcp", "poll"} -> IF g_lwip_netif = 1 THEN "joined" ELSE "stuck"
    [] OTHER -> "searching"

Promise == INSTANCE HotspotJoin WITH
  phase <- Phase,
  interface <- g_lwip_netif,
  address <- lease,
  linkUp <- IF link = "up" THEN 1 ELSE 0

KeepsPromise == Promise!JoinSpec

OneHotspot(list) == Cardinality({ k \in DOMAIN list : list[k] = "mine" }) <= 1

(* With one hotspot of that name, a join succeeds only while the link is   *)
(* up: the flag it polls is not left over from before, and a link lost     *)
(* again is noticed.  The station example's handler does not see to that.  *)
SuccessMeansLink ==
  [][ file = "connect" /\ OneHotspot(info) /\ pc = "waitConnect" /\ pc' = "dhcp" => link = "up" ]_vars

(* What the message "WaitConnectResult:wait success" says: the wait ends   *)
(* in success when the flag was seen, at whatever second that is.          *)
SeenFlagIsSuccess ==
  [][ pc = "waitConnect" /\ pc' # "waitConnect" /\ g_ConnectSuccess = 1 => pc' = "dhcp" ]_vars

ScanLoop == {"scan", "waitScan", "getList", "checkScan"}

(* Liveness.  Once a scan finds something, in time or late, the scan loop  *)
(* ends (the bound MaxScans stops the task before a scan the loop would    *)
(* still make), and a round over the list ends, whatever the link does     *)
(* while a join is being waited for.                                       *)
LoopsEnd ==
  /\ g_staScanSuccess = 1 /\ ~(pc = "scan" /\ scans = MaxScans) ~> pc \notin ScanLoop
  /\ pc = "select" ~> pc \in {"dhcp", "giveUp"}
=============================================================================
