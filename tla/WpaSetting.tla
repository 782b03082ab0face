----------------------------- MODULE WpaSetting -----------------------------
(***************************************************************************)
(* The Wi-Fi page of the settings application of BearPi-HM_Micro:          *)
(* setting_wifi_ability_slice.cpp on the UI thread and the threads of      *)
(* wpa_work.c, all in app/setting/setting/src/main/cpp.                    *)
(*                                                                         *)
(*   Ui           the ability's thread: OnStart, OnStop and the periodic   *)
(*                Callback of every page, and taps on the list             *)
(*   Scan(p)      WpaScanThread, created by the OnStart of page p          *)
(*   Monitor(p)   MonitorTask, created by Scan(p) once it is attached to   *)
(*                wpa_supplicant                                           *)
(*                                                                         *)
(* wpa_supplicant runs on a thread of its own and is seen through its      *)
(* events.  SendCtrlCommand, which opens, uses and closes a connection     *)
(* apart from the monitor's, is one step of the thread that calls it: that *)
(* two threads in it share its static pointer is left out.                 *)
(***************************************************************************)
EXTENDS Integers, Sequences, FiniteSets

CONSTANTS
  Lists,       (* what SCAN_RESULTS can answer: sequences of SSIDs         *)
  Ssids,       (* the SSIDs                                                *)
  Hidden,      (* the SSIDs that are empty or begin with a backslash       *)
  MaxPages,    (* bound: pages opened in a behaviour                       *)
  MaxEvents    (* bound: events of wpa_supplicant in a behaviour           *)

ASSUME WpaAssumption ==
  /\ Lists \subseteq Seq(Ssids)
  /\ Hidden \subseteq Ssids
  /\ MaxPages \in Nat \ {0}
  /\ MaxEvents \in Nat

Pages   == 1..MaxPages
Mutexes == {"g_mutex", "g_monitorConnMutex"}

(* Threads; a scan and a monitor thread carry the number of their page. *)
Nobody     == <<"none", 0>>
Ui         == <<"ui", 0>>
Scan(p)    == <<"scan", p>>
Monitor(p) == <<"monitor", p>>
Workers    == {"scan", "monitor"} \X Pages

VARIABLES
  ui,             (* where the UI thread is                                *)
  page,           (* the page it works for                                 *)
  opened,         (* pages opened so far                                   *)
  pages,          (* pages whose wpaCount_ is 1                            *)
  shown,          (* the rows of each page: a text, and where in           *)
                  (* g_useSsidD the pointer of the row's listener leads    *)
  tapped,         (* the last tap: the row's text and the SSID passed on   *)
  g_wifiStatus,   (* 1 when the newest page has its rows                   *)
  hasty,          (* history: 1 once a page was left or opened before the  *)
                  (* threads of earlier OnStarts and OnStops were through  *)
  runStatus,      (* static variable of WpaClientStart                     *)
  supplicant,     (* "off" or "on"                                         *)
  g_monitorConn,  (* the scan thread that opened the connection, or 0      *)
  attached,       (* 1 if that connection gets events                      *)
  owner,          (* the thread that holds each mutex, or Nobody           *)
  destroyed,      (* the mutexes that were destroyed                       *)
  survives,       (* 1 if the C library lets a destroyed mutex work on, 0  *)
                  (* if it refuses it, a refusal that nobody looks at      *)
  scanPc, monitorPc,   (* where the threads of each page are               *)
  conn,           (* the connection each of them took from g_monitorConn   *)
  g_scanThreadId, g_wpaThreadId,    (* pages of these threads, or 0        *)
  cancelled,      (* threads that pthread_cancel was called for            *)
  events,         (* on the attached connection, not yet received          *)
  emitted,        (* number of events sent                                 *)
  g_useSsid,      (* g_useSsidD up to g_useSsidCount                       *)
  g_scanAvailable

uiVars     == <<ui, page, opened, pages, shown, tapped, g_wifiStatus, hasty>>
clientVars == <<runStatus, supplicant, g_monitorConn, attached>>
lockVars   == <<owner, destroyed, survives>>
idVars     == <<g_scanThreadId, g_wpaThreadId>>
threadVars == <<scanPc, monitorPc, conn, idVars, cancelled>>
listVars   == <<g_useSsid, g_scanAvailable>>
eventVars  == <<events, emitted>>
vars == <<uiVars, clientVars, lockVars, threadVars, listVars, eventVars>>

Init ==
  /\ ui = "idle" /\ page = 1 /\ opened = 0 /\ pages = {}
  /\ shown = [p \in Pages |-> <<>>]
  /\ tapped = <<>>
  /\ g_wifiStatus = 0
  /\ hasty = 0
  /\ runStatus = 0 /\ supplicant = "off" /\ g_monitorConn = 0 /\ attached = 0
  /\ owner = [m \in Mutexes |-> Nobody]
  /\ destroyed = {}
  /\ survives \in {0, 1}
  /\ scanPc = [p \in Pages |-> "none"] /\ monitorPc = [p \in Pages |-> "none"]
  /\ conn = [t \in Workers |-> 0]
  /\ g_scanThreadId = 0 /\ g_wpaThreadId = 0 /\ cancelled = {}
  /\ events = <<>> /\ emitted = 0
  /\ g_useSsid = <<>> /\ g_scanAvailable = 0

-----------------------------------------------------------------------------
(* pthread_mutex_lock and pthread_mutex_unlock.  Their results are not     *)
(* looked at, and so a mutex that refuses to be locked lets anyone in.     *)

Works(m) == m \notin destroyed \/ survives = 1
Free(m)  == Works(m) => owner[m] = Nobody

Acquire(m, t) ==
  /\ Free(m)
  /\ owner' = IF Works(m) THEN [owner EXCEPT ![m] = t] ELSE owner
  /\ UNCHANGED <<destroyed, survives>>

Release(m, t) ==
  /\ owner' = IF owner[m] = t THEN [owner EXCEPT ![m] = Nobody] ELSE owner
  /\ UNCHANGED <<destroyed, survives>>

(* Lock and unlock with nothing in between that waits. *)
Pass(m) == Free(m) /\ UNCHANGED lockVars

(* A thread with a pending cancellation dies at its next call that is a    *)
(* cancellation point (sleep, select, socket calls), with its mutexes.     *)
Lives(t) == t \notin cancelled

Ended(pc) == pc \in {"none", "ended"}

(* Thread p goes from one place to another. *)
ScanGoes(p, from, to)    == scanPc[p] = from /\ scanPc' = [scanPc EXCEPT ![p] = to]
MonitorGoes(p, from, to) == monitorPc[p] = from /\ monitorPc' = [monitorPc EXCEPT ![p] = to]

-----------------------------------------------------------------------------
(* wpa_supplicant sends an event to the attached monitor connection: a     *)
(* scan has results, or something that changes no state modelled here.     *)
SendEvent ==
  /\ supplicant = "on"
  /\ g_monitorConn # 0 /\ attached = 1
  /\ emitted < MaxEvents
  /\ emitted' = emitted + 1
  /\ \E e \in {"scan", "other"} : events' = Append(events, e)
  /\ UNCHANGED <<uiVars, clientVars, lockVars, threadVars, listVars>>

-----------------------------------------------------------------------------
(* WpaScanThread of page p and, in it, InitControlInterface.               *)

(* The thread sleeps two seconds first, in which its OnStart returns. *)
ScanWake(p) ==
  /\ Lives(Scan(p))
  /\ ~(ui = "start" /\ page = p)
  /\ ScanGoes(p, "sleep", IF g_monitorConn = 0 THEN "open" ELSE "command")
  /\ UNCHANGED <<uiVars, clientVars, lockVars, monitorPc, conn, idVars, cancelled, listVars,
                 eventVars>>

(* wpa_ctrl_open, tried five times without the lock: what another thread   *)
(* opened meanwhile is overwritten.                                        *)
ScanOpen(p) ==
  /\ Lives(Scan(p))
  /\ \/ supplicant = "on" /\ g_monitorConn' = p /\ ScanGoes(p, "open", "attachLock")
     \/ g_monitorConn' = 0 /\ ScanGoes(p, "open", "ended")
  /\ attached' = 0
  /\ events' = <<>>
  /\ UNCHANGED <<uiVars, runStatus, supplicant, lockVars, monitorPc, conn, idVars, cancelled,
                 listVars, emitted>>

ScanAttachLock(p) ==
  /\ \/ g_monitorConn # 0
        /\ Acquire("g_monitorConnMutex", Scan(p))
        /\ ScanGoes(p, "attachLock", "attach")
        /\ conn' = [conn EXCEPT ![Scan(p)] = g_monitorConn]
     \/ g_monitorConn = 0
        /\ Pass("g_monitorConnMutex")
        /\ ScanGoes(p, "attachLock", "ended")
        /\ UNCHANGED conn
  /\ UNCHANGED <<uiVars, clientVars, monitorPc, idVars, cancelled, listVars, eventVars>>

(* wpa_ctrl_attach waits for an answer. *)
ScanAttach(p) ==
  /\ Lives(Scan(p))
  /\ Release("g_monitorConnMutex", Scan(p))
  /\ \/ ScanGoes(p, "attach", "spawn")
        /\ attached' = IF conn[Scan(p)] = g_monitorConn THEN 1 ELSE attached
     \/ ScanGoes(p, "attach", "ended") /\ UNCHANGED attached
  /\ conn' = [conn EXCEPT ![Scan(p)] = 0]
  /\ UNCHANGED <<uiVars, runStatus, supplicant, g_monitorConn, monitorPc, idVars, cancelled,
                 listVars, eventVars>>

(* pthread_create of the monitor. *)
ScanSpawn(p) ==
  /\ \/ /\ ScanGoes(p, "spawn", "command")
        /\ monitorPc' = [monitorPc EXCEPT ![p] = "getFd"]
        /\ g_wpaThreadId' = p
     \/ ScanGoes(p, "spawn", "ended") /\ UNCHANGED <<monitorPc, g_wpaThreadId>>
  /\ UNCHANGED <<uiVars, clientVars, lockVars, conn, g_scanThreadId, cancelled, listVars,
                 eventVars>>

(* SCAN; whether it succeeds shows in the events only. *)
ScanCommand(p) ==
  /\ Lives(Scan(p))
  /\ g_scanAvailable' = 0
  /\ ScanGoes(p, "command", "ended")
  /\ UNCHANGED <<uiVars, clientVars, lockVars, monitorPc, conn, idVars, cancelled, g_useSsid,
                 eventVars>>

-----------------------------------------------------------------------------
(* MonitorTask of page p, CliRecvPending and WifiEventHandler.             *)

MonitorGetFd(p) ==
  /\ Pass("g_monitorConnMutex")
  /\ MonitorGoes(p, "getFd", IF g_monitorConn # 0 THEN "select" ELSE "ended")
  /\ conn' = [conn EXCEPT ![Monitor(p)] = g_monitorConn]
  /\ UNCHANGED <<uiVars, clientVars, lockVars, scanPc, idVars, cancelled, listVars, eventVars>>

(* select returns when an event is there.  On a connection that is not the *)
(* monitor connection any more it returns for events nobody reads, or      *)
(* fails because the descriptor was closed.                                *)
MonitorSelect(p) ==
  /\ Lives(Monitor(p))
  /\ \/ /\ conn[Monitor(p)] = g_monitorConn => events # <<>>
        /\ MonitorGoes(p, "select", "pendingLock")
     \/ /\ conn[Monitor(p)] # g_monitorConn
        /\ MonitorGoes(p, "select", "ended")
  /\ conn' = [conn EXCEPT ![Monitor(p)] = 0]
  /\ UNCHANGED <<uiVars, clientVars, lockVars, scanPc, idVars, cancelled, listVars,
                 eventVars>>

(* CliRecvPending takes the lock and asks whether anything is pending. *)
MonitorPendingLock(p) ==
  /\ \/ /\ g_monitorConn # 0 /\ events # <<>>
        /\ Acquire("g_monitorConnMutex", Monitor(p))
        /\ MonitorGoes(p, "pendingLock", "receive")
     \/ /\ g_monitorConn = 0 \/ events = <<>>
        /\ Pass("g_monitorConnMutex")
        /\ MonitorGoes(p, "pendingLock", "sleep")
  /\ UNCHANGED <<uiVars, clientVars, scanPc, conn, idVars, cancelled, listVars, eventVars>>

(* What follows an event that was handled: the next one, or the unlock. *)
AfterEvent(left) == IF left = <<>> THEN "unlock" ELSE "receive"

(* wpa_ctrl_recv of one event; only a scan result has an effect here. *)
MonitorReceive(p) ==
  /\ Lives(Monitor(p))
  /\ g_monitorConn # 0 /\ events # <<>>
  /\ events' = Tail(events)
  /\ MonitorGoes(p, "receive",
                 IF Head(events) = "scan" THEN "listLock" ELSE AfterEvent(Tail(events)))
  /\ UNCHANGED <<uiVars, clientVars, lockVars, scanPc, conn, idVars, cancelled, listVars, emitted>>

(* "could not read pending message": it is lost, or still there next time. *)
MonitorReceiveFails(p) ==
  /\ Lives(Monitor(p))
  /\ g_monitorConn # 0 /\ events # <<>>
  /\ events' \in {events, Tail(events)}
  /\ MonitorGoes(p, "receive", "unlock")
  /\ UNCHANGED <<uiVars, clientVars, lockVars, scanPc, conn, idVars, cancelled, listVars, emitted>>

MonitorUnlock(p) ==
  /\ MonitorGoes(p, "unlock", "sleep")
  /\ Release("g_monitorConnMutex", Monitor(p))
  /\ UNCHANGED <<uiVars, clientVars, scanPc, conn, idVars, cancelled, listVars, eventVars>>

MonitorListUnlocked(p) ==
  /\ MonitorGoes(p, "listLock", "write")
  /\ UNCHANGED <<uiVars, clientVars, lockVars, scanPc, conn, idVars, cancelled, listVars,
                 eventVars>>

MonitorListLock(p) ==
  /\ MonitorGoes(p, "listLock", "write")
  /\ Acquire("g_mutex", Monitor(p))
  /\ UNCHANGED <<uiVars, clientVars, scanPc, conn, idVars, cancelled, listVars, eventVars>>

Visible(ssid) == ssid \notin Hidden

CheckSsidKeepsAll(list) == list

(* CheckSsid: an SSID is compared with entries that are not written yet,   *)
(* so that the comparison drops nothing; hidden ones are left out.         *)
CheckSsid(list) ==
  LET kept[i \in 0..Len(list)] ==
        IF i = 0 THEN <<>>
        ELSE IF Visible(list[i]) THEN Append(kept[i - 1], list[i]) ELSE kept[i - 1]
  IN  kept[Len(list)]

MonitorWriteKeepsLock(p) ==
  /\ Lives(Monitor(p))
  /\ MonitorGoes(p, "write", AfterEvent(events))
  /\ g_useSsid' \in { CheckSsid(list) : list \in Lists } \cup { <<>> }
  /\ g_scanAvailable' = 1
  /\ UNCHANGED <<uiVars, clientVars, lockVars, scanPc, conn, idVars, cancelled, eventVars>>

(* SCAN_RESULTS, ProcessScanResult, CheckSsid.  A failed command leaves    *)
(* the buffer empty and with it the list.                                  *)
MonitorWrite(p) ==
  /\ Lives(Monitor(p))
  /\ MonitorGoes(p, "write", AfterEvent(events))
  /\ g_useSsid' \in { CheckSsid(list) : list \in Lists } \cup { <<>> }
  /\ g_scanAvailable' = 1
  /\ Release("g_mutex", Monitor(p))
  /\ UNCHANGED <<uiVars, clientVars, scanPc, conn, idVars, cancelled, eventVars>>

MonitorSleep(p) ==
  /\ Lives(Monitor(p))
  /\ MonitorGoes(p, "sleep", "getFd")
  /\ UNCHANGED <<uiVars, clientVars, lockVars, scanPc, conn, idVars, cancelled, listVars,
                 eventVars>>

(* A cancelled thread dies. *)
ScanDies(p) ==
  /\ ~Lives(Scan(p))
  /\ \E at \in {"sleep", "open", "attach", "command"} : ScanGoes(p, at, "ended")
  /\ UNCHANGED <<uiVars, clientVars, lockVars, monitorPc, conn, idVars, cancelled, listVars,
                 eventVars>>

MonitorDies(p) ==
  /\ ~Lives(Monitor(p))
  /\ \E at \in {"select", "receive", "write", "sleep"} : MonitorGoes(p, at, "ended")
  /\ UNCHANGED <<uiVars, clientVars, lockVars, scanPc, conn, idVars, cancelled, listVars,
                 eventVars>>

-----------------------------------------------------------------------------
(* The UI thread.                                                          *)

(* No thread of an earlier page is still at work that OnStart or OnStop    *)
(* takes to be through: scan threads, and monitors that were cancelled.    *)
Settled ==
  \A p \in Pages :
    /\ Ended(scanPc[p])
    /\ Monitor(p) \in cancelled => Ended(monitorPc[p])

(* OnStart: WpaClientStart, which starts wpa_supplicant and makes the      *)
(* mutexes the first time only, and WpaScanReconnect; each may fail to     *)
(* create its thread.                                                      *)
OpenPage ==
  LET p == opened + 1
  IN  /\ ui = "idle"
      /\ opened < MaxPages
      /\ opened' = p
      /\ page' = p
      /\ pages' = pages \cup {p}
      /\ hasty' = IF Settled THEN hasty ELSE 1
      /\ \/ runStatus = 0 /\ runStatus' = 1 /\ supplicant' = "on"
         \/ UNCHANGED <<runStatus, supplicant>>
      /\ \/ scanPc' = [scanPc EXCEPT ![p] = "sleep"] /\ g_scanThreadId' = p
         \/ UNCHANGED <<scanPc, g_scanThreadId>>
      /\ ui' = "start"
      /\ UNCHANGED <<shown, tapped, g_wifiStatus, g_monitorConn, attached, lockVars, monitorPc,
                     conn, g_wpaThreadId, cancelled, listVars, eventVars>>

(* AddWifi: the list becomes rows below those of the page, once. *)
AddWifi(status) ==
  \/ /\ g_useSsid # <<>> /\ status = 0
     /\ shown' = [shown EXCEPT ![page] =
                    @ \o [i \in 1..Len(g_useSsid) |-> [text |-> g_useSsid[i], at |-> i]]]
     /\ g_wifiStatus' = 1
  \/ /\ g_useSsid = <<>> \/ status = 1
     /\ g_wifiStatus' = status
     /\ UNCHANGED shown

(* SetScrollWifi, still in OnStart: AddWifi without the lock. *)
FirstList ==
  /\ ui = "start"
  /\ AddWifi(0)
  /\ ui' = "idle"
  /\ UNCHANGED <<page, opened, pages, tapped, hasty, clientVars, lockVars, threadVars, listVars,
                 eventVars>>

(* Callback: GetAndResetScanStat reads the flag and then resets it. *)
ReadScanStat(p) ==
  /\ ui = "idle"
  /\ page' = p
  /\ ui' = IF g_scanAvailable = 1 THEN "resetHit" ELSE "resetMiss"
  /\ UNCHANGED <<opened, pages, shown, tapped, g_wifiStatus, hasty, clientVars, lockVars,
                 threadVars, listVars, eventVars>>

ResetScanStat ==
  /\ ui \in {"resetHit", "resetMiss"}
  /\ g_scanAvailable' = 0
  /\ ui' = IF ui = "resetHit" THEN "lock" ELSE "idle"
  /\ UNCHANGED <<page, opened, pages, shown, tapped, g_wifiStatus, hasty, clientVars, lockVars,
                 threadVars, g_useSsid, eventVars>>

LockWifiData ==
  /\ ui = "lock"
  /\ Acquire("g_mutex", Ui)
  /\ ui' = "list"
  /\ UNCHANGED <<page, opened, pages, shown, tapped, g_wifiStatus, hasty, clientVars, threadVars,
                 listVars, eventVars>>

ListUnderLock ==
  /\ ui = "list"
  /\ AddWifi(g_wifiStatus)
  /\ Release("g_mutex", Ui)
  /\ ui' = "idle"
  /\ UNCHANGED <<page, opened, pages, tapped, hasty, clientVars, threadVars, listVars, eventVars>>

(* A tap on row k passes on what its listener's pointer into g_useSsidD    *)
(* leads to; what is beyond the list is empty.                             *)
Tap(p, k) ==
  /\ ui = "idle"
  /\ LET row == shown[p][k]
     IN  tapped' = << row.text, IF row.at <= Len(g_useSsid) THEN g_useSsid[row.at] ELSE "" >>
  /\ UNCHANGED <<ui, page, opened, pages, shown, g_wifiStatus, hasty, clientVars, lockVars,
                 threadVars, listVars, eventVars>>

(* OnStop calls ExitWpa ... *)
ClosePage(p) ==
  /\ ui = "idle"
  /\ page' = p
  /\ ui' = "exit"
  /\ hasty' = IF \A q \in Pages : Ended(scanPc[q]) THEN hasty ELSE 1
  /\ UNCHANGED <<opened, pages, shown, tapped, g_wifiStatus, clientVars, lockVars,
                 threadVars, listVars, eventVars>>

CloseMonitorConnUnlocked ==
  /\ ui = "exit"
  /\ g_monitorConn' = 0 /\ attached' = 0
  /\ events' = <<>>
  /\ ui' = "terminate"
  /\ UNCHANGED <<page, opened, pages, shown, tapped, g_wifiStatus, hasty, runStatus, supplicant,
                 lockVars, threadVars, listVars, emitted>>

CloseMonitorConnKept ==
  /\ ui = "exit"
  /\ Pass("g_monitorConnMutex")
  /\ events' = <<>>
  /\ ui' = "terminate"
  /\ UNCHANGED <<page, opened, pages, shown, tapped, g_wifiStatus, hasty, clientVars, threadVars,
                 listVars, emitted>>

(* ... which closes the monitor connection under its lock, *)
CloseMonitorConn ==
  /\ ui = "exit"
  /\ Pass("g_monitorConnMutex")
  /\ g_monitorConn' = 0 /\ attached' = 0
  /\ events' = <<>>
  /\ ui' = "terminate"
  /\ UNCHANGED <<page, opened, pages, shown, tapped, g_wifiStatus, hasty, runStatus, supplicant,
                 threadVars, listVars, emitted>>

(* terminates wpa_supplicant, unless the command fails, *)
Terminate ==
  /\ ui = "terminate"
  /\ supplicant' \in {"off", supplicant}
  /\ ui' = "destroy"
  /\ UNCHANGED <<page, opened, pages, shown, tapped, g_wifiStatus, hasty, runStatus, g_monitorConn,
                 attached, lockVars, threadVars, listVars, eventVars>>

(* cancels its thread and destroys the mutexes nobody holds; *)
DestroyMutexes ==
  /\ ui = "destroy"
  /\ supplicant' = "off"
  /\ destroyed' = destroyed \cup { m \in Mutexes : owner[m] = Nobody }
  /\ ui' = "cancel"
  /\ UNCHANGED <<page, opened, pages, shown, tapped, g_wifiStatus, hasty, runStatus, g_monitorConn,
                 attached, owner, survives, threadVars, listVars, eventVars>>

(* and then ExitWpaScan, which cancels the scan and the monitor thread     *)
(* that were created last.                                                 *)
ExitWpaScan ==
  /\ ui = "cancel"
  /\ cancelled' = cancelled \cup { Scan(p) : p \in {g_scanThreadId} \ {0} }
                            \cup { Monitor(p) : p \in {g_wpaThreadId} \ {0} }
  /\ g_scanThreadId' = 0 /\ g_wpaThreadId' = 0
  /\ pages' = pages \ {page}
  /\ ui' = "idle"
  /\ UNCHANGED <<page, opened, shown, tapped, g_wifiStatus, hasty, clientVars, lockVars, scanPc,
                 monitorPc, conn, listVars, eventVars>>

-----------------------------------------------------------------------------
WpaScanThread(p) ==
  \/ ScanWake(p) \/ ScanOpen(p) \/ ScanAttachLock(p) \/ ScanAttach(p) \/ ScanSpawn(p)
  \/ ScanCommand(p) \/ ScanDies(p)

MonitorTask(p) ==
  \/ MonitorGetFd(p) \/ MonitorSelect(p) \/ MonitorPendingLock(p) \/ MonitorReceive(p)
  \/ MonitorReceiveFails(p) \/ MonitorUnlock(p) \/ MonitorListLock(p) \/ MonitorWrite(p)
  \/ MonitorSleep(p) \/ MonitorDies(p)

(* What the UI thread does without being asked again. *)
Work ==
  \/ FirstList \/ ResetScanStat \/ LockWifiData \/ ListUnderLock
  \/ CloseMonitorConn \/ Terminate \/ DestroyMutexes \/ ExitWpaScan

User ==
  \/ OpenPage
  \/ \E p \in pages : ClosePage(p) \/ \E k \in DOMAIN shown[p] : Tap(p, k)

UiThread == Work \/ User \/ \E p \in pages : ReadScanStat(p)

Next == SendEvent \/ UiThread \/ \E p \in Pages : WpaScanThread(p) \/ MonitorTask(p)

Spec == Init /\ [][Next]_vars

(* Every thread runs on while it is not waiting for a mutex, an event or   *)
(* the user, and the periodic task calls Callback again and again.  The    *)
(* monitor sleeps a second between two rounds with the connection's lock,  *)
(* so that ExitWpa, which waits for it, does not miss every gap.           *)
FairSpec ==
  /\ Spec
  /\ \A p \in Pages : WF_vars(WpaScanThread(p)) /\ WF_vars(MonitorTask(p))
  /\ WF_vars(Work)
  /\ SF_vars(CloseMonitorConn)
  /\ WF_vars(\E p \in pages : ReadScanStat(p))

-----------------------------------------------------------------------------
(* Type invariant. *)
TypeOK ==
  /\ ui \in {"idle", "start", "resetHit", "resetMiss", "lock", "list", "exit", "terminate",
             "destroy", "cancel"}
  /\ page \in Pages
  /\ opened \in 0..MaxPages
  /\ pages \subseteq Pages
  /\ shown \in [Pages -> Seq([text : Ssids \ Hidden, at : Nat \ {0}])]
  /\ tapped = <<>> \/ tapped \in (Ssids \ Hidden) \X (Ssids \cup {""})
  /\ g_wifiStatus \in {0, 1}
  /\ hasty \in {0, 1}
  /\ runStatus \in {0, 1}
  /\ supplicant \in {"off", "on"}
  /\ g_monitorConn \in {0} \cup Pages
  /\ attached \in {0, 1}
  /\ owner \in [Mutexes -> Workers \cup {Ui, Nobody}]
  /\ destroyed \subseteq Mutexes
  /\ survives \in {0, 1}
  /\ scanPc \in [Pages -> {"none", "sleep", "open", "attachLock", "attach", "spawn", "command",
                          "ended"}]
  /\ monitorPc \in [Pages -> {"none", "getFd", "select", "pendingLock", "receive", "listLock",
                             "write", "unlock", "sleep", "ended"}]
  /\ conn \in [Workers -> {0} \cup Pages]
  /\ g_scanThreadId \in {0} \cup Pages
  /\ g_wpaThreadId \in {0} \cup Pages
  /\ cancelled \subseteq Workers
  /\ events \in Seq({"scan", "other"})
  /\ emitted \in 0..MaxEvents
  /\ g_useSsid \in Seq(Ssids \ Hidden)
  /\ g_scanAvailable \in {0, 1}

-----------------------------------------------------------------------------
(* Safety.  OnStart and OnStop do not ask how far the threads of earlier   *)
(* calls are; what fails once they overtook one is not claimed: hasty.     *)

(* As long as no second page is opened, the UI thread does not read the    *)
(* list of SSIDs while the monitor rewrites it, neither in Callback nor in *)
(* OnStart, which takes no lock.                                           *)
ListNotTorn ==
  opened = 1 /\ ui \in {"start", "list"} => \A p \in Pages : monitorPc[p] # "write"

(* As long as every page was left after the scan threads had ended, and    *)
(* opened after the threads cancelled before had died: a thread that       *)
(* ExitWpaScan cancels dies without a mutex, though it may be anywhere in  *)
(* the handling of an event when the page is left.                         *)
NoOrphanedLock ==
  hasty = 0 =>
    \A m \in Mutexes : \A p \in Pages :
      /\ owner[m] = Scan(p) => ~Ended(scanPc[p])
      /\ owner[m] = Monitor(p) => ~Ended(monitorPc[p])

(* One monitor thread at most handles the events, whatever pages are open. *)
OneMonitor ==
  \A p, q \in Pages : ~Ended(monitorPc[p]) /\ ~Ended(monitorPc[q]) => p = q

(* No connection is left for the next page, whose scan thread would take   *)
(* it for its own and skip the set-up.                                     *)
ExitClosesConn == ui = "idle" /\ opened > 0 /\ pages = {} => g_monitorConn = 0

(* Under the same condition as NoOrphanedLock: the connection never has    *)
(* two threads that read it, and is closed once no page is open.           *)
MonitorServesThePages == hasty = 0 => OneMonitor /\ ExitClosesConn

(* What the message of a tap says: the SSID that is joined is that of the  *)
(* row.                                                                    *)
TappedIsShown == tapped # <<>> => tapped[1] = tapped[2]

(* What runStatus says: once wpa_supplicant was started it runs as long as *)
(* a page is open.                                                         *)
StartedIsRunning == ui = "idle" /\ runStatus = 1 /\ pages # {} => supplicant = "on"

-----------------------------------------------------------------------------
(* Liveness.                                                               *)

(* The UI thread comes back from every OnStart, Callback and OnStop, of    *)
(* the first page or under the condition of NoOrphanedLock: it and the     *)
(* monitor never wait for each other's mutexes for ever.                   *)
UiReturns == (ui # "idle" /\ (hasty = 0 \/ opened = 1)) ~> ui = "idle"
=============================================================================
