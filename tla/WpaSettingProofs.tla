--------------------------- MODULE WpaSettingProofs --------------------------
(***************************************************************************)
(* Theorems about WpaSetting, for any number of pages, of events and of    *)
(* networks.                                                               *)
(***************************************************************************)
EXTENDS WpaSetting, WellFoundedInduction, TLAPS

-----------------------------------------------------------------------------
(* The type invariant in two parts: the lists, and the rest.               *)

Row == [text : Ssids \ Hidden, at : Nat \ {0}]

RowsOK ==
  /\ shown \in [Pages -> Seq(Row)]
  /\ tapped = <<>> \/ tapped \in (Ssids \ Hidden) \X (Ssids \cup {""})
  /\ g_useSsid \in Seq(Ssids \ Hidden)

StateOK ==
  /\ ui \in {"idle", "start", "resetHit", "resetMiss", "lock", "list", "exit", "terminate",
             "destroy", "cancel"}
  /\ page \in Pages
  /\ opened \in 0..MaxPages
  /\ pages \subseteq Pages
  /\ g_wifiStatus \in {0, 1}
  /\ hasty \in {0, 1}
  /\ runStatus \in {0, 1}
  /\ supplicant \in {"off", "on"}
  /\ g_monitorConn \in {0} \cup Pages
  /\ attached \in {0, 1}
  /\ owner \in [Mutexes -> Workers \cup {Ui, Nobody}]
  /\ destroyed \subseteq Mutexes
  /\ survives \in {0, 1}
  /\ scanPc \in [Pages -> {"none", "sleep", "open", "attachLock", "attach", "spawn", "command",
                          "ended"}]
  /\ monitorPc \in [Pages -> {"none", "getFd", "select", "pendingLock", "receive", "listLock",
                             "write", "unlock", "sleep", "ended"}]
  /\ conn \in [Workers -> {0} \cup Pages]
  /\ g_scanThreadId \in {0} \cup Pages
  /\ g_wpaThreadId \in {0} \cup Pages
  /\ cancelled \subseteq Workers
  /\ events \in Seq({"scan", "other"})
  /\ emitted \in 0..MaxEvents
  /\ g_scanAvailable \in {0, 1}

-----------------------------------------------------------------------------
(* The inductive invariant: what holds however the user leaves the pages.  *)

(* The UI thread works for a page that exists; a thread that was not       *)
(* created is not cancelled, a scan thread creates its monitor at the end  *)
(* of the set-up, and not before OnStart returned.                         *)
PageInv ==
  /\ pages \subseteq 1..opened
  /\ ui # "idle" => page \in pages
  /\ \A p \in Pages :
       /\ p > opened => scanPc[p] = "none"
       /\ scanPc[p] = "none" => g_scanThreadId # p /\ Lives(Scan(p))
       /\ scanPc[p] \notin {"command", "ended"} => monitorPc[p] = "none"
       /\ monitorPc[p] = "none" => g_wpaThreadId # p /\ Lives(Monitor(p))
  /\ ui = "start" => /\ scanPc[page] \in {"none", "sleep", "ended"}
                     /\ monitorPc[page] = "none"

(* Who can hold which mutex.  One that does not work is never held. *)
HolderInv ==
  /\ \A m \in Mutexes : ~Works(m) => owner[m] = Nobody
  /\ owner["g_mutex"] \in {Nobody, Ui} \cup { Monitor(p) : p \in Pages }
  /\ owner["g_monitorConnMutex"] # Ui
  /\ Works("g_mutex") => /\ owner["g_mutex"] = Ui <=> ui = "list"
                         /\ \A p \in Pages :
                              monitorPc[p] = "write" => owner["g_mutex"] = Monitor(p)

(* Nothing was destroyed before the first page is left. *)
FirstPage == opened = 0 \/ (opened = 1 /\ pages # {} /\ ui # "cancel") => destroyed = {}

-----------------------------------------------------------------------------
(* What holds besides as long as no thread was overtaken.                  *)

Leaving == ui \in {"exit", "terminate", "destroy", "cancel"}

(* Only the newest page's scan thread works, never while a page is being   *)
(* left, and so it is not cancelled, finds the connection as it left it    *)
(* and meets no monitor.                                                   *)
ScanInv ==
  \A p \in Pages : ~Ended(scanPc[p]) =>
    /\ p = opened /\ ~Leaving
    /\ Lives(Scan(p)) /\ g_scanThreadId \in {0, p}
    /\ \A q \in Pages : Lives(Monitor(q)) \/ Ended(monitorPc[q])
    /\ scanPc[p] = "open" => g_monitorConn = 0
    /\ scanPc[p] \in {"attachLock", "attach", "spawn"} =>
         g_monitorConn # 0 /\ \A q \in Pages : Ended(monitorPc[q])

(* A monitor thread at work is the one ExitWpaScan will cancel; with the   *)
(* connection closed, it has been.                                         *)
ConnInv ==
  /\ OneMonitor
  /\ ui \in {"terminate", "destroy", "cancel"} => g_monitorConn = 0
  /\ \A q \in Pages : ~Ended(monitorPc[q]) =>
       IF Lives(Monitor(q))
       THEN /\ g_wpaThreadId = q
            /\ ui \in {"terminate", "destroy", "cancel"} \/ g_monitorConn # 0
       ELSE g_monitorConn = 0
  /\ ui = "idle" /\ opened > 0 /\ pages = {} =>
       g_monitorConn = 0 /\ \A p \in Pages : Ended(scanPc[p])

Handling == {"receive", "listLock", "write", "unlock"}

(* Each mutex that works is held by the thread that is between its lock    *)
(* and its unlock; they are destroyed together, while nobody holds them;   *)
(* and with the connection closed nobody handles an event.                 *)
LockInv ==
  /\ destroyed \in {{}, Mutexes}
  /\ \A p \in Pages :
       /\ owner["g_monitorConnMutex"] = Scan(p) => scanPc[p] = "attach"
       /\ owner["g_monitorConnMutex"] = Monitor(p) => monitorPc[p] \in Handling
       /\ owner["g_mutex"] = Monitor(p) => monitorPc[p] = "write"
  /\ Works("g_monitorConnMutex") =>
       \A p \in Pages : monitorPc[p] \in Handling =>
         /\ owner["g_monitorConnMutex"] = Monitor(p)
         /\ g_monitorConn # 0

SettledInv == hasty = 0 => ScanInv /\ ConnInv /\ LockInv

IInv == StateOK /\ RowsOK /\ PageInv /\ HolderInv /\ FirstPage /\ SettledInv

-----------------------------------------------------------------------------
(* The list of SSIDs.                                                      *)

(* Every set of numbers has a least element. *)
LEMMA Least ==
  ASSUME NEW T, T \subseteq Nat, T # {}
  PROVE \E x \in T : \A y \in T : x <= y
<1>1. IsWellFoundedOn(OpToRel(<,Nat), Nat)
  BY NatLessThanWellFounded
<1>2. PICK x \in T : \A y \in T : <<y,x>> \notin OpToRel(<,Nat)
  BY <1>1, WFMin
<1>3. \A y \in T : ~(y < x)
  BY <1>2 DEF OpToRel
<1> QED BY <1>3

(* The loop, as far as index n. *)
Upto(list, n, f) ==
  f = [i \in 0..n |-> IF i = 0 THEN <<>>
                      ELSE IF Visible(list[i]) THEN Append(f[i - 1], list[i]) ELSE f[i - 1]]

(* No list of names, however long, has a hidden one left in it: the first  *)
(* index at which the loop went wrong would have one before it.            *)
LEMMA CheckSsidType ==
  ASSUME NEW S, NEW list \in Seq(S)
  PROVE  CheckSsid(list) \in Seq(S \ Hidden)
<1> DEFINE N == Len(list)
           Good(f) == \A i \in DOMAIN f : f[i] \in Seq(S \ Hidden)
           Done == { n \in 0..N : \E f : Upto(list, n, f) /\ Good(f) }
<1>n. N \in Nat /\ \A i \in 1..N : list[i] \in S
  OBVIOUS
<1> HIDE DEF N
<1>1. 0 \in Done
  <2>1. Upto(list, 0, [i \in 0..0 |-> <<>>])
    BY DEF Upto
  <2>2. Good([i \in 0..0 |-> <<>>])
    OBVIOUS
  <2> QED BY <1>n, <2>1, <2>2
<1>2. ASSUME NEW n \in Nat, n + 1 \in 0..N, n \in Done PROVE n + 1 \in Done
  <2>1. PICK f : Upto(list, n, f) /\ Good(f)
    BY <1>2
  <2> DEFINE e == IF Visible(list[n + 1]) THEN Append(f[n], list[n + 1]) ELSE f[n]
             g == [i \in 0..(n + 1) |-> IF i = n + 1 THEN e ELSE f[i]]
  <2>2. DOMAIN f = 0..n /\ \A i \in 0..n : f[i] \in Seq(S \ Hidden)
    BY <2>1 DEF Upto
  <2>3. e \in Seq(S \ Hidden)
    BY <1>n, <1>2, <2>2 DEF Visible
  <2>4. Good(g)
    BY <2>2, <2>3
  <2>5. ASSUME NEW i \in 0..(n + 1)
        PROVE  g[i] = IF i = 0 THEN <<>> ELSE IF Visible(list[i]) THEN Append(g[i - 1], list[i]) ELSE g[i - 1]
    <3>1. CASE i = n + 1
      <4>1. g[i] = e /\ g[i - 1] = f[n] /\ i # 0
        BY <3>1
      <4> HIDE DEF g
      <4> QED BY <3>1, <4>1
    <3>2. CASE i # n + 1
      <4>1. i \in 0..n /\ g[i] = f[i] /\ (i # 0 => g[i - 1] = f[i - 1])
        BY <3>2
      <4>2. f[i] = IF i = 0 THEN <<>> ELSE IF Visible(list[i]) THEN Append(f[i - 1], list[i]) ELSE f[i - 1]
        BY <2>1, <4>1 DEF Upto
      <4> HIDE DEF g
      <4> QED BY <4>1, <4>2
    <3> QED BY <3>1, <3>2
  <2>6. Upto(list, n + 1, g)
    <3>1. g = [i \in 0..(n + 1) |-> g[i]]
      OBVIOUS
    <3> HIDE DEF g
    <3> QED BY <2>5, <3>1 DEF Upto
  <2> HIDE DEF g, e, Good
  <2> QED BY <1>2, <2>4, <2>6
<1> HIDE DEF Done
<1>3. N \in Done
  <2> DEFINE Left == (0..N) \ Done
  <2> SUFFICES ASSUME N \notin Done PROVE FALSE
    OBVIOUS
  <2>0. N \in 0..N /\ 0..N \subseteq Nat
    BY <1>n
  <2>1. Left \subseteq Nat /\ N \in Left
    BY <2>0
  <2>2. PICK n \in Left : \A m \in Left : n <= m
    BY <2>1, Least
  <2>3. n \in 0..N /\ n \notin Done
    OBVIOUS
  <2>4. n # 0 /\ n - 1 \in 0..N /\ n - 1 \in Nat /\ n = (n - 1) + 1 /\ ~(n <= n - 1)
    BY <1>1, <1>n, <2>3
  <2>5. n - 1 \notin Left
    BY <2>2, <2>4
  <2>6. n - 1 \in Done
    BY <2>4, <2>5
  <2> QED BY <1>2, <2>3, <2>4, <2>6
<1>4. PICK f : Upto(list, N, f) /\ Good(f)
  BY <1>3 DEF Done
<1> DEFINE kept == CHOOSE g : Upto(list, N, g)
<1>5. Upto(list, N, kept)
  BY <1>4
<1>6. kept = f
  <2> DEFINE Diff == { i \in 0..N : kept[i] # f[i] }
  <2>1. kept = [i \in 0..N |-> kept[i]] /\ f = [i \in 0..N |-> f[i]]
    BY <1>4, <1>5 DEF Upto
  <2> HIDE DEF kept
  <2>2. ASSUME NEW n \in Diff, \A m \in Diff : n <= m PROVE FALSE
    <3>1. kept[n] # f[n] /\ n \in 0..N
      OBVIOUS
    <3>2. n # 0 => n - 1 \in 0..N /\ kept[n - 1] = f[n - 1]
      BY <2>2, <1>n
    <3>3. \A h : Upto(list, N, h) => h[n] = IF n = 0 THEN <<>> ELSE IF Visible(list[n]) THEN Append(h[n - 1], list[n]) ELSE h[n - 1]
      BY DEF Upto
    <3> QED BY <1>4, <1>5, <3>1, <3>2, <3>3
  <2>3. ASSUME Diff # {} PROVE FALSE
    <3>1. Diff \subseteq Nat
      BY <1>n
    <3> HIDE DEF Diff
    <3> QED BY <2>2, <2>3, <3>1, Least
  <2> QED BY <2>1, <2>3
<1>7. kept[N] \in Seq(S \ Hidden)
  <2>1. DOMAIN f = 0..N /\ N \in 0..N
    BY <1>4, <1>n DEF Upto
  <2> HIDE DEF kept
  <2> QED BY <1>4, <1>6, <2>1
<1>8. CheckSsid(list) = kept[N]
  BY DEF CheckSsid, Upto, N
<1> QED BY <1>7, <1>8

-----------------------------------------------------------------------------
-----------------------------------------------------------------------------
(* Steps.                                                                  *)

(* The threads have different names. *)
LEMMA Names ==
  /\ Ui # Nobody
  /\ \A p, q \in Pages :
       /\ Scan(p) \in Workers /\ Monitor(p) \in Workers
       /\ Scan(p) # Monitor(q)
       /\ Scan(p) \notin {Ui, Nobody} /\ Monitor(p) \notin {Ui, Nobody}
       /\ Scan(p) = Scan(q) => p = q
       /\ Monitor(p) = Monitor(q) => p = q
  /\ \A t \in Workers : \E p \in Pages : t = Scan(p) \/ t = Monitor(p)
BY DEF Scan, Monitor, Workers, Ui, Nobody

(* Every step keeps the types of the locks, the threads and the pages. *)
LEMMA StateNext == StateOK /\ [Next]_vars => StateOK'
<1> SUFFICES ASSUME StateOK, [Next]_vars PROVE StateOK'
  OBVIOUS
<1> USE WpaAssumption DEF Pages, Mutexes, Ended, uiVars, clientVars, lockVars, idVars,
                          threadVars, listVars, eventVars, ScanGoes, MonitorGoes, StateOK,
                          Acquire, Release, Pass
<1>0. CASE UNCHANGED vars
  BY <1>0 DEF vars
<1>1. CASE SendEvent
  BY <1>1 DEF SendEvent
<1>2. ASSUME NEW p \in Pages, ScanWake(p) PROVE StateOK'
  BY <1>2 DEF ScanWake
<1>3. ASSUME NEW p \in Pages, ScanOpen(p) PROVE StateOK'
  BY <1>3 DEF ScanOpen
<1>4. ASSUME NEW p \in Pages, ScanAttachLock(p) PROVE StateOK'
  <2>1. owner' \in {owner, [owner EXCEPT !["g_monitorConnMutex"] = Scan(p)]}
    BY <1>4 DEF ScanAttachLock
  <2>2. conn' \in {conn, [conn EXCEPT ![Scan(p)] = g_monitorConn]}
    BY <1>4 DEF ScanAttachLock
  <2>3. \E to \in {"attach", "ended"} : scanPc' = [scanPc EXCEPT ![p] = to]
    BY <1>4 DEF ScanAttachLock
  <2>4. UNCHANGED <<uiVars, clientVars, destroyed, survives, monitorPc, idVars, cancelled, listVars,
                    eventVars>>
    BY <1>4 DEF ScanAttachLock
  <2>5. Scan(p) \in Workers
    BY <1>4, Names
  <2> QED BY <2>1, <2>2, <2>3, <2>4, <2>5
<1>5. ASSUME NEW p \in Pages, ScanAttach(p) PROVE StateOK'
  <2>1. \E to \in {"spawn", "ended"} : scanPc' = [scanPc EXCEPT ![p] = to]
    BY <1>5 DEF ScanAttach
  <2>2. attached' \in {0, 1}
    BY <1>5 DEF ScanAttach
  <2>3. owner' \in {owner, [owner EXCEPT !["g_monitorConnMutex"] = Nobody]}
    BY <1>5 DEF ScanAttach
  <2>4. conn' = [conn EXCEPT ![Scan(p)] = 0]
    BY <1>5 DEF ScanAttach
  <2>5. UNCHANGED <<uiVars, runStatus, supplicant, g_monitorConn, destroyed, survives, monitorPc,
                    idVars, cancelled, listVars, eventVars>>
    BY <1>5 DEF ScanAttach
  <2>6. scanPc' \in [Pages -> {"none", "sleep", "open", "attachLock", "attach", "spawn", "command",
                              "ended"}]
    BY <2>1
  <2>7. owner' \in [Mutexes -> Workers \cup {Ui, Nobody}]
    BY <2>3
  <2>8. conn' \in [Workers -> {0} \cup Pages]
    BY <2>4
  <2> QED BY <2>2, <2>5, <2>6, <2>7, <2>8
<1>6. ASSUME NEW p \in Pages, ScanSpawn(p) PROVE StateOK'
  BY <1>6 DEF ScanSpawn
<1>7. ASSUME NEW p \in Pages, ScanCommand(p) PROVE StateOK'
  BY <1>7 DEF ScanCommand
<1>8. ASSUME NEW p \in Pages, ScanDies(p) PROVE StateOK'
  BY <1>8 DEF ScanDies
<1>9. ASSUME NEW p \in Pages, MonitorGetFd(p) PROVE StateOK'
  BY <1>9, Names DEF MonitorGetFd
<1>10. ASSUME NEW p \in Pages, MonitorSelect(p) PROVE StateOK'
  BY <1>10, Names DEF MonitorSelect
<1>11. ASSUME NEW p \in Pages, MonitorPendingLock(p) PROVE StateOK'
  <2>1. owner' \in {owner, [owner EXCEPT !["g_monitorConnMutex"] = Monitor(p)]}
    BY <1>11 DEF MonitorPendingLock
  <2>2. \E to \in {"receive", "sleep"} : monitorPc' = [monitorPc EXCEPT ![p] = to]
    BY <1>11 DEF MonitorPendingLock
  <2>3. UNCHANGED <<uiVars, clientVars, destroyed, survives, scanPc, conn, idVars, cancelled,
                    listVars, eventVars>>
    BY <1>11 DEF MonitorPendingLock
  <2>4. Monitor(p) \in Workers
    BY <1>11, Names
  <2> QED BY <2>1, <2>2, <2>3, <2>4
<1>12. ASSUME NEW p \in Pages, MonitorReceive(p) PROVE StateOK'
  BY <1>12 DEF MonitorReceive, AfterEvent
<1>13. ASSUME NEW p \in Pages, MonitorReceiveFails(p) PROVE StateOK'
  <2>0. events \in Seq({"scan", "other"}) /\ events # <<>> /\ events' \in {events, Tail(events)}
    BY <1>13 DEF MonitorReceiveFails
  <2>1. events' \in Seq({"scan", "other"})
    <3> HIDE DEF StateOK
    <3> QED BY <2>0
  <2>2. monitorPc' = [monitorPc EXCEPT ![p] = "unlock"]
    BY <1>13 DEF MonitorReceiveFails
  <2>3. UNCHANGED <<uiVars, clientVars, lockVars, scanPc, conn, idVars, cancelled, listVars, emitted>>
    BY <1>13 DEF MonitorReceiveFails
  <2> QED BY <2>1, <2>2, <2>3
<1>14. ASSUME NEW p \in Pages, MonitorUnlock(p) PROVE StateOK'
  BY <1>14, Names DEF MonitorUnlock
<1>15. ASSUME NEW p \in Pages, MonitorListLock(p) PROVE StateOK'
  BY <1>15, Names DEF MonitorListLock
<1>16. ASSUME NEW p \in Pages, MonitorWrite(p) PROVE StateOK'
  BY <1>16, Names DEF MonitorWrite, AfterEvent
<1>17. ASSUME NEW p \in Pages, MonitorSleep(p) PROVE StateOK'
  BY <1>17 DEF MonitorSleep
<1>18. ASSUME NEW p \in Pages, MonitorDies(p) PROVE StateOK'
  BY <1>18 DEF MonitorDies
<1>19. CASE FirstList
  BY <1>19 DEF FirstList, AddWifi
<1>20. CASE ResetScanStat
  BY <1>20 DEF ResetScanStat
<1>21. CASE LockWifiData
  BY <1>21, Names DEF LockWifiData
<1>22. CASE ListUnderLock
  BY <1>22, Names DEF ListUnderLock, AddWifi
<1>23. CASE CloseMonitorConn
  BY <1>23 DEF CloseMonitorConn
<1>24. CASE Terminate
  BY <1>24 DEF Terminate
<1>25. CASE DestroyMutexes
  BY <1>25 DEF DestroyMutexes
<1>26. CASE ExitWpaScan
  BY <1>26, Names DEF ExitWpaScan
<1>27. CASE OpenPage
  BY <1>27 DEF OpenPage
<1>28. ASSUME NEW p \in pages, ClosePage(p) PROVE StateOK'
  BY <1>28 DEF ClosePage
<1>29. ASSUME NEW p \in pages, ReadScanStat(p) PROVE StateOK'
  BY <1>29 DEF ReadScanStat
<1>30. ASSUME NEW p \in pages, NEW k \in DOMAIN shown[p], Tap(p, k) PROVE StateOK'
  BY <1>30 DEF Tap
<1> QED BY <1>0, <1>1, <1>2, <1>3, <1>4, <1>5, <1>6, <1>7, <1>8, <1>9, <1>10, <1>11, <1>12,
              <1>13, <1>14, <1>15, <1>16, <1>17, <1>18, <1>19, <1>20, <1>21, <1>22, <1>23,
              <1>24, <1>25, <1>26, <1>27, <1>28, <1>29, <1>30
        DEF Next, WpaScanThread, MonitorTask, UiThread, Work, User

(* AddWifi adds rows for the list. *)
LEMMA RowsAdded ==
  ASSUME RowsOK, page \in Pages, NEW status, AddWifi(status)
  PROVE  shown' \in [Pages -> Seq(Row)]
<1> DEFINE new == [i \in 1..Len(g_useSsid) |-> [text |-> g_useSsid[i], at |-> i]]
<1>1. g_useSsid \in Seq(Ssids \ Hidden) /\ shown \in [Pages -> Seq(Row)]
  BY DEF RowsOK
<1>2. \A i \in 1..Len(g_useSsid) : g_useSsid[i] \in Ssids \ Hidden
  BY <1>1
<1>3. \A i \in 1..Len(g_useSsid) : [text |-> g_useSsid[i], at |-> i] \in Row
  BY <1>2 DEF Row
<1>4. new \in Seq(Row)
  <2>1. Len(g_useSsid) \in Nat
    BY <1>1
  <2>2. new \in [1..Len(g_useSsid) -> Row]
    BY <1>3
  <2> HIDE DEF new
  <2> QED BY <2>1, <2>2
<1> HIDE DEF new
<1>5. shown[page] \o new \in Seq(Row)
  BY <1>1, <1>4
<1>6. shown' \in {shown, [shown EXCEPT ![page] = shown[page] \o new]}
  BY DEF AddWifi, new
<1> QED BY <1>1, <1>5, <1>6

(* Every step leaves only visible SSIDs in the rows and in the list. *)
LEMMA RowsNext == StateOK /\ RowsOK /\ [Next]_vars => RowsOK'
<1> SUFFICES ASSUME StateOK, RowsOK, [Next]_vars PROVE RowsOK'
  OBVIOUS
<1> USE WpaAssumption DEF RowsOK, uiVars, listVars
<1>0. CASE UNCHANGED vars
  BY <1>0 DEF vars
<1>1. CASE SendEvent
  BY <1>1 DEF SendEvent
<1>2. ASSUME NEW p \in Pages, ScanWake(p) PROVE RowsOK'
  BY <1>2 DEF ScanWake
<1>3. ASSUME NEW p \in Pages, ScanOpen(p) PROVE RowsOK'
  BY <1>3 DEF ScanOpen
<1>4. ASSUME NEW p \in Pages, ScanAttachLock(p) PROVE RowsOK'
  BY <1>4 DEF ScanAttachLock
<1>5. ASSUME NEW p \in Pages, ScanAttach(p) PROVE RowsOK'
  BY <1>5 DEF ScanAttach
<1>6. ASSUME NEW p \in Pages, ScanSpawn(p) PROVE RowsOK'
  BY <1>6 DEF ScanSpawn
<1>7. ASSUME NEW p \in Pages, ScanCommand(p) PROVE RowsOK'
  BY <1>7 DEF ScanCommand
<1>8. ASSUME NEW p \in Pages, ScanDies(p) PROVE RowsOK'
  BY <1>8 DEF ScanDies
<1>9. ASSUME NEW p \in Pages, MonitorGetFd(p) PROVE RowsOK'
  BY <1>9 DEF MonitorGetFd
<1>10. ASSUME NEW p \in Pages, MonitorSelect(p) PROVE RowsOK'
  BY <1>10 DEF MonitorSelect
<1>11. ASSUME NEW p \in Pages, MonitorPendingLock(p) PROVE RowsOK'
  BY <1>11 DEF MonitorPendingLock
<1>12. ASSUME NEW p \in Pages, MonitorReceive(p) PROVE RowsOK'
  BY <1>12 DEF MonitorReceive
<1>13. ASSUME NEW p \in Pages, MonitorReceiveFails(p) PROVE RowsOK'
  BY <1>13 DEF MonitorReceiveFails
<1>14. ASSUME NEW p \in Pages, MonitorUnlock(p) PROVE RowsOK'
  BY <1>14 DEF MonitorUnlock
<1>15. ASSUME NEW p \in Pages, MonitorListLock(p) PROVE RowsOK'
  BY <1>15 DEF MonitorListLock
<1>16. ASSUME NEW p \in Pages, MonitorWrite(p) PROVE RowsOK'
  <2>1. \A list \in Lists : CheckSsid(list) \in Seq(Ssids \ Hidden)
    BY CheckSsidType
  <2>2. UNCHANGED <<shown, tapped>> /\ g_useSsid' \in Seq(Ssids \ Hidden)
    <3> HIDE DEF RowsOK
    <3>1. <<>> \in Seq(Ssids \ Hidden)
      OBVIOUS
    <3> QED BY <1>16, <2>1, <3>1 DEF MonitorWrite
  <2> QED BY <2>2
<1>17. ASSUME NEW p \in Pages, MonitorSleep(p) PROVE RowsOK'
  BY <1>17 DEF MonitorSleep
<1>18. ASSUME NEW p \in Pages, MonitorDies(p) PROVE RowsOK'
  BY <1>18 DEF MonitorDies
<1>19. CASE FirstList
  <2>1. AddWifi(0) /\ UNCHANGED <<tapped, g_useSsid>>
    BY <1>19 DEF FirstList
  <2> QED BY <2>1, RowsAdded DEF StateOK
<1>20. CASE ResetScanStat
  BY <1>20 DEF ResetScanStat
<1>21. CASE LockWifiData
  BY <1>21 DEF LockWifiData
<1>22. CASE ListUnderLock
  <2>1. AddWifi(g_wifiStatus) /\ UNCHANGED <<tapped, g_useSsid>>
    BY <1>22 DEF ListUnderLock
  <2> QED BY <2>1, RowsAdded DEF StateOK
<1>23. CASE CloseMonitorConn
  BY <1>23 DEF CloseMonitorConn
<1>24. CASE Terminate
  BY <1>24 DEF Terminate
<1>25. CASE DestroyMutexes
  BY <1>25 DEF DestroyMutexes
<1>26. CASE ExitWpaScan
  BY <1>26 DEF ExitWpaScan
<1>27. CASE OpenPage
  BY <1>27 DEF OpenPage
<1>28. ASSUME NEW p \in pages, ClosePage(p) PROVE RowsOK'
  BY <1>28 DEF ClosePage
<1>29. ASSUME NEW p \in pages, ReadScanStat(p) PROVE RowsOK'
  BY <1>29 DEF ReadScanStat
<1>30. ASSUME NEW p \in pages, NEW k \in DOMAIN shown[p], Tap(p, k) PROVE RowsOK'
  <2>1. UNCHANGED <<shown, g_useSsid>>
    BY <1>30 DEF Tap
  <2>2. shown[p] \in Seq(Row)
    BY DEF StateOK
  <2>3. shown[p][k] \in Row
    <3> HIDE DEF RowsOK
    <3> QED BY <1>30, <2>2
  <2>4. g_useSsid \in Seq(Ssids \ Hidden)
    OBVIOUS
  <2> HIDE DEF RowsOK
  <2> DEFINE row == shown[p][k]
  <2>5. row.text \in Ssids \ Hidden /\ row.at \in Nat \ {0}
    BY <2>3 DEF Row
  <2>6. \A n \in Nat \ {0} :
          (IF n <= Len(g_useSsid) THEN g_useSsid[n] ELSE "") \in Ssids \cup {""}
    <3>1. \A n \in Nat \ {0} : n <= Len(g_useSsid) => g_useSsid[n] \in Ssids
      BY <2>4
    <3> QED BY <3>1, Zenon
  <2>7. tapped' \in (Ssids \ Hidden) \X (Ssids \cup {""})
    BY <1>30, <2>5, <2>6 DEF Tap
  <2> QED BY <2>1, <2>7 DEF RowsOK
<1> QED BY <1>0, <1>1, <1>2, <1>3, <1>4, <1>5, <1>6, <1>7, <1>8, <1>9, <1>10, <1>11, <1>12,
              <1>13, <1>14, <1>15, <1>16, <1>17, <1>18, <1>19, <1>20, <1>21, <1>22, <1>23,
              <1>24, <1>25, <1>26, <1>27, <1>28, <1>29, <1>30
        DEF Next, WpaScanThread, MonitorTask, UiThread, Work, User

(* Every step of the UI thread works for a page that is open, and threads  *)
(* are created in order.                                                   *)
LEMMA PageNext == StateOK /\ PageInv /\ [Next]_vars => PageInv'
<1> SUFFICES ASSUME StateOK, PageInv, [Next]_vars PROVE PageInv'
  OBVIOUS
<1> USE WpaAssumption DEF Pages, Mutexes, Ended, uiVars, clientVars, lockVars, idVars,
                          threadVars, listVars, eventVars, ScanGoes, MonitorGoes, StateOK,
                          PageInv, Lives
<1>0. CASE UNCHANGED vars
  BY <1>0 DEF vars
<1>1. CASE SendEvent
  BY <1>1 DEF SendEvent
<1>2. ASSUME NEW p \in Pages, ScanWake(p) PROVE PageInv'
  BY <1>2, Names DEF ScanWake
<1>3. ASSUME NEW p \in Pages, ScanOpen(p) PROVE PageInv'
  BY <1>3, Names DEF ScanOpen
<1>4. ASSUME NEW p \in Pages, ScanAttachLock(p) PROVE PageInv'
  BY <1>4, Names DEF ScanAttachLock
<1>5. ASSUME NEW p \in Pages, ScanAttach(p) PROVE PageInv'
  BY <1>5, Names DEF ScanAttach
<1>6. ASSUME NEW p \in Pages, ScanSpawn(p) PROVE PageInv'
  BY <1>6, Names DEF ScanSpawn
<1>7. ASSUME NEW p \in Pages, ScanCommand(p) PROVE PageInv'
  BY <1>7, Names DEF ScanCommand
<1>8. ASSUME NEW p \in Pages, ScanDies(p) PROVE PageInv'
  BY <1>8, Names DEF ScanDies
<1>9. ASSUME NEW p \in Pages, MonitorGetFd(p) PROVE PageInv'
  BY <1>9, Names DEF MonitorGetFd
<1>10. ASSUME NEW p \in Pages, MonitorSelect(p) PROVE PageInv'
  BY <1>10, Names DEF MonitorSelect
<1>11. ASSUME NEW p \in Pages, MonitorPendingLock(p) PROVE PageInv'
  BY <1>11, Names DEF MonitorPendingLock
<1>12. ASSUME NEW p \in Pages, MonitorReceive(p) PROVE PageInv'
  BY <1>12, Names DEF MonitorReceive, AfterEvent
<1>13. ASSUME NEW p \in Pages, MonitorReceiveFails(p) PROVE PageInv'
  BY <1>13, Names DEF MonitorReceiveFails
<1>14. ASSUME NEW p \in Pages, MonitorUnlock(p) PROVE PageInv'
  BY <1>14, Names DEF MonitorUnlock
<1>15. ASSUME NEW p \in Pages, MonitorListLock(p) PROVE PageInv'
  BY <1>15, Names DEF MonitorListLock
<1>16. ASSUME NEW p \in Pages, MonitorWrite(p) PROVE PageInv'
  BY <1>16, Names DEF MonitorWrite, AfterEvent
<1>17. ASSUME NEW p \in Pages, MonitorSleep(p) PROVE PageInv'
  BY <1>17, Names DEF MonitorSleep
<1>18. ASSUME NEW p \in Pages, MonitorDies(p) PROVE PageInv'
  BY <1>18, Names DEF MonitorDies
<1>19. CASE FirstList
  BY <1>19, Names DEF FirstList
<1>20. CASE ResetScanStat
  BY <1>20, Names DEF ResetScanStat
<1>21. CASE LockWifiData
  BY <1>21, Names DEF LockWifiData
<1>22. CASE ListUnderLock
  BY <1>22, Names DEF ListUnderLock
<1>23. CASE CloseMonitorConn
  BY <1>23, Names DEF CloseMonitorConn
<1>24. CASE Terminate
  BY <1>24, Names DEF Terminate
<1>25. CASE DestroyMutexes
  BY <1>25, Names DEF DestroyMutexes
<1>26. CASE ExitWpaScan
  BY <1>26, Names DEF ExitWpaScan
<1>27. CASE OpenPage
  BY <1>27, Names DEF OpenPage
<1>28. ASSUME NEW p \in pages, ClosePage(p) PROVE PageInv'
  BY <1>28, Names DEF ClosePage
<1>29. ASSUME NEW p \in pages, ReadScanStat(p) PROVE PageInv'
  BY <1>29, Names DEF ReadScanStat
<1>30. ASSUME NEW p \in pages, NEW k \in DOMAIN shown[p], Tap(p, k) PROVE PageInv'
  BY <1>30, Names DEF Tap
<1> QED BY <1>0, <1>1, <1>2, <1>3, <1>4, <1>5, <1>6, <1>7, <1>8, <1>9, <1>10, <1>11, <1>12,
              <1>13, <1>14, <1>15, <1>16, <1>17, <1>18, <1>19, <1>20, <1>21, <1>22, <1>23,
              <1>24, <1>25, <1>26, <1>27, <1>28, <1>29, <1>30
        DEF Next, WpaScanThread, MonitorTask, UiThread, Work, User

(* Every step keeps the account of the mutexes' holders.                   *)
LEMMA HolderNext == StateOK /\ HolderInv /\ [Next]_vars => HolderInv'
<1> SUFFICES ASSUME StateOK, HolderInv, [Next]_vars PROVE HolderInv'
  OBVIOUS
<1> USE WpaAssumption DEF Mutexes, Ended, uiVars, clientVars, lockVars, idVars, threadVars,
                          listVars, eventVars, ScanGoes, MonitorGoes, StateOK, Acquire, Release,
                          Pass, HolderInv, Works, Free
<1>0. CASE UNCHANGED vars
  BY <1>0 DEF vars
<1>1. CASE SendEvent
  BY <1>1 DEF SendEvent
<1>2. ASSUME NEW p \in Pages, ScanWake(p) PROVE HolderInv'
  BY <1>2, Names DEF ScanWake
<1>3. ASSUME NEW p \in Pages, ScanOpen(p) PROVE HolderInv'
  BY <1>3, Names DEF ScanOpen
<1>4. ASSUME NEW p \in Pages, ScanAttachLock(p) PROVE HolderInv'
  BY <1>4, Names DEF ScanAttachLock
<1>5. ASSUME NEW p \in Pages, ScanAttach(p) PROVE HolderInv'
  BY <1>5, Names DEF ScanAttach
<1>6. ASSUME NEW p \in Pages, ScanSpawn(p) PROVE HolderInv'
  BY <1>6, Names DEF ScanSpawn
<1>7. ASSUME NEW p \in Pages, ScanCommand(p) PROVE HolderInv'
  BY <1>7, Names DEF ScanCommand
<1>8. ASSUME NEW p \in Pages, ScanDies(p) PROVE HolderInv'
  BY <1>8, Names DEF ScanDies
<1>9. ASSUME NEW p \in Pages, MonitorGetFd(p) PROVE HolderInv'
  BY <1>9, Names DEF MonitorGetFd
<1>10. ASSUME NEW p \in Pages, MonitorSelect(p) PROVE HolderInv'
  BY <1>10, Names DEF MonitorSelect
<1>11. ASSUME NEW p \in Pages, MonitorPendingLock(p) PROVE HolderInv'
  BY <1>11, Names DEF MonitorPendingLock
<1>12. ASSUME NEW p \in Pages, MonitorReceive(p) PROVE HolderInv'
  BY <1>12, Names DEF MonitorReceive, AfterEvent
<1>13. ASSUME NEW p \in Pages, MonitorReceiveFails(p) PROVE HolderInv'
  BY <1>13, Names DEF MonitorReceiveFails
<1>14. ASSUME NEW p \in Pages, MonitorUnlock(p) PROVE HolderInv'
  BY <1>14, Names DEF MonitorUnlock
<1>15. ASSUME NEW p \in Pages, MonitorListLock(p) PROVE HolderInv'
  BY <1>15, Names DEF MonitorListLock
<1>16. ASSUME NEW p \in Pages, MonitorWrite(p) PROVE HolderInv'
  BY <1>16, Names DEF MonitorWrite, AfterEvent
<1>17. ASSUME NEW p \in Pages, MonitorSleep(p) PROVE HolderInv'
  BY <1>17, Names DEF MonitorSleep
<1>18. ASSUME NEW p \in Pages, MonitorDies(p) PROVE HolderInv'
  BY <1>18, Names DEF MonitorDies
<1>19. CASE FirstList
  BY <1>19, Names DEF FirstList
<1>20. CASE ResetScanStat
  BY <1>20, Names DEF ResetScanStat
<1>21. CASE LockWifiData
  BY <1>21, Names DEF LockWifiData
<1>22. CASE ListUnderLock
  BY <1>22, Names DEF ListUnderLock
<1>23. CASE CloseMonitorConn
  BY <1>23, Names DEF CloseMonitorConn
<1>24. CASE Terminate
  BY <1>24, Names DEF Terminate
<1>25. CASE DestroyMutexes
  BY <1>25, Names DEF DestroyMutexes
<1>26. CASE ExitWpaScan
  BY <1>26, Names DEF ExitWpaScan
<1>27. CASE OpenPage
  BY <1>27, Names DEF OpenPage
<1>28. ASSUME NEW p \in pages, ClosePage(p) PROVE HolderInv'
  BY <1>28, Names DEF ClosePage
<1>29. ASSUME NEW p \in pages, ReadScanStat(p) PROVE HolderInv'
  BY <1>29, Names DEF ReadScanStat
<1>30. ASSUME NEW p \in pages, NEW k \in DOMAIN shown[p], Tap(p, k) PROVE HolderInv'
  BY <1>30, Names DEF Tap
<1> QED BY <1>0, <1>1, <1>2, <1>3, <1>4, <1>5, <1>6, <1>7, <1>8, <1>9, <1>10, <1>11, <1>12,
              <1>13, <1>14, <1>15, <1>16, <1>17, <1>18, <1>19, <1>20, <1>21, <1>22, <1>23,
              <1>24, <1>25, <1>26, <1>27, <1>28, <1>29, <1>30
        DEF Next, WpaScanThread, MonitorTask, UiThread, Work, User

(* No step destroys a mutex before the first page is left.                 *)
LEMMA FirstNext == StateOK /\ PageInv /\ FirstPage /\ [Next]_vars => FirstPage'
<1> SUFFICES ASSUME StateOK, PageInv, FirstPage, [Next]_vars PROVE FirstPage'
  OBVIOUS
<1> USE WpaAssumption DEF Pages, Mutexes, Ended, uiVars, clientVars, lockVars, idVars,
                          threadVars, listVars, eventVars, ScanGoes, MonitorGoes, StateOK,
                          Acquire, Release, Pass, FirstPage, PageInv
<1>0. CASE UNCHANGED vars
  BY <1>0 DEF vars
<1>1. CASE SendEvent
  BY <1>1 DEF SendEvent
<1>2. ASSUME NEW p \in Pages, ScanWake(p) PROVE FirstPage'
  BY <1>2 DEF ScanWake
<1>3. ASSUME NEW p \in Pages, ScanOpen(p) PROVE FirstPage'
  BY <1>3 DEF ScanOpen
<1>4. ASSUME NEW p \in Pages, ScanAttachLock(p) PROVE FirstPage'
  BY <1>4 DEF ScanAttachLock
<1>5. ASSUME NEW p \in Pages, ScanAttach(p) PROVE FirstPage'
  BY <1>5 DEF ScanAttach
<1>6. ASSUME NEW p \in Pages, ScanSpawn(p) PROVE FirstPage'
  BY <1>6 DEF ScanSpawn
<1>7. ASSUME NEW p \in Pages, ScanCommand(p) PROVE FirstPage'
  BY <1>7 DEF ScanCommand
<1>8. ASSUME NEW p \in Pages, ScanDies(p) PROVE FirstPage'
  BY <1>8 DEF ScanDies
<1>9. ASSUME NEW p \in Pages, MonitorGetFd(p) PROVE FirstPage'
  BY <1>9 DEF MonitorGetFd
<1>10. ASSUME NEW p \in Pages, MonitorSelect(p) PROVE FirstPage'
  BY <1>10 DEF MonitorSelect
<1>11. ASSUME NEW p \in Pages, MonitorPendingLock(p) PROVE FirstPage'
  BY <1>11 DEF MonitorPendingLock
<1>12. ASSUME NEW p \in Pages, MonitorReceive(p) PROVE FirstPage'
  BY <1>12 DEF MonitorReceive
<1>13. ASSUME NEW p \in Pages, MonitorReceiveFails(p) PROVE FirstPage'
  BY <1>13 DEF MonitorReceiveFails
<1>14. ASSUME NEW p \in Pages, MonitorUnlock(p) PROVE FirstPage'
  BY <1>14 DEF MonitorUnlock
<1>15. ASSUME NEW p \in Pages, MonitorListLock(p) PROVE FirstPage'
  BY <1>15 DEF MonitorListLock
<1>16. ASSUME NEW p \in Pages, MonitorWrite(p) PROVE FirstPage'
  BY <1>16 DEF MonitorWrite
<1>17. ASSUME NEW p \in Pages, MonitorSleep(p) PROVE FirstPage'
  BY <1>17 DEF MonitorSleep
<1>18. ASSUME NEW p \in Pages, MonitorDies(p) PROVE FirstPage'
  BY <1>18 DEF MonitorDies
<1>19. CASE FirstList
  BY <1>19 DEF FirstList
<1>20. CASE ResetScanStat
  BY <1>20 DEF ResetScanStat
<1>21. CASE LockWifiData
  BY <1>21 DEF LockWifiData
<1>22. CASE ListUnderLock
  BY <1>22 DEF ListUnderLock
<1>23. CASE CloseMonitorConn
  BY <1>23 DEF CloseMonitorConn
<1>24. CASE Terminate
  BY <1>24 DEF Terminate
<1>25. CASE DestroyMutexes
  BY <1>25 DEF DestroyMutexes
<1>26. CASE ExitWpaScan
  <2>1. ui = "cancel" /\ pages' = pages \ {page} /\ opened' = opened /\ page \in pages /\ opened # 0
    BY <1>26 DEF ExitWpaScan
  <2>2. opened = 1 => pages' = {}
    BY <2>1
  <2> QED BY <2>1, <2>2
<1>27. CASE OpenPage
  BY <1>27 DEF OpenPage
<1>28. ASSUME NEW p \in pages, ClosePage(p) PROVE FirstPage'
  BY <1>28 DEF ClosePage
<1>29. ASSUME NEW p \in pages, ReadScanStat(p) PROVE FirstPage'
  BY <1>29 DEF ReadScanStat
<1>30. ASSUME NEW p \in pages, NEW k \in DOMAIN shown[p], Tap(p, k) PROVE FirstPage'
  BY <1>30 DEF Tap
<1> QED BY <1>0, <1>1, <1>2, <1>3, <1>4, <1>5, <1>6, <1>7, <1>8, <1>9, <1>10, <1>11, <1>12,
              <1>13, <1>14, <1>15, <1>16, <1>17, <1>18, <1>19, <1>20, <1>21, <1>22, <1>23,
              <1>24, <1>25, <1>26, <1>27, <1>28, <1>29, <1>30
        DEF Next, WpaScanThread, MonitorTask, UiThread, Work, User

(* Every step keeps what the scan thread relies on.                        *)
LEMMA ScanNext == StateOK /\ PageInv /\ SettledInv /\ [Next]_vars => (hasty = 0 => ScanInv)'
<1> SUFFICES ASSUME StateOK, PageInv, SettledInv, [Next]_vars PROVE (hasty = 0 => ScanInv)'
  OBVIOUS
<1> USE WpaAssumption DEF Pages, Mutexes, Ended, uiVars, clientVars, lockVars, idVars,
                          threadVars, listVars, eventVars, ScanGoes, MonitorGoes, StateOK,
                          Acquire, Release, Pass, PageInv, SettledInv, ScanInv, ConnInv,
                          Leaving, Lives
<1>0. CASE UNCHANGED vars
  BY <1>0 DEF vars
<1>1. CASE SendEvent
  BY <1>1 DEF SendEvent
<1>2. ASSUME NEW p \in Pages, ScanWake(p) PROVE (hasty = 0 => ScanInv)'
  BY <1>2, Names DEF ScanWake
<1>3. ASSUME NEW p \in Pages, ScanOpen(p) PROVE (hasty = 0 => ScanInv)'
  BY <1>3, Names DEF ScanOpen
<1>4. ASSUME NEW p \in Pages, ScanAttachLock(p) PROVE (hasty = 0 => ScanInv)'
  BY <1>4, Names DEF ScanAttachLock
<1>5. ASSUME NEW p \in Pages, ScanAttach(p) PROVE (hasty = 0 => ScanInv)'
  BY <1>5, Names DEF ScanAttach
<1>6. ASSUME NEW p \in Pages, ScanSpawn(p) PROVE (hasty = 0 => ScanInv)'
  BY <1>6, Names DEF ScanSpawn
<1>7. ASSUME NEW p \in Pages, ScanCommand(p) PROVE (hasty = 0 => ScanInv)'
  BY <1>7, Names DEF ScanCommand
<1>8. ASSUME NEW p \in Pages, ScanDies(p) PROVE (hasty = 0 => ScanInv)'
  BY <1>8, Names DEF ScanDies
<1>9. ASSUME NEW p \in Pages, MonitorGetFd(p) PROVE (hasty = 0 => ScanInv)'
  BY <1>9, Names DEF MonitorGetFd
<1>10. ASSUME NEW p \in Pages, MonitorSelect(p) PROVE (hasty = 0 => ScanInv)'
  BY <1>10, Names DEF MonitorSelect
<1>11. ASSUME NEW p \in Pages, MonitorPendingLock(p) PROVE (hasty = 0 => ScanInv)'
  BY <1>11, Names DEF MonitorPendingLock
<1>12. ASSUME NEW p \in Pages, MonitorReceive(p) PROVE (hasty = 0 => ScanInv)'
  BY <1>12, Names DEF MonitorReceive, AfterEvent
<1>13. ASSUME NEW p \in Pages, MonitorReceiveFails(p) PROVE (hasty = 0 => ScanInv)'
  BY <1>13, Names DEF MonitorReceiveFails
<1>14. ASSUME NEW p \in Pages, MonitorUnlock(p) PROVE (hasty = 0 => ScanInv)'
  BY <1>14, Names DEF MonitorUnlock
<1>15. ASSUME NEW p \in Pages, MonitorListLock(p) PROVE (hasty = 0 => ScanInv)'
  BY <1>15, Names DEF MonitorListLock
<1>16. ASSUME NEW p \in Pages, MonitorWrite(p) PROVE (hasty = 0 => ScanInv)'
  BY <1>16, Names DEF MonitorWrite, AfterEvent
<1>17. ASSUME NEW p \in Pages, MonitorSleep(p) PROVE (hasty = 0 => ScanInv)'
  BY <1>17, Names DEF MonitorSleep
<1>18. ASSUME NEW p \in Pages, MonitorDies(p) PROVE (hasty = 0 => ScanInv)'
  BY <1>18, Names DEF MonitorDies
<1>19. CASE FirstList
  BY <1>19, Names DEF FirstList
<1>20. CASE ResetScanStat
  BY <1>20, Names DEF ResetScanStat
<1>21. CASE LockWifiData
  BY <1>21, Names DEF LockWifiData
<1>22. CASE ListUnderLock
  BY <1>22, Names DEF ListUnderLock
<1>23. CASE CloseMonitorConn
  BY <1>23, Names DEF CloseMonitorConn
<1>24. CASE Terminate
  BY <1>24, Names DEF Terminate
<1>25. CASE DestroyMutexes
  BY <1>25, Names DEF DestroyMutexes
<1>26. CASE ExitWpaScan
  BY <1>26, Names DEF ExitWpaScan
<1>27. CASE OpenPage
  BY <1>27, Names DEF OpenPage, Settled
<1>28. ASSUME NEW p \in pages, ClosePage(p) PROVE (hasty = 0 => ScanInv)'
  BY <1>28, Names DEF ClosePage
<1>29. ASSUME NEW p \in pages, ReadScanStat(p) PROVE (hasty = 0 => ScanInv)'
  BY <1>29, Names DEF ReadScanStat
<1>30. ASSUME NEW p \in pages, NEW k \in DOMAIN shown[p], Tap(p, k) PROVE (hasty = 0 => ScanInv)'
  BY <1>30, Names DEF Tap
<1> QED BY <1>0, <1>1, <1>2, <1>3, <1>4, <1>5, <1>6, <1>7, <1>8, <1>9, <1>10, <1>11, <1>12,
              <1>13, <1>14, <1>15, <1>16, <1>17, <1>18, <1>19, <1>20, <1>21, <1>22, <1>23,
              <1>24, <1>25, <1>26, <1>27, <1>28, <1>29, <1>30
        DEF Next, WpaScanThread, MonitorTask, UiThread, Work, User

(* Every step keeps what ties the monitor thread to its connection.        *)
LEMMA ConnNext == StateOK /\ PageInv /\ SettledInv /\ [Next]_vars => (hasty = 0 => ConnInv)'
<1> SUFFICES ASSUME StateOK, PageInv, SettledInv, [Next]_vars PROVE (hasty = 0 => ConnInv)'
  OBVIOUS
<1> USE WpaAssumption DEF Pages, Mutexes, Ended, uiVars, clientVars, lockVars, idVars,
                          threadVars, listVars, eventVars, ScanGoes, MonitorGoes, StateOK,
                          Acquire, Release, Pass, PageInv, SettledInv, ScanInv, ConnInv,
                          Leaving, Lives, OneMonitor
<1>0. CASE UNCHANGED vars
  BY <1>0 DEF vars
<1>1. CASE SendEvent
  BY <1>1 DEF SendEvent
<1>2. ASSUME NEW p \in Pages, ScanWake(p) PROVE (hasty = 0 => ConnInv)'
  BY <1>2, Names DEF ScanWake
<1>3. ASSUME NEW p \in Pages, ScanOpen(p) PROVE (hasty = 0 => ConnInv)'
  BY <1>3, Names DEF ScanOpen
<1>4. ASSUME NEW p \in Pages, ScanAttachLock(p) PROVE (hasty = 0 => ConnInv)'
  BY <1>4, Names DEF ScanAttachLock
<1>5. ASSUME NEW p \in Pages, ScanAttach(p) PROVE (hasty = 0 => ConnInv)'
  BY <1>5, Names DEF ScanAttach
<1>6. ASSUME NEW p \in Pages, ScanSpawn(p) PROVE (hasty = 0 => ConnInv)'
  BY <1>6, Names DEF ScanSpawn
<1>7. ASSUME NEW p \in Pages, ScanCommand(p) PROVE (hasty = 0 => ConnInv)'
  BY <1>7, Names DEF ScanCommand
<1>8. ASSUME NEW p \in Pages, ScanDies(p) PROVE (hasty = 0 => ConnInv)'
  BY <1>8, Names DEF ScanDies
<1>9. ASSUME NEW p \in Pages, MonitorGetFd(p) PROVE (hasty = 0 => ConnInv)'
  BY <1>9, Names DEF MonitorGetFd
<1>10. ASSUME NEW p \in Pages, MonitorSelect(p) PROVE (hasty = 0 => ConnInv)'
  BY <1>10, Names DEF MonitorSelect
<1>11. ASSUME NEW p \in Pages, MonitorPendingLock(p) PROVE (hasty = 0 => ConnInv)'
  <2>1. CASE g_monitorConn # 0
    <3>1. \E to \in {"receive", "sleep"} :
            monitorPc[p] = "pendingLock" /\ monitorPc' = [monitorPc EXCEPT ![p] = to]
      BY <1>11 DEF MonitorPendingLock
    <3>2. UNCHANGED <<uiVars, clientVars, scanPc, conn, idVars, cancelled>>
      BY <1>11 DEF MonitorPendingLock
    <3>3. \A q \in Pages : Ended(monitorPc'[q]) <=> Ended(monitorPc[q])
      BY <3>1
    <3> HIDE DEF Ended
    <3> QED BY <3>2, <3>3
  <2>2. CASE g_monitorConn = 0
    <3>1. monitorPc[p] = "pendingLock" /\ monitorPc' = [monitorPc EXCEPT ![p] = "sleep"]
      BY <1>11, <2>2 DEF MonitorPendingLock
    <3>2. UNCHANGED <<uiVars, clientVars, scanPc, conn, idVars, cancelled>>
      BY <1>11 DEF MonitorPendingLock
    <3>3. \A q \in Pages : Ended(monitorPc'[q]) <=> Ended(monitorPc[q])
      BY <3>1
    <3> HIDE DEF Ended
    <3> QED BY <3>2, <3>3
  <2> QED BY <2>1, <2>2
<1>12. ASSUME NEW p \in Pages, MonitorReceive(p) PROVE (hasty = 0 => ConnInv)'
  BY <1>12, Names DEF MonitorReceive, AfterEvent
<1>13. ASSUME NEW p \in Pages, MonitorReceiveFails(p) PROVE (hasty = 0 => ConnInv)'
  BY <1>13, Names DEF MonitorReceiveFails
<1>14. ASSUME NEW p \in Pages, MonitorUnlock(p) PROVE (hasty = 0 => ConnInv)'
  BY <1>14, Names DEF MonitorUnlock
<1>15. ASSUME NEW p \in Pages, MonitorListLock(p) PROVE (hasty = 0 => ConnInv)'
  BY <1>15, Names DEF MonitorListLock
<1>16. ASSUME NEW p \in Pages, MonitorWrite(p) PROVE (hasty = 0 => ConnInv)'
  BY <1>16, Names DEF MonitorWrite, AfterEvent
<1>17. ASSUME NEW p \in Pages, MonitorSleep(p) PROVE (hasty = 0 => ConnInv)'
  BY <1>17, Names DEF MonitorSleep
<1>18. ASSUME NEW p \in Pages, MonitorDies(p) PROVE (hasty = 0 => ConnInv)'
  BY <1>18, Names DEF MonitorDies
<1>19. CASE FirstList
  BY <1>19, Names DEF FirstList
<1>20. CASE ResetScanStat
  BY <1>20, Names DEF ResetScanStat
<1>21. CASE LockWifiData
  BY <1>21, Names DEF LockWifiData
<1>22. CASE ListUnderLock
  BY <1>22, Names DEF ListUnderLock
<1>23. CASE CloseMonitorConn
  BY <1>23, Names DEF CloseMonitorConn
<1>24. CASE Terminate
  BY <1>24, Names DEF Terminate
<1>25. CASE DestroyMutexes
  BY <1>25, Names DEF DestroyMutexes
<1>26. CASE ExitWpaScan
  BY <1>26, Names DEF ExitWpaScan
<1>27. CASE OpenPage
  BY <1>27, Names DEF OpenPage, Settled
<1>28. ASSUME NEW p \in pages, ClosePage(p) PROVE (hasty = 0 => ConnInv)'
  BY <1>28, Names DEF ClosePage
<1>29. ASSUME NEW p \in pages, ReadScanStat(p) PROVE (hasty = 0 => ConnInv)'
  BY <1>29, Names DEF ReadScanStat
<1>30. ASSUME NEW p \in pages, NEW k \in DOMAIN shown[p], Tap(p, k) PROVE (hasty = 0 => ConnInv)'
  BY <1>30, Names DEF Tap
<1> QED BY <1>0, <1>1, <1>2, <1>3, <1>4, <1>5, <1>6, <1>7, <1>8, <1>9, <1>10, <1>11, <1>12,
              <1>13, <1>14, <1>15, <1>16, <1>17, <1>18, <1>19, <1>20, <1>21, <1>22, <1>23,
              <1>24, <1>25, <1>26, <1>27, <1>28, <1>29, <1>30
        DEF Next, WpaScanThread, MonitorTask, UiThread, Work, User

(* Every step keeps the account of the locks.                              *)
LEMMA LockNext == StateOK /\ PageInv /\ HolderInv /\ SettledInv /\ [Next]_vars => (hasty = 0 => LockInv)'
<1> SUFFICES ASSUME StateOK, PageInv, HolderInv, SettledInv, [Next]_vars PROVE (hasty = 0 => LockInv)'
  OBVIOUS
<1> USE WpaAssumption DEF Pages, Mutexes, Ended, uiVars, clientVars, lockVars, idVars,
                          threadVars, listVars, eventVars, ScanGoes, MonitorGoes, StateOK,
                          Acquire, Release, Pass, PageInv, SettledInv, ScanInv, ConnInv,
                          Leaving, Lives, HolderInv, LockInv, Works, Free, Handling
<1>0. CASE UNCHANGED vars
  BY <1>0 DEF vars
<1>1. CASE SendEvent
  BY <1>1 DEF SendEvent
<1>2. ASSUME NEW p \in Pages, ScanWake(p) PROVE (hasty = 0 => LockInv)'
  BY <1>2, Names DEF ScanWake
<1>3. ASSUME NEW p \in Pages, ScanOpen(p) PROVE (hasty = 0 => LockInv)'
  BY <1>3, Names DEF ScanOpen
<1>4. ASSUME NEW p \in Pages, ScanAttachLock(p) PROVE (hasty = 0 => LockInv)'
  <2>0. UNCHANGED <<uiVars, clientVars, destroyed, survives, monitorPc>> /\ scanPc[p] = "attachLock"
    BY <1>4 DEF ScanAttachLock
  <2>1. CASE g_monitorConn # 0
    <3>1. scanPc' = [scanPc EXCEPT ![p] = "attach"]
      BY <1>4, <2>1 DEF ScanAttachLock
    <3>2. IF Works("g_monitorConnMutex")
          THEN /\ owner["g_monitorConnMutex"] = Nobody
               /\ owner' = [owner EXCEPT !["g_monitorConnMutex"] = Scan(p)]
          ELSE owner' = owner
      BY <1>4, <2>1 DEF ScanAttachLock
    <3> QED BY <2>0, <2>1, <3>1, <3>2, Names
  <2>2. CASE g_monitorConn = 0
    <3>1. scanPc' = [scanPc EXCEPT ![p] = "ended"] /\ UNCHANGED owner
      BY <1>4, <2>2 DEF ScanAttachLock
    <3> QED BY <2>0, <3>1, Names
  <2> QED BY <2>1, <2>2
<1>5. ASSUME NEW p \in Pages, ScanAttach(p) PROVE (hasty = 0 => LockInv)'
  BY <1>5, Names DEF ScanAttach
<1>6. ASSUME NEW p \in Pages, ScanSpawn(p) PROVE (hasty = 0 => LockInv)'
  BY <1>6, Names DEF ScanSpawn
<1>7. ASSUME NEW p \in Pages, ScanCommand(p) PROVE (hasty = 0 => LockInv)'
  BY <1>7, Names DEF ScanCommand
<1>8. ASSUME NEW p \in Pages, ScanDies(p) PROVE (hasty = 0 => LockInv)'
  BY <1>8, Names DEF ScanDies
<1>9. ASSUME NEW p \in Pages, MonitorGetFd(p) PROVE (hasty = 0 => LockInv)'
  BY <1>9, Names DEF MonitorGetFd
<1>10. ASSUME NEW p \in Pages, MonitorSelect(p) PROVE (hasty = 0 => LockInv)'
  <2>1. \E to \in {"pendingLock", "ended"} :
          monitorPc[p] = "select" /\ monitorPc' = [monitorPc EXCEPT ![p] = to]
    BY <1>10 DEF MonitorSelect
  <2>2. UNCHANGED <<uiVars, clientVars, lockVars, scanPc>>
    BY <1>10 DEF MonitorSelect
  <2> QED BY <2>1, <2>2, Names
<1>11. ASSUME NEW p \in Pages, MonitorPendingLock(p) PROVE (hasty = 0 => LockInv)'
  <2>0. UNCHANGED <<uiVars, clientVars, destroyed, survives, scanPc>> /\ monitorPc[p] = "pendingLock"
    BY <1>11 DEF MonitorPendingLock
  <2>1. CASE g_monitorConn # 0 /\ events # <<>>
    <3>1. monitorPc' = [monitorPc EXCEPT ![p] = "receive"]
      BY <1>11, <2>1 DEF MonitorPendingLock
    <3>2. IF Works("g_monitorConnMutex")
          THEN /\ owner["g_monitorConnMutex"] = Nobody
               /\ owner' = [owner EXCEPT !["g_monitorConnMutex"] = Monitor(p)]
          ELSE owner' = owner
      BY <1>11, <2>1 DEF MonitorPendingLock
    <3> QED BY <2>0, <2>1, <3>1, <3>2, Names
  <2>2. CASE ~(g_monitorConn # 0 /\ events # <<>>)
    <3>1. monitorPc' = [monitorPc EXCEPT ![p] = "sleep"] /\ UNCHANGED owner
      BY <1>11, <2>2 DEF MonitorPendingLock
    <3> QED BY <2>0, <3>1, Names
  <2> QED BY <2>1, <2>2
<1>12. ASSUME NEW p \in Pages, MonitorReceive(p) PROVE (hasty = 0 => LockInv)'
  BY <1>12, Names DEF MonitorReceive, AfterEvent
<1>13. ASSUME NEW p \in Pages, MonitorReceiveFails(p) PROVE (hasty = 0 => LockInv)'
  BY <1>13, Names DEF MonitorReceiveFails
<1>14. ASSUME NEW p \in Pages, MonitorUnlock(p) PROVE (hasty = 0 => LockInv)'
  BY <1>14, Names DEF MonitorUnlock
<1>15. ASSUME NEW p \in Pages, MonitorListLock(p) PROVE (hasty = 0 => LockInv)'
  BY <1>15, Names DEF MonitorListLock
<1>16. ASSUME NEW p \in Pages, MonitorWrite(p) PROVE (hasty = 0 => LockInv)'
  BY <1>16, Names DEF MonitorWrite, AfterEvent
<1>17. ASSUME NEW p \in Pages, MonitorSleep(p) PROVE (hasty = 0 => LockInv)'
  BY <1>17, Names DEF MonitorSleep
<1>18. ASSUME NEW p \in Pages, MonitorDies(p) PROVE (hasty = 0 => LockInv)'
  BY <1>18, Names DEF MonitorDies
<1>19. CASE FirstList
  BY <1>19, Names DEF FirstList
<1>20. CASE ResetScanStat
  BY <1>20, Names DEF ResetScanStat
<1>21. CASE LockWifiData
  BY <1>21, Names DEF LockWifiData
<1>22. CASE ListUnderLock
  BY <1>22, Names DEF ListUnderLock
<1>23. CASE CloseMonitorConn
  BY <1>23, Names DEF CloseMonitorConn
<1>24. CASE Terminate
  BY <1>24, Names DEF Terminate
<1>25. CASE DestroyMutexes
  <2>0. /\ UNCHANGED <<owner, survives, scanPc, monitorPc, g_monitorConn, hasty>> /\ ui = "destroy"
        /\ destroyed' = destroyed \cup { m \in Mutexes : owner[m] = Nobody }
    BY <1>25 DEF DestroyMutexes
  <2>1. ASSUME hasty = 0, destroyed = {} PROVE destroyed' = Mutexes
    <3>1. \A p \in Pages : Ended(scanPc[p]) /\ monitorPc[p] \notin Handling
      BY <2>0, <2>1
    <3>2. owner["g_monitorConnMutex"] = Nobody
      BY <2>1, <3>1, Names
    <3>3. owner["g_mutex"] = Nobody
      BY <2>0, <2>1, <3>1
    <3> QED BY <2>0, <2>1, <3>2, <3>3
  <2>2. hasty = 0 => destroyed' \in {{}, Mutexes}
    BY <2>0, <2>1
  <2>3. Works("g_monitorConnMutex")' => Works("g_monitorConnMutex")
    BY <2>0
  <2> QED BY <2>0, <2>2, <2>3
<1>26. CASE ExitWpaScan
  BY <1>26, Names DEF ExitWpaScan
<1>27. CASE OpenPage
  BY <1>27, Names DEF OpenPage, Settled
<1>28. ASSUME NEW p \in pages, ClosePage(p) PROVE (hasty = 0 => LockInv)'
  BY <1>28, Names DEF ClosePage
<1>29. ASSUME NEW p \in pages, ReadScanStat(p) PROVE (hasty = 0 => LockInv)'
  BY <1>29, Names DEF ReadScanStat
<1>30. ASSUME NEW p \in pages, NEW k \in DOMAIN shown[p], Tap(p, k) PROVE (hasty = 0 => LockInv)'
  BY <1>30, Names DEF Tap
<1> QED BY <1>0, <1>1, <1>2, <1>3, <1>4, <1>5, <1>6, <1>7, <1>8, <1>9, <1>10, <1>11, <1>12,
              <1>13, <1>14, <1>15, <1>16, <1>17, <1>18, <1>19, <1>20, <1>21, <1>22, <1>23,
              <1>24, <1>25, <1>26, <1>27, <1>28, <1>29, <1>30
        DEF Next, WpaScanThread, MonitorTask, UiThread, Work, User

-----------------------------------------------------------------------------
(* Invariance.                                                             *)

(* The inductive invariant holds before the first page is opened. *)
LEMMA InitInv == Init => IInv
<1> SUFFICES ASSUME Init PROVE IInv
  OBVIOUS
<1> USE WpaAssumption DEF Init
<1>1. StateOK
  BY DEF StateOK, Pages, Mutexes
<1>2. RowsOK
  <2>1. <<>> \in Seq(Ssids \ Hidden) /\ <<>> \in Seq(Row)
    OBVIOUS
  <2>2. shown \in [Pages -> Seq(Row)]
    BY <2>1
  <2> QED BY <2>1, <2>2 DEF RowsOK
<1>3. PageInv /\ FirstPage
  BY DEF PageInv, FirstPage, Lives, Pages
<1>4. HolderInv
  BY Names DEF HolderInv, Mutexes, Works
<1>5. SettledInv
  BY Names DEF SettledInv, ScanInv, ConnInv, LockInv, OneMonitor, Ended, Mutexes, Handling
<1> QED BY <1>1, <1>2, <1>3, <1>4, <1>5 DEF IInv

(* It holds in every reachable state. *)
LEMMA Invariance == Spec => []IInv
<1>1. IInv /\ [Next]_vars => IInv'
  <2> SUFFICES ASSUME IInv, [Next]_vars PROVE IInv'
    OBVIOUS
  <2>1. StateOK' /\ RowsOK' /\ PageInv' /\ HolderInv' /\ FirstPage'
    BY StateNext, RowsNext, PageNext, HolderNext, FirstNext DEF IInv
  <2>2. SettledInv'
    BY ScanNext, ConnNext, LockNext DEF IInv, SettledInv
  <2> QED BY <2>1, <2>2 DEF IInv
<1> QED BY <1>1, InitInv, PTL DEF Spec

(* The variables keep their types; every row and every entry of the list   *)
(* is an SSID that is neither empty nor escaped.                           *)
THEOREM WpaTypeCorrect == Spec => []TypeOK
<1>1. IInv => TypeOK
  BY DEF IInv, StateOK, RowsOK, Row, TypeOK
<1> QED BY <1>1, Invariance, PTL

(* As long as no second page is opened, the UI thread never reads the list *)
(* that the monitor is rewriting, though OnStart reads it without the lock *)
(* and though the page may be left at any time.                            *)
THEOREM WpaListNotTorn == Spec => []ListNotTorn
<1>1. IInv => ListNotTorn
  <2> SUFFICES ASSUME IInv, opened = 1, ui \in {"start", "list"},
                      NEW p \in Pages, monitorPc[p] = "write"
               PROVE FALSE
    BY DEF ListNotTorn
  <2>1. page = 1 /\ p = 1
    BY WpaAssumption DEF IInv, PageInv, StateOK, Pages
  <2>2. ui = "list"
    BY <2>1 DEF IInv, PageInv
  <2>3. Works("g_mutex")
    BY <2>2 DEF IInv, PageInv, FirstPage, Works
  <2> QED BY <2>2, <2>3, Names DEF IInv, HolderInv
<1> QED BY <1>1, Invariance, PTL

(* As long as pages were left after the scan threads had ended and opened  *)
(* after the cancelled threads had died, no thread died with a mutex:      *)
(* ExitWpa closes the connection under its lock, and so the monitor is     *)
(* done with its events, before ExitWpaScan cancels it.                    *)
THEOREM WpaNoOrphanedLock == Spec => []NoOrphanedLock
<1>1. IInv => NoOrphanedLock
  BY Names DEF IInv, HolderInv, SettledInv, LockInv, NoOrphanedLock, Mutexes, Ended, Handling
<1> QED BY <1>1, Invariance, PTL

(* Under the same condition, one monitor thread at most reads the          *)
(* connection, and the connection is closed once no page is open.          *)
THEOREM WpaMonitorServes == Spec => []MonitorServesThePages
<1>1. IInv => MonitorServesThePages
  BY DEF IInv, SettledInv, ConnInv, MonitorServesThePages, ExitClosesConn
<1> QED BY <1>1, Invariance, PTL
=============================================================================
