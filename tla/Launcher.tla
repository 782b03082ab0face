------------------------------- MODULE Launcher -----------------------------
(***************************************************************************)
(* The launcher of BearPi-HM_Micro, bearpi_hm_micro/app/launcher: its      *)
(* pages of icons, which the UI thread fills from the bundle manager's     *)
(* list and the manager's callback thread extends when an installation     *)
(* ends, and the view that a long press opens.                             *)
(*                                                                         *)
(* The two threads share the pages without a lock.  They interleave        *)
(* between the pages they look at, and between the choice of a cell, the   *)
(* showing of an icon there, its entry in the page's list and the mark of  *)
(* the cell, or the clearing of the mark and the removal from the list.    *)
(* What happens within List itself when both threads change one is left    *)
(* out.  A bundle name is a model value; names that begin with it are      *)
(* given, because all comparisons in the code are of one name's length.    *)
(***************************************************************************)
EXTENDS Integers, Sequences, FiniteSets, FiniteSetsExt

CONSTANTS
  Bundles,       (* the bundles that can be installed                      *)
  BeginWith,     (* BeginWith[b] are the names that begin with b's name    *)
  NoApp,         (* no name                                                *)
  Own,           (* bundles the launcher passes over                       *)
  Preinstalled,  (* bundles that are there from the beginning              *)
  PageCells,     (* the cells of every page, in the order they are filled  *)
  MaxInstalls, MaxPresses   (* bounds: installations, and touches          *)

ASSUME LauncherAssumption ==
  /\ BeginWith \in [Bundles -> SUBSET Bundles]
  /\ \A b \in Bundles : b \in BeginWith[b]
  /\ NoApp \notin Bundles
  /\ PageCells \in Seq(SUBSET Nat) /\ PageCells # <<>>
  /\ Own \subseteq Bundles /\ Preinstalled \subseteq Bundles
  /\ MaxInstalls \in Nat /\ MaxPresses \in Nat

Pages == DOMAIN PageCells

VARIABLES
  bundles,   (* [installed, installs]: what the manager lists              *)
  results,   (* names whose installation ended and was not handled yet     *)
  leaving,   (* names whose removal the manager was asked for              *)
  icons,     (* the AppInfo objects in the pages' lists appInfo_           *)
  row_col,   (* row_col_ by page: the cells that are marked                *)
  adders,    (* AddApp in progress, in the UI thread and in the callback   *)
  desktop,   (* the UI thread: where it is, and the bundles still to add;  *)
             (* the app it removes, the page it looks at for that, and the *)
             (* icon whose mark it has cleared                             *)
  press,     (* the long-press view: bStatus_, viewParent_, app_, and the  *)
             (* page it hangs in; the page on show; touches so far         *)
  mixed      (* an installation was handled while the pages were filled,   *)
             (* or an icon was removed before its cell was marked          *)

launcherVars == <<bundles, results, leaving, icons, row_col, adders, desktop, press, mixed>>

Idle == [at |-> "idle", name |-> NoApp, page |-> 0, cell |-> 0]

-----------------------------------------------------------------------------
LauncherInit ==
  /\ bundles = [installed |-> Preinstalled, installs |-> 0]
  /\ results = {} /\ leaving = {} /\ icons = {} /\ mixed = FALSE
  /\ row_col = [p \in Pages |-> {}]
  /\ adders = [a \in {"ui", "callback"} |-> Idle]
  /\ desktop = [at |-> "start", todo |-> {}, app |-> NoApp, page |-> 0, gone |-> {}]
  /\ press = [bStatus |-> FALSE, viewParent |-> 0, app |-> NoApp, hangs |-> 0, page |-> 1, count |-> 0]

Running == [at |-> "run", todo |-> {}, app |-> NoApp, page |-> 0, gone |-> {}]

OnPage(p) == { i \in icons : i.page = p }

(* FindApp compares as much of an icon's name as the sought name has. *)
FindApp(p, name) == \E i \in OnPage(p) : i.name \in BeginWith[name]

FreeCells(p) == PageCells[p] \ row_col[p]

Moves(a, place) == adders' = [adders EXCEPT ![a] = place]

-----------------------------------------------------------------------------
(* AddApp on one page after the other, by either thread.                   *)

NextPage(a) ==
  IF adders[a].page = Cardinality(Pages) THEN Idle
  ELSE [adders[a] EXCEPT !.page = @ + 1]

(* FindApp and IsFull: the page has the app, is full, or has a cell. *)
AddApp(a) ==
  LET p == adders[a].page
  IN  /\ adders[a].at = "add"
      /\ Moves(a, IF FindApp(p, adders[a].name) THEN Idle
                  ELSE IF FreeCells(p) = {} THEN NextPage(a)
                  ELSE [adders[a] EXCEPT !.at = "put", !.cell = Min(FreeCells(p))])
      /\ UNCHANGED <<bundles, results, leaving, icons, row_col, desktop, press, mixed>>

IconOf(a) == [name |-> adders[a].name, page |-> adders[a].page, cell |-> adders[a].cell]

(* A thread is about to mark the cell of an icon that is in its list. *)
Marking(i) == \E a \in DOMAIN adders : adders[a].at = "mark" /\ i = IconOf(a)

(* The icon is in the page's view, and can be pressed, ... *)
SetUpApp(a) ==
  /\ adders[a].at = "put"
  /\ Moves(a, [adders[a] EXCEPT !.at = "list"])
  /\ UNCHANGED <<bundles, results, leaving, icons, row_col, desktop, press, mixed>>

(* ... then it enters the list, ... *)
PushBack(a) ==
  /\ adders[a].at = "list"
  /\ icons' = icons \cup {IconOf(a)}
  /\ Moves(a, [adders[a] EXCEPT !.at = "mark"])
  /\ UNCHANGED <<bundles, results, leaving, row_col, desktop, press, mixed>>

(* ... and then its cell is marked. *)
MarkCell(a) ==
  /\ adders[a].at = "mark"
  /\ row_col' = [row_col EXCEPT ![adders[a].page] = @ \cup {adders[a].cell}]
  /\ Moves(a, Idle)
  /\ UNCHANGED <<bundles, results, leaving, icons, desktop, press, mixed>>

-----------------------------------------------------------------------------
(* OnSetUpView.                                                            *)

(* The pages, the listeners, and RegisterCallback. *)
SetUpView ==
  /\ desktop.at = "start"
  /\ desktop' = [desktop EXCEPT !.at = "ask"]
  /\ UNCHANGED <<bundles, results, leaving, icons, row_col, adders, press, mixed>>

(* GetBundleInfos, which may fail. *)
LauncherApp ==
  /\ desktop.at = "ask"
  /\ \E told \in {{}, bundles.installed \ Own} :
       desktop' = [desktop EXCEPT !.at = "fill", !.todo = told]
  /\ UNCHANGED <<bundles, results, leaving, icons, row_col, adders, press, mixed>>

AddListed(name) ==
  /\ desktop.at = "fill" /\ adders["ui"] = Idle /\ name \in desktop.todo
  /\ desktop' = [desktop EXCEPT !.todo = @ \ {name}]
  /\ Moves("ui", [at |-> "add", name |-> name, page |-> 1, cell |-> 0])
  /\ UNCHANGED <<bundles, results, leaving, icons, row_col, press, mixed>>

PagesFilled ==
  /\ desktop.at = "fill" /\ desktop.todo = {} /\ adders["ui"] = Idle
  /\ desktop' = Running
  /\ UNCHANGED <<bundles, results, leaving, icons, row_col, adders, press, mixed>>

-----------------------------------------------------------------------------
(* The bundle manager and its callback.                                    *)

(* An installation or an update ends well, and the callback is due if one  *)
(* is registered.                                                          *)
InstallEnds(name) ==
  /\ bundles.installs < MaxInstalls
  /\ bundles' = [installed |-> bundles.installed \cup {name}, installs |-> bundles.installs + 1]
  /\ results' = IF desktop.at = "start" THEN results ELSE results \cup {name}
  /\ UNCHANGED <<leaving, icons, row_col, adders, desktop, press, mixed>>

(* A removal that was asked for ends, or fails; MyBundleOwnCallback does   *)
(* nothing of either.                                                      *)
UninstallEnds(name) ==
  /\ name \in leaving
  /\ leaving' = leaving \ {name}
  /\ \/ bundles' = [bundles EXCEPT !.installed = @ \ {name}]
     \/ UNCHANGED bundles
  /\ UNCHANGED <<results, icons, row_col, adders, desktop, press, mixed>>

(* MyBundleStateCallback, and GetAbilityInfosByBundleName: the app's name  *)
(* is that of the first listed bundle with which the reported name begins. *)
(* There may be none by now, or GetBundleInfos fails: the report is lost.  *)
GetAppInstallInfo(name) ==
  /\ adders["callback"] = Idle /\ name \in results
  /\ results' = results \ {name}
  /\ mixed' = (mixed \/ desktop.at \notin {"run", "remove", "unlist"})
  /\ \/ UNCHANGED adders
     \/ \E b \in bundles.installed :
          /\ name \in BeginWith[b]
          /\ Moves("callback", [at |-> "find", name |-> b, page |-> 1, cell |-> 0])
  /\ UNCHANGED <<bundles, leaving, icons, row_col, desktop, press>>

(* The search of GetAppInstallInfo for the app on each page. *)
SearchPage ==
  LET a == adders["callback"]
  IN  /\ a.at = "find"
      /\ Moves("callback", IF FindApp(a.page, a.name) THEN Idle
                           ELSE IF a.page = Cardinality(Pages) THEN [a EXCEPT !.at = "add", !.page = 1]
                           ELSE [a EXCEPT !.page = @ + 1])
      /\ UNCHANGED <<bundles, results, leaving, icons, row_col, desktop, press, mixed>>

-----------------------------------------------------------------------------
(* The user's touches, handled by the UI thread while it runs.             *)

Touch ==
  /\ desktop.at = "run" /\ press.count < MaxPresses
  /\ UNCHANGED <<bundles, results, icons, row_col, adders, mixed>>

(* RemoveLview, from a state of the view to the next. *)
RemoveLview(v) ==
  IF v.bStatus THEN [v EXCEPT !.bStatus = FALSE, !.hangs = IF @ = v.viewParent THEN 0 ELSE @]
  ELSE v

Counted(v) == [v EXCEPT !.count = @ + 1]

OnSwipeKeepingView(p) ==
  /\ Touch /\ p # press.page
  /\ press' = [Counted(press) EXCEPT !.page = p]
  /\ UNCHANGED <<leaving, desktop>>

OnSwipe(p) ==
  /\ Touch /\ p # press.page
  /\ press' = [RemoveLview(Counted(press)) EXCEPT !.page = p]
  /\ UNCHANGED <<leaving, desktop>>

(* A click on an icon starts the app, unless it closes the view; a click   *)
(* beside the icons or on the cancel button closes the view.               *)
Click ==
  /\ Touch
  /\ press' = RemoveLview(Counted(press))
  /\ UNCHANGED <<leaving, desktop>>

(* The icons in the views. *)
Shown == icons \cup { IconOf(a) : a \in { a \in DOMAIN adders : adders[a].at = "list" } }

(* LongPressView::Show.  UIViewGroup::Add leaves a view where it hangs.    *)
ShowLongPressView(i) ==
  /\ Touch /\ i.page = press.page
  /\ press' = [Counted(press) EXCEPT !.bStatus = TRUE, !.viewParent = i.page, !.app = i.name,
                                     !.hangs = IF @ = 0 THEN i.page ELSE @]
  /\ UNCHANGED <<leaving, desktop>>

(* The uninstall button: the view goes, the manager is asked, and if it    *)
(* takes the request the pages are searched for an icon whose name begins  *)
(* with the app's.                                                         *)
UninstallApp ==
  /\ Touch /\ press.bStatus
  /\ press' = RemoveLview(Counted(press))
  /\ \/ UNCHANGED <<leaving, desktop>>
     \/ /\ leaving' = leaving \cup {press.app}
        /\ desktop' = [desktop EXCEPT !.at = "remove", !.app = press.app, !.page = 1]

(* RemoveApp on one page after the other.  Where an icon is found, the     *)
(* mark of its cell is cleared, ...                                        *)
RemoveApp ==
  LET p == desktop.page
      named == { i \in OnPage(p) : i.name \in BeginWith[desktop.app] }
  IN  /\ desktop.at = "remove"
      /\ \/ /\ named = {}
            /\ desktop' = IF p = Cardinality(Pages) THEN Running
                          ELSE [desktop EXCEPT !.page = @ + 1]
            /\ UNCHANGED <<row_col, mixed>>
         \/ \E i \in named :
              /\ row_col' = [row_col EXCEPT ![p] = @ \ {i.cell}]
              /\ desktop' = [desktop EXCEPT !.at = "unlist", !.gone = {i}]
              /\ mixed' = (mixed \/ Marking(i))
      /\ UNCHANGED <<bundles, results, leaving, icons, adders, press>>

(* ... and then the icon leaves the list. *)
UnlistApp ==
  /\ desktop.at = "unlist"
  /\ icons' = icons \ desktop.gone
  /\ desktop' = Running
  /\ UNCHANGED <<bundles, results, leaving, row_col, adders, press, mixed>>

-----------------------------------------------------------------------------
LauncherNext ==
  \/ \E a \in {"ui", "callback"} : AddApp(a) \/ SetUpApp(a) \/ PushBack(a) \/ MarkCell(a)
  \/ SetUpView \/ LauncherApp \/ PagesFilled \/ SearchPage
  \/ \E b \in Bundles : AddListed(b) \/ InstallEnds(b) \/ UninstallEnds(b) \/ GetAppInstallInfo(b)
  \/ Click \/ UninstallApp \/ RemoveApp \/ UnlistApp
  \/ \E p \in Pages : OnSwipe(p)
  \/ \E i \in Shown : ShowLongPressView(i)

LauncherSpec == LauncherInit /\ [][LauncherNext]_launcherVars

LauncherTypeOK ==
  /\ bundles.installed \subseteq Bundles /\ bundles.installs \in 0..MaxInstalls
  /\ results \subseteq Bundles /\ leaving \subseteq Bundles /\ mixed \in BOOLEAN
  /\ \A i \in icons : i.name \in Bundles /\ i.page \in Pages /\ i.cell \in PageCells[i.page]
  /\ \A p \in Pages : row_col[p] \subseteq PageCells[p]
  /\ \A a \in {"ui", "callback"} : adders[a].at \in {"idle", "find", "add", "put", "list", "mark"}
  /\ desktop.at \in {"start", "ask", "fill", "run", "remove", "unlist"}
  /\ desktop.todo \subseteq Bundles \ Own
  /\ desktop.app \in Bundles \cup {NoApp} /\ desktop.gone \subseteq icons
  /\ press.bStatus \in BOOLEAN /\ {press.viewParent, press.hangs} \subseteq Pages \cup {0}

(* Unless an installation was handled while the pages were being filled,   *)
(* or an icon was removed before its cell was marked, an app has one icon  *)
(* however often it is updated, removed and installed again, although both *)
(* threads change the pages; a marked cell has an icon; and no two icons   *)
(* share a cell, and no icon's cell is unmarked, but for the one that is   *)
(* being entered or removed at that moment.                                *)
PagesAgree ==
  ~mixed =>
    /\ \A i, j \in icons : i # j => i.name # j.name
    /\ \A i, j \in icons \ desktop.gone : i # j => <<i.page, i.cell>> # <<j.page, j.cell>>
    /\ \A p \in Pages : row_col[p] \subseteq { i.cell : i \in OnPage(p) \ desktop.gone }
    /\ \A i \in icons : i.cell \in row_col[i.page] \/ i \in desktop.gone \/ Marking(i)

(* The view of the long press hangs in the page on show while it is open,  *)
(* and nowhere when it is closed: an icon that is pressed on another page  *)
(* would otherwise open it where the first one was.                        *)
PressViewInPlace ==
  press.hangs = IF press.bStatus THEN press.page ELSE 0

(* What the user sees agrees with what the launcher keeps. *)
DesktopAgrees == PagesAgree /\ PressViewInPlace
=============================================================================
