----------------------------- MODULE SettingPages ---------------------------
(***************************************************************************)
(* The settings application of BearPi-HM_Micro without its Wi-Fi page,     *)
(* bearpi_hm_micro/app/setting, and the screensaver that covers it,        *)
(* bearpi_hm_micro/app/screensaver: which pages lie upon each other, the   *)
(* switches of the display page and of an application's permissions, and   *)
(* the password that is typed for a network.                               *)
(*                                                                         *)
(* The framework presents a page by calling its OnStart and OnActive, and  *)
(* calls the OnActive of what lies beneath when a page is terminated or    *)
(* the screensaver goes.  UIToggleButton reverses itself before it calls   *)
(* its listener (DisBtnOnStateChangeListener relies on it).                *)
(***************************************************************************)
EXTENDS Naturals, Sequences, SequencesExt

CONSTANTS
  Networks,       (* names the Wi-Fi page may pass to the password page    *)
  Digits,         (* keys of the key board                                 *)
  g_maxPassword,  (* digits a password has at most                         *)
  Permissions,    (* permissions of the application that is looked at      *)
  MaxStack        (* bound: pages upon each other                          *)

NoSsid == ""   (* no network was chosen *)

ASSUME SettingAssumption ==
  /\ g_maxPassword \in Nat /\ MaxStack \in Nat \ {0}
  /\ NoSsid \notin Networks /\ "end" \notin Digits

VARIABLES
  stack,    (* the pages of the application, the last one on top           *)
  covered,  (* the screensaver lies upon them                              *)
  saver,    (* the state SetScreenSaverState set last                      *)
  granted,  (* the permissions the application has                         *)
  toggle,   (* what the switch of the display page shows; the permissions  *)
            (* listed with a switch, and for each what the switch shows,   *)
            (* status_, and whether a call failed                          *)
  entry,    (* the password page: g_inputSsid, g_inputPassword,            *)
            (* g_inputCount, and the text of its label                     *)
  joined    (* the last call of WpaScanReconnect, and the label then       *)

settingVars == <<stack, covered, saver, granted, toggle, entry, joined>>

Zeros == [n \in 1..(g_maxPassword + 1) |-> "end"]

(* The text a buffer of characters holds. *)
CString(chars) == SelectInSeq(chars, LAMBDA c : c = "end")
TextOf(chars) == SubSeq(chars, 1, CString(chars) - 1)

NoEntry == [ssid |-> NoSsid, password |-> Zeros, count |-> 0, label |-> <<>>]

SettingInit ==
  /\ stack = <<"main">> /\ covered = FALSE /\ saver \in BOOLEAN
  /\ granted \in SUBSET Permissions
  /\ toggle = [display |-> FALSE, listed |-> {}, shown |-> {}, status |-> {}, failed |-> {}]
  /\ entry = NoEntry
  /\ joined = [ssid |-> NoSsid, password |-> <<>>, label |-> <<>>]

OnTop(page) == stack # <<>> /\ Last(stack) = page /\ ~covered

ActiveKeepingCount(e) == [e EXCEPT !.password = Zeros, !.label = <<>>]

(* OnActive of the password page: an empty password, and the prompt. *)
Active(e) == [e EXCEPT !.password = Zeros, !.count = 0, !.label = <<>>]

Activate(pages) ==
  entry' = IF pages # <<>> /\ Last(pages) = "password" THEN Active(entry) ELSE entry

-----------------------------------------------------------------------------
Present(page) ==
  /\ Len(stack) < MaxStack
  /\ stack' = Append(stack, page)

Terminate ==
  /\ stack' = Front(stack)
  /\ Activate(Front(stack))

(* The buttons of the main page; the Wi-Fi page has a module of its own. *)
ShowPage(page) ==
  /\ OnTop("main") /\ Present(page)
  /\ UNCHANGED <<covered, saver, granted, toggle, entry, joined>>

(* OnStart of the display page switches the screensaver on. *)
ShowDisplay ==
  /\ OnTop("main") /\ Present("display")
  /\ saver' = TRUE
  /\ toggle' = [toggle EXCEPT !.display = TRUE]
  /\ UNCHANGED <<covered, granted, entry, joined>>

(* The heads of the Wi-Fi page, the display page and the list of           *)
(* applications present the main page once more ...                        *)
BackToMain ==
  /\ OnTop("wifi") \/ OnTop("display") \/ OnTop("app")
  /\ Present("main")
  /\ UNCHANGED <<covered, saver, granted, toggle, entry, joined>>

(* ... and those of the other pages terminate their page.                  *)
BackBeneath ==
  /\ OnTop("about") \/ OnTop("info") \/ OnTop("password")
  /\ Terminate
  /\ UNCHANGED <<covered, saver, granted, toggle, joined>>

(* The head of the main page terminates the application; the launcher      *)
(* starts it again.                                                        *)
TerminateAbility ==
  /\ OnTop("main")
  /\ stack' = <<"main">>
  /\ UNCHANGED <<covered, saver, granted, toggle, entry, joined>>

-----------------------------------------------------------------------------
(* The display page. *)

DisplayClick ==
  /\ OnTop("display")
  /\ toggle' = [toggle EXCEPT !.display = ~@]
  /\ saver' = ~toggle.display
  /\ UNCHANGED <<stack, covered, granted, entry, joined>>

-----------------------------------------------------------------------------
(* The page of an application: its switches show what is granted, and      *)
(* every listener's status_ is false.  There are none if QueryPermission   *)
(* fails.                                                                  *)

ShowAppInfo ==
  /\ OnTop("app") /\ Present("info")
  /\ \E listed \in {Permissions, {}} :
       toggle' = [toggle EXCEPT !.listed = listed, !.shown = granted \cap listed,
                                !.status = {}, !.failed = {}]
  /\ UNCHANGED <<covered, saver, granted, entry, joined>>

Flip(set, p) == IF p \in set THEN set \ {p} ELSE set \cup {p}

ToggleClickWithoutSetState(p) ==
  /\ OnTop("info") /\ p \in toggle.listed
  /\ granted' = IF p \in toggle.status THEN granted \ {p} ELSE granted \cup {p}
  /\ toggle' = [toggle EXCEPT !.status = Flip(@, p), !.shown = Flip(@, p)]
  /\ UNCHANGED <<stack, covered, saver, entry, joined>>

(* RevokePermission or GrantPermission, by status_; when it succeeds, the  *)
(* switch is set.                                                          *)
ToggleClick(p) ==
  /\ OnTop("info") /\ p \in toggle.listed
  /\ granted' = IF p \in toggle.status THEN granted \ {p} ELSE granted \cup {p}
  /\ toggle' = [toggle EXCEPT !.status = Flip(@, p),
                              !.shown = IF p \in toggle.status THEN @ \ {p} ELSE @ \cup {p},
                              !.failed = @ \ {p}]
  /\ UNCHANGED <<stack, covered, saver, entry, joined>>

ToggleClickFails(p) ==
  /\ OnTop("info") /\ p \in toggle.listed
  /\ toggle' = [toggle EXCEPT !.shown = Flip(@, p), !.failed = @ \cup {p}]
  /\ UNCHANGED <<stack, covered, saver, granted, entry, joined>>

-----------------------------------------------------------------------------
(* The password page.                                                      *)

(* A tap on a row of the Wi-Fi page: OnStart, and OnActive. *)
ShowPassword(ssid) ==
  /\ OnTop("wifi") /\ Present("password")
  /\ entry' = Active([entry EXCEPT !.ssid = ssid])
  /\ UNCHANGED <<covered, saver, granted, toggle, joined>>

(* A digit: the label gets the text before the end is written behind it. *)
TypeDigit(d) ==
  LET written == [entry.password EXCEPT ![entry.count + 1] = d]
  IN  /\ OnTop("password")
      /\ entry' = [entry EXCEPT !.password = [written EXCEPT ![entry.count + 2] = "end"],
                                !.count = @ + 1, !.label = TextOf(written)]
      /\ UNCHANGED <<stack, covered, saver, granted, toggle, joined>>

PressDigitAtTheLimit(d) == entry.count <= g_maxPassword /\ TypeDigit(d)

PressDigit(d) == entry.count < g_maxPassword /\ TypeDigit(d)

(* The enter key: WpaScanReconnect, and the page ends. *)
PressEnter ==
  /\ OnTop("password")
  /\ joined' = [ssid |-> entry.ssid, password |-> TextOf(entry.password), label |-> entry.label]
  /\ entry' = [entry EXCEPT !.ssid = NoSsid, !.password = Zeros]
  /\ stack' = Front(stack)
  /\ UNCHANGED <<covered, saver, granted, toggle>>

-----------------------------------------------------------------------------
(* The screensaver covers the application if it is switched on, and goes   *)
(* at a touch, which makes the page beneath active.                        *)

SaverStarts ==
  /\ saver /\ ~covered
  /\ covered' = TRUE
  /\ UNCHANGED <<stack, saver, granted, toggle, entry, joined>>

SaverTouched ==
  /\ covered
  /\ covered' = FALSE
  /\ Activate(stack)
  /\ UNCHANGED <<stack, saver, granted, toggle, joined>>

SettingNext ==
  \/ \E page \in {"wifi", "app", "about"} : ShowPage(page)
  \/ ShowDisplay \/ DisplayClick \/ ShowAppInfo
  \/ BackToMain \/ BackBeneath \/ TerminateAbility
  \/ \E p \in Permissions : ToggleClick(p) \/ ToggleClickFails(p)
  \/ \E ssid \in Networks : ShowPassword(ssid)
  \/ \E d \in Digits : PressDigit(d)
  \/ PressEnter \/ SaverStarts \/ SaverTouched

SettingSpec == SettingInit /\ [][SettingNext]_settingVars

SettingTypeOK ==
  /\ stack \in BoundedSeq({"main", "wifi", "app", "about", "display", "info", "password"}, MaxStack)
  /\ covered \in BOOLEAN /\ saver \in BOOLEAN /\ granted \subseteq Permissions
  /\ toggle \in [ display : BOOLEAN, listed : SUBSET Permissions, shown : SUBSET Permissions,
                  status : SUBSET Permissions, failed : SUBSET Permissions ]
  /\ entry.ssid \in Networks \cup {NoSsid} /\ entry.count \in 0..g_maxPassword
  /\ \A n \in DOMAIN Zeros : entry.password[n] \in Digits \cup {"end"}
  /\ joined.ssid \in Networks \cup {NoSsid}

(* A switch shows what it switches, whatever pages were opened in between  *)
(* and although a permission's listener starts from a status_ that may be  *)
(* wrong; only a call that fails leaves the permission's switch reversed.  *)
SwitchesShowTheSystem ==
  /\ OnTop("display") => toggle.display = saver
  /\ OnTop("info") => \A p \in toggle.listed \ toggle.failed : p \in toggle.shown <=> p \in granted

(* A network is joined with the password that was on show, with every key  *)
(* that g_inputCount counts in it, and never without a name: no digit      *)
(* typed before the screensaver came, or on an earlier visit, is left in   *)
(* it, and none typed after that is lost.                                  *)
JoinsWithShown ==
  [][ joined' # joined =>
        /\ joined'.password = joined'.label
        /\ Len(joined'.password) = entry.count
        /\ joined'.ssid # NoSsid ]_settingVars
=============================================================================
