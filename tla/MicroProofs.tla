----------------------------- MODULE MicroProofs ----------------------------
(***************************************************************************)
(* Theorems about the components of BearPi-HM_Micro other than its graphic *)
(* memory and its Wi-Fi page: the pages of the settings, the display's     *)
(* layer, the launcher and its clock; and about all of them together.      *)
(***************************************************************************)
EXTENDS MCMicroBoard, GrallocProofs, WellFoundedInduction

-----------------------------------------------------------------------------
(* The settings: the inductive invariant.                                  *)

SettingPageNames == {"main", "wifi", "app", "about", "display", "info", "password"}

StackOK ==
  /\ stack \in Seq(SettingPageNames) /\ Len(stack) <= MaxStack
  /\ covered \in BOOLEAN /\ saver \in BOOLEAN /\ granted \subseteq Permissions

Toggles == [ display : BOOLEAN, listed : SUBSET Permissions, shown : SUBSET Permissions,
             status : SUBSET Permissions, failed : SUBSET Permissions ]

Chars == Digits \cup {"end"}

Entries == [ ssid : Networks \cup {NoSsid}, password : [1..(g_maxPassword + 1) -> Chars],
             count : 0..g_maxPassword, label : Seq(Chars) ]

(* The page that asks for a password shows none beneath it, ... *)
PasswordOnTop == \A n \in 1..Len(stack) : stack[n] = "password" => n = Len(stack)

(* ... and has a network; the digits typed since it was active lie at the  *)
(* beginning of g_inputPassword, nothing behind them, and on the label.    *)
Typed(e) ==
  /\ \A n \in 1..e.count : e.password[n] # "end"
  /\ \A n \in (e.count + 1)..(g_maxPassword + 1) : e.password[n] = "end"
  /\ e.label = SubSeq(e.password, 1, e.count)

EntryInv == stack # <<>> /\ Last(stack) = "password" => Typed(entry) /\ entry.ssid # NoSsid

(* Switches agree with the system wherever their page lies, not only on    *)
(* top.                                                                    *)
SwitchInv ==
  /\ (\E n \in 1..Len(stack) : stack[n] = "display") => toggle.display = saver
  /\ (\E n \in 1..Len(stack) : stack[n] = "info") =>
       \A p \in toggle.listed \ toggle.failed : p \in toggle.shown <=> p \in granted

SettingInv ==
  /\ StackOK
  /\ toggle \in Toggles /\ entry \in Entries /\ joined.ssid \in Networks \cup {NoSsid}
  /\ PasswordOnTop /\ EntryInv /\ SwitchInv

-----------------------------------------------------------------------------
(* The settings: the text of a password.                                   *)

(* The text of a buffer whose first c characters only are typed ones. *)
LEMMA TypedText ==
  ASSUME NEW N \in Nat, NEW p \in [1..N -> Chars], NEW c \in Nat, c < N,
         \A n \in 1..c : p[n] # "end", p[c + 1] = "end"
  PROVE  TextOf(p) = SubSeq(p, 1, c)
<1>1. p \in Seq(Chars) /\ Len(p) = N
  OBVIOUS
<1> DEFINE I == { i \in 1..Len(p) : p[i] = "end" }
<1>2. c + 1 \in I /\ \A i \in I : c + 1 <= i
  BY <1>1
<1>3. Min(I) = c + 1
  BY <1>2 DEF Min
<1>4. CString(p) = c + 1
  BY <1>2, <1>3 DEF CString, SelectInSeq
<1> QED
  BY <1>4 DEF TextOf

(* A page that becomes active has an empty password. *)
LEMMA ActiveTyped == ASSUME NEW e \in Entries PROVE Active(e) \in Entries /\ Typed(Active(e))
                                                      /\ Active(e).ssid = e.ssid
<1> USE SettingAssumption
<1>1. Zeros \in [1..(g_maxPassword + 1) -> Chars]
  BY DEF Zeros, Chars
<1>2. 0 \in 0..g_maxPassword /\ <<>> \in Seq(Chars)
  OBVIOUS
<1>3. Active(e) \in Entries
  BY <1>1, <1>2 DEF Active, Entries
<1>4. Active(e).ssid = e.ssid /\ Active(e).password = Zeros /\ Active(e).count = 0
        /\ Active(e).label = <<>>
  BY DEF Active, Entries
<1>5. Zeros \in Seq(Chars)
  BY <1>1
<1>6. SubSeq(Zeros, 1, 0) = <<>>
  BY <1>5
<1>7. Typed(Active(e))
  BY <1>4, <1>6 DEF Typed, Zeros
<1> QED
  BY <1>3, <1>4, <1>7

(* Presenting a page on top of one that does not ask for a password. *)
LEMMA Presented ==
  ASSUME StackOK, PasswordOnTop, stack # <<>>, Last(stack) # "password",
         NEW page \in SettingPageNames, Present(page)
  PROVE  /\ stack' \in Seq(SettingPageNames) /\ Len(stack') <= MaxStack
         /\ PasswordOnTop' /\ stack' # <<>> /\ Last(stack') = page
         /\ \A n \in 1..Len(stack') : stack'[n] = page \/ (n \in 1..Len(stack) /\ stack'[n] = stack[n])
<1> USE SettingAssumption DEF StackOK, Last
<1>1. /\ stack' = Append(stack, page) /\ Len(stack) < MaxStack
      /\ Len(stack) \in Nat /\ Len(stack) > 0
  BY DEF Present
<1>2. /\ stack' \in Seq(SettingPageNames) /\ Len(stack') = Len(stack) + 1
      /\ stack'[Len(stack) + 1] = page
      /\ \A n \in 1..Len(stack) : stack'[n] = stack[n]
  BY <1>1
<1>3. \A n \in 1..Len(stack) : stack[n] # "password"
  BY <1>1 DEF PasswordOnTop
<1>4. PasswordOnTop'
  BY <1>1, <1>2, <1>3 DEF PasswordOnTop
<1> QED
  BY <1>1, <1>2, <1>4

(* Taking the page on top away. *)
LEMMA Terminated ==
  ASSUME StackOK, PasswordOnTop, stack # <<>>, stack' = Front(stack)
  PROVE  /\ stack' \in Seq(SettingPageNames) /\ Len(stack') <= MaxStack
         /\ PasswordOnTop' /\ (stack' # <<>> => Last(stack') # "password")
         /\ \A n \in 1..Len(stack') : n \in 1..Len(stack) /\ stack'[n] = stack[n]
<1> USE SettingAssumption DEF StackOK, Last
<1>1. stack' = SubSeq(stack, 1, Len(stack) - 1) /\ Len(stack) \in Nat /\ Len(stack) > 0
  BY DEF Front
<1>2. /\ stack' \in Seq(SettingPageNames) /\ Len(stack') = Len(stack) - 1
      /\ \A n \in 1..Len(stack') : n \in 1..Len(stack) /\ stack'[n] = stack[n]
  <2> DEFINE l == Len(stack) - 1
  <2>1. l \in Nat /\ l <= Len(stack) /\ stack' = SubSeq(stack, 1, l)
    BY <1>1
  <2>2. stack \in Seq(SettingPageNames)
    OBVIOUS
  <2> HIDE DEF l, StackOK
  <2>3. Len(stack') = l /\ stack' \in Seq(SettingPageNames)
    BY <2>1, <2>2
  <2>4. \A n \in 1..l : n \in 1..Len(stack) /\ stack'[n] = stack[n]
    BY <2>1, <2>2
  <2> QED
    BY <2>3, <2>4, <1>1 DEF l
<1>3. \A n \in 1..Len(stack') : stack'[n] # "password"
  BY <1>1, <1>2 DEF PasswordOnTop
<1>4. PasswordOnTop'
  BY <1>3 DEF PasswordOnTop
<1>5. stack' # <<>> => Last(stack') # "password"
  <2>1. stack' # <<>> => Len(stack') # 0
    BY <1>2
  <2>2. Len(stack') \in Nat
    BY <1>2
  <2> QED
    BY <1>3, <2>1, <2>2
<1> QED
  BY <1>1, <1>2, <1>4, <1>5

-----------------------------------------------------------------------------
(* The settings: steps.                                                    *)

(* Presenting a page, where nothing else changes that the switches of the  *)
(* pages beneath it, or a password, depend on.                             *)
LEMMA PageShown ==
  ASSUME SettingInv, NEW page \in SettingPageNames \ {"password", "display", "info"},
         stack # <<>>, Last(stack) # "password", Present(page),
         UNCHANGED <<covered, saver, granted, toggle, entry, joined>>
  PROVE  SettingInv'
<1>1. /\ stack' \in Seq(SettingPageNames) /\ Len(stack') <= MaxStack
      /\ PasswordOnTop' /\ stack' # <<>> /\ Last(stack') = page
      /\ \A n \in 1..Len(stack') : stack'[n] = page \/ (n \in 1..Len(stack) /\ stack'[n] = stack[n])
  BY Presented DEF SettingInv
<1>2. StackOK'
  BY <1>1 DEF SettingInv, StackOK
<1>3. EntryInv'
  BY <1>1 DEF EntryInv
<1>4. SwitchInv'
  BY <1>1 DEF SettingInv, SwitchInv
<1> QED
  BY <1>1, <1>2, <1>3, <1>4 DEF SettingInv

(* Whatever page is beneath, it is not one that asks for a password, and   *)
(* its switches are as they were.                                          *)
LEMMA PageEnded ==
  ASSUME SettingInv, stack # <<>>, stack' = Front(stack),
         UNCHANGED <<covered, saver, granted, toggle>>,
         entry' \in Entries, joined'.ssid \in Networks \cup {NoSsid}
  PROVE  SettingInv'
<1>1. /\ stack' \in Seq(SettingPageNames) /\ Len(stack') <= MaxStack
      /\ PasswordOnTop' /\ (stack' # <<>> => Last(stack') # "password")
      /\ \A n \in 1..Len(stack') : n \in 1..Len(stack) /\ stack'[n] = stack[n]
  BY Terminated DEF SettingInv
<1>2. StackOK'
  BY <1>1 DEF SettingInv, StackOK
<1>3. EntryInv'
  BY <1>1 DEF EntryInv
<1>4. SwitchInv'
  BY <1>1 DEF SettingInv, SwitchInv
<1> QED
  BY <1>1, <1>2, <1>3, <1>4 DEF SettingInv

(* A digit is added to the text, which goes on the label. *)
LEMMA DigitTyped ==
  ASSUME SettingInv, NEW d \in Digits, PressDigit(d)
  PROVE  entry' \in Entries /\ Typed(entry') /\ entry'.ssid # NoSsid
<1> USE SettingAssumption
<1> DEFINE p == entry.password
           c == entry.count
           written == [p EXCEPT ![c + 1] = d]
<1>1. /\ p \in [1..(g_maxPassword + 1) -> Chars] /\ c \in 0..g_maxPassword /\ c < g_maxPassword
      /\ entry \in Entries /\ Typed(entry) /\ entry.ssid # NoSsid
  BY DEF SettingInv, Entries, PressDigit, TypeDigit, OnTop, EntryInv
<1>2. /\ written \in [1..(g_maxPassword + 1) -> Chars] /\ d \in Chars /\ d # "end"
      /\ written[c + 1] = d
      /\ \A n \in 1..(g_maxPassword + 1) : n # c + 1 => written[n] = p[n]
  BY <1>1 DEF Chars
<1>3. /\ \A n \in 1..(c + 1) : written[n] # "end"
      /\ \A n \in (c + 2)..(g_maxPassword + 1) : written[n] = "end"
  BY <1>1, <1>2 DEF Typed
<1>4. TextOf(written) = SubSeq(written, 1, c + 1)
  <2>1. /\ c + 1 \in Nat /\ g_maxPassword + 1 \in Nat /\ c + 1 < g_maxPassword + 1
        /\ written[(c + 1) + 1] = "end"
    BY <1>1, <1>3
  <2> HIDE DEF written
  <2> QED
    BY <1>2, <1>3, <2>1, TypedText
<1>5. [written EXCEPT ![c + 2] = "end"] = written
  BY <1>1, <1>2, <1>3
<1>6. SubSeq(written, 1, c + 1) \in Seq(Chars)
  BY <1>1, <1>2
<1>7. /\ entry' = [entry EXCEPT !.password = [written EXCEPT ![c + 2] = "end"], !.count = @ + 1,
                                !.label = TextOf(written)]
  BY DEF PressDigit, TypeDigit
<1> HIDE DEF written
<1>8. /\ entry' \in Entries /\ entry'.password = written /\ entry'.count = c + 1
      /\ entry'.label = TextOf(written) /\ entry'.ssid = entry.ssid
  <2>1. entry' = [entry EXCEPT !.password = written, !.count = c + 1, !.label = TextOf(written)]
    BY <1>5, <1>7
  <2>2. c + 1 \in 0..g_maxPassword /\ TextOf(written) \in Seq(Chars)
    BY <1>1, <1>4, <1>6
  <2> HIDE DEF c, p
  <2>3. entry' = [ssid |-> entry.ssid, password |-> written, count |-> c + 1,
                  label |-> TextOf(written)]
    BY <1>1, <2>1 DEF Entries
  <2> QED
    BY <1>1, <1>2, <2>2, <2>3 DEF Entries
<1>9. Typed(entry')
  <2>1. c + 1 \in Nat /\ (c + 1) + 1 = c + 2
    BY <1>1
  <2> QED
    BY <1>3, <1>4, <1>8, <2>1 DEF Typed
<1> QED
  BY <1>1, <1>8, <1>9

(* At the beginning the main page is all there is. *)
LEMMA SettingBegins == SettingInit => SettingInv
<1> SUFFICES ASSUME SettingInit PROVE SettingInv
  OBVIOUS
<1> USE SettingAssumption DEF SettingInit
<1>1. stack = <<"main">> /\ Len(stack) = 1 /\ stack[1] = "main" /\ stack # <<>>
  OBVIOUS
<1>2. StackOK
  <2>1. "main" \in SettingPageNames
    BY DEF SettingPageNames
  <2>2. <<"main">> \in Seq(SettingPageNames)
    BY <2>1
  <2>3. covered = FALSE /\ saver \in BOOLEAN /\ granted \in SUBSET Permissions
    OBVIOUS
  <2>4. Len(stack) <= MaxStack
    BY <1>1
  <2> QED
    BY <1>1, <2>2, <2>3, <2>4 DEF StackOK
<1>3. toggle \in Toggles /\ joined.ssid \in Networks \cup {NoSsid}
  BY DEF Toggles
<1>4. entry \in Entries
  <2>1. Zeros \in [1..(g_maxPassword + 1) -> Chars] /\ 0 \in 0..g_maxPassword
    BY DEF Zeros, Chars
  <2> QED
    BY <2>1 DEF NoEntry, Entries
<1>5. \A n \in 1..Len(stack) : stack[n] = "main"
  BY <1>1
<1>6. Last(stack) = "main"
  BY <1>1 DEF Last
<1>7. PasswordOnTop
  BY <1>5 DEF PasswordOnTop
<1>8. EntryInv
  BY <1>6 DEF EntryInv
<1>9. SwitchInv
  BY <1>5 DEF SwitchInv
<1> QED
  BY <1>2, <1>3, <1>4, <1>7, <1>8, <1>9 DEF SettingInv

(* No step of the user, of a failing call, or of the screensaver breaks    *)
(* the invariant.                                                          *)
LEMMA SettingNextInv ==
  ASSUME SettingInv, [SettingNext]_settingVars
  PROVE  SettingInv'
<1> USE SettingAssumption
<1>0. CASE UNCHANGED settingVars
  BY <1>0 DEF settingVars, SettingInv, StackOK, PasswordOnTop, EntryInv, SwitchInv, Typed, Last
<1>1. ASSUME NEW page \in {"wifi", "app", "about"}, ShowPage(page) PROVE SettingInv'
  BY <1>1, PageShown DEF ShowPage, OnTop, SettingPageNames
<1>2. CASE BackToMain
  BY <1>2, PageShown DEF BackToMain, OnTop, SettingPageNames
<1>3. CASE BackBeneath
  <2>1. /\ stack # <<>> /\ stack' = Front(stack)
        /\ UNCHANGED <<covered, saver, granted, toggle, joined>>
        /\ entry' = entry \/ entry' = Active(entry)
    BY <1>3 DEF BackBeneath, OnTop, Terminate, Activate
  <2>2. entry' \in Entries /\ joined'.ssid \in Networks \cup {NoSsid}
    BY <2>1, ActiveTyped DEF SettingInv
  <2> QED
    BY <2>1, <2>2, PageEnded
<1>4. CASE PressEnter
  <2>1. /\ stack # <<>> /\ stack' = Front(stack)
        /\ UNCHANGED <<covered, saver, granted, toggle>>
        /\ entry' = [entry EXCEPT !.ssid = NoSsid, !.password = Zeros]
        /\ joined'.ssid = entry.ssid
    BY <1>4 DEF PressEnter, OnTop
  <2>2. Zeros \in [1..(g_maxPassword + 1) -> Chars]
    BY DEF Zeros, Chars
  <2>3. entry' \in Entries /\ joined'.ssid \in Networks \cup {NoSsid}
    BY <2>1, <2>2 DEF SettingInv, Entries
  <2> QED
    BY <2>1, <2>3, PageEnded
<1>5. CASE TerminateAbility
  <2>1. /\ stack' = <<"main">> /\ UNCHANGED <<covered, saver, granted, toggle, entry, joined>>
    BY <1>5 DEF TerminateAbility
  <2>2. Len(stack') = 1 /\ stack'[1] = "main" /\ stack' \in Seq(SettingPageNames)
    BY <2>1 DEF SettingPageNames
  <2>3. StackOK'
    BY <2>1, <2>2 DEF SettingInv, StackOK
  <2>4. PasswordOnTop' /\ EntryInv' /\ SwitchInv'
    BY <2>2 DEF PasswordOnTop, EntryInv, SwitchInv, Last
  <2> QED
    BY <2>1, <2>3, <2>4 DEF SettingInv
<1>6. CASE ShowDisplay
  <2>1. /\ stack # <<>> /\ Last(stack) # "password" /\ Present("display")
        /\ saver' = TRUE /\ toggle' = [toggle EXCEPT !.display = TRUE]
        /\ UNCHANGED <<covered, granted, entry, joined>>
    BY <1>6 DEF ShowDisplay, OnTop
  <2>2. /\ stack' \in Seq(SettingPageNames) /\ Len(stack') <= MaxStack
        /\ PasswordOnTop' /\ stack' # <<>> /\ Last(stack') = "display"
        /\ \A n \in 1..Len(stack') :
             stack'[n] = "display" \/ (n \in 1..Len(stack) /\ stack'[n] = stack[n])
    BY <2>1, Presented DEF SettingInv, SettingPageNames
  <2>3. /\ toggle' \in Toggles /\ toggle'.display = TRUE
        /\ toggle'.shown = toggle.shown /\ toggle'.failed = toggle.failed
        /\ toggle'.listed = toggle.listed
    BY <2>1 DEF SettingInv, Toggles
  <2>4. StackOK'
    BY <2>1, <2>2 DEF SettingInv, StackOK
  <2>5. EntryInv'
    BY <2>2 DEF EntryInv
  <2>6. SwitchInv'
    BY <2>1, <2>2, <2>3 DEF SettingInv, SwitchInv
  <2> QED
    BY <2>1, <2>2, <2>3, <2>4, <2>5, <2>6 DEF SettingInv
<1>7. CASE ShowAppInfo
  <2>1. /\ stack # <<>> /\ Last(stack) # "password" /\ Present("info")
        /\ \E listed \in {Permissions, {}} :
             toggle' = [toggle EXCEPT !.listed = listed, !.shown = granted \cap listed,
                                      !.status = {}, !.failed = {}]
        /\ UNCHANGED <<covered, saver, granted, entry, joined>>
    BY <1>7 DEF ShowAppInfo, OnTop
  <2>2. /\ stack' \in Seq(SettingPageNames) /\ Len(stack') <= MaxStack
        /\ PasswordOnTop' /\ stack' # <<>> /\ Last(stack') = "info"
        /\ \A n \in 1..Len(stack') :
             stack'[n] = "info" \/ (n \in 1..Len(stack) /\ stack'[n] = stack[n])
    BY <2>1, Presented DEF SettingInv, SettingPageNames
  <2>3. /\ toggle' \in Toggles /\ toggle'.display = toggle.display
        /\ toggle'.shown = granted \cap toggle'.listed
    BY <2>1 DEF SettingInv, Toggles, StackOK
  <2>4. StackOK'
    BY <2>1, <2>2 DEF SettingInv, StackOK
  <2>5. EntryInv'
    BY <2>2 DEF EntryInv
  <2>6. SwitchInv'
    BY <2>1, <2>2, <2>3 DEF SettingInv, SwitchInv
  <2> QED
    BY <2>1, <2>2, <2>3, <2>4, <2>5, <2>6 DEF SettingInv
<1>8. CASE DisplayClick
  <2>1. /\ toggle' = [toggle EXCEPT !.display = ~@] /\ saver' = ~toggle.display
        /\ UNCHANGED <<stack, covered, granted, entry, joined>>
    BY <1>8 DEF DisplayClick
  <2>2. /\ toggle' \in Toggles /\ toggle'.display = saver' /\ saver' \in BOOLEAN
        /\ toggle'.shown = toggle.shown /\ toggle'.failed = toggle.failed
        /\ toggle'.listed = toggle.listed
    BY <2>1 DEF SettingInv, Toggles
  <2> QED
    BY <2>1, <2>2 DEF SettingInv, StackOK, PasswordOnTop, EntryInv, SwitchInv
<1>9. ASSUME NEW p \in Permissions, ToggleClick(p) \/ ToggleClickFails(p) PROVE SettingInv'
  <2>1. UNCHANGED <<stack, covered, saver, entry, joined>>
    BY <1>9 DEF ToggleClick, ToggleClickFails
  <2> SUFFICES /\ toggle' \in Toggles /\ granted' \subseteq Permissions
               /\ toggle'.display = toggle.display
               /\ (\A q \in toggle.listed \ toggle.failed : q \in toggle.shown <=> q \in granted)
                    => \A q \in toggle'.listed \ toggle'.failed : q \in toggle'.shown <=> q \in granted'
    BY <2>1 DEF SettingInv, StackOK, PasswordOnTop, EntryInv, SwitchInv
  <2>2. /\ toggle \in Toggles /\ granted \subseteq Permissions
        /\ toggle.shown \in SUBSET Permissions /\ toggle.status \in SUBSET Permissions
        /\ toggle.failed \in SUBSET Permissions /\ toggle.listed \in SUBSET Permissions
    BY DEF SettingInv, StackOK, Toggles
  <2>3. CASE ToggleClick(p)
    <3>1. PICK shown, status \in SUBSET Permissions :
             /\ toggle' = [toggle EXCEPT !.status = status, !.shown = shown,
                                         !.failed = toggle.failed \ {p}]
             /\ (shown = toggle.shown \ {p} /\ granted' = granted \ {p})
                  \/ (shown = toggle.shown \cup {p} /\ granted' = granted \cup {p})
      <4>1. Flip(toggle.status, p) \in SUBSET Permissions
        BY <2>2 DEF Flip
      <4>2. CASE p \in toggle.status
        <5>1. toggle.shown \ {p} \in SUBSET Permissions
          BY <2>2
        <5>2. /\ toggle' = [toggle EXCEPT !.status = Flip(toggle.status, p),
                                          !.shown = toggle.shown \ {p}, !.failed = toggle.failed \ {p}]
              /\ granted' = granted \ {p}
          BY <2>3, <4>2 DEF ToggleClick
        <5> QED
          BY <4>1, <5>1, <5>2
      <4>3. CASE p \notin toggle.status
        <5>1. toggle.shown \cup {p} \in SUBSET Permissions
          BY <2>2
        <5>2. /\ toggle' = [toggle EXCEPT !.status = Flip(toggle.status, p),
                                          !.shown = toggle.shown \cup {p}, !.failed = toggle.failed \ {p}]
              /\ granted' = granted \cup {p}
          BY <2>3, <4>3 DEF ToggleClick
        <5> QED
          BY <4>1, <5>1, <5>2
      <4> QED
        BY <4>2, <4>3
    <3>2. /\ toggle' \in Toggles /\ toggle'.display = toggle.display
          /\ toggle'.shown = shown /\ toggle'.failed = toggle.failed \ {p}
          /\ toggle'.listed = toggle.listed
      BY <2>2, <3>1 DEF Toggles
    <3> QED
      BY <2>2, <3>1, <3>2
  <2>4. CASE ToggleClickFails(p)
    <3>1. PICK shown \in SUBSET Permissions :
             /\ toggle' = [toggle EXCEPT !.shown = shown, !.failed = toggle.failed \cup {p}]
             /\ \A q \in Permissions : q # p => (q \in shown <=> q \in toggle.shown)
      <4>1. Flip(toggle.shown, p) \in SUBSET Permissions
        BY <2>2 DEF Flip
      <4>2. toggle' = [toggle EXCEPT !.shown = Flip(toggle.shown, p), !.failed = toggle.failed \cup {p}]
        BY <2>4 DEF ToggleClickFails
      <4>3. \A q \in Permissions : q # p => (q \in Flip(toggle.shown, p) <=> q \in toggle.shown)
        BY DEF Flip
      <4> QED
        BY <4>1, <4>2, <4>3
    <3>2. granted' = granted
      BY <2>4 DEF ToggleClickFails
    <3>3. /\ toggle' \in Toggles /\ toggle'.display = toggle.display
          /\ toggle'.shown = shown /\ toggle'.failed = toggle.failed \cup {p}
          /\ toggle'.listed = toggle.listed
      BY <2>2, <3>1 DEF Toggles
    <3> QED
      BY <2>2, <3>1, <3>2, <3>3
  <2> QED
    BY <1>9, <2>3, <2>4
<1>10. ASSUME NEW ssid \in Networks, ShowPassword(ssid) PROVE SettingInv'
  <2>1. /\ stack # <<>> /\ Last(stack) # "password" /\ Present("password")
        /\ entry' = Active([entry EXCEPT !.ssid = ssid])
        /\ UNCHANGED <<covered, saver, granted, toggle, joined>>
    BY <1>10 DEF ShowPassword, OnTop
  <2>2. /\ stack' \in Seq(SettingPageNames) /\ Len(stack') <= MaxStack
        /\ PasswordOnTop' /\ stack' # <<>> /\ Last(stack') = "password"
        /\ \A n \in 1..Len(stack') :
             stack'[n] = "password" \/ (n \in 1..Len(stack) /\ stack'[n] = stack[n])
    BY <2>1, Presented DEF SettingInv, SettingPageNames
  <2>3. [entry EXCEPT !.ssid = ssid] \in Entries /\ [entry EXCEPT !.ssid = ssid].ssid = ssid
    BY DEF SettingInv, Entries
  <2>4. entry' \in Entries /\ Typed(entry') /\ entry'.ssid # NoSsid
    BY <2>1, <2>3, ActiveTyped
  <2>5. StackOK'
    BY <2>1, <2>2 DEF SettingInv, StackOK
  <2>6. EntryInv'
    BY <2>4 DEF EntryInv, Typed
  <2>7. SwitchInv'
    BY <2>1, <2>2 DEF SettingInv, SwitchInv
  <2> QED
    BY <2>1, <2>2, <2>4, <2>5, <2>6, <2>7 DEF SettingInv
<1>11. ASSUME NEW d \in Digits, PressDigit(d) PROVE SettingInv'
  <2>1. UNCHANGED <<stack, covered, saver, granted, toggle, joined>>
    BY <1>11 DEF PressDigit, TypeDigit
  <2>2. entry' \in Entries /\ Typed(entry') /\ entry'.ssid # NoSsid
    BY <1>11, DigitTyped
  <2>3. EntryInv'
    BY <2>2 DEF EntryInv, Typed
  <2> QED
    BY <2>1, <2>2, <2>3 DEF SettingInv, StackOK, PasswordOnTop, SwitchInv
<1>12. CASE SaverStarts
  <2>1. covered' = TRUE /\ UNCHANGED <<stack, saver, granted, toggle, entry, joined>>
    BY <1>12 DEF SaverStarts
  <2> QED
    BY <2>1 DEF SettingInv, StackOK, PasswordOnTop, EntryInv, SwitchInv, Typed
<1>13. CASE SaverTouched
  <2>1. /\ covered' = FALSE /\ UNCHANGED <<stack, saver, granted, toggle, joined>>
        /\ entry' = IF stack # <<>> /\ Last(stack) = "password" THEN Active(entry) ELSE entry
    BY <1>13 DEF SaverTouched, Activate
  <2>2. Active(entry) \in Entries /\ Typed(Active(entry)) /\ Active(entry).ssid = entry.ssid
    BY ActiveTyped DEF SettingInv
  <2>3. entry' \in Entries
    BY <2>1, <2>2 DEF SettingInv
  <2>4. EntryInv'
    BY <2>1, <2>2 DEF SettingInv, EntryInv, Typed
  <2> QED
    BY <2>1, <2>3, <2>4 DEF SettingInv, StackOK, PasswordOnTop, SwitchInv
<1> QED
  BY <1>0, <1>1, <1>2, <1>3, <1>4, <1>5, <1>6, <1>7, <1>8, <1>9, <1>10, <1>11, <1>12, <1>13
  DEF SettingNext

(* Thus the invariant holds whatever the user and the calls do.            *)
LEMMA SettingInvariance == SettingSpec => []SettingInv
<1> QED
  BY SettingBegins, SettingNextInv, PTL DEF SettingSpec

-----------------------------------------------------------------------------
(* The settings: theorems.                                                 *)

(* The pages lie upon each other no higher than the bound, and what the    *)
(* pages keep is of its type: the digits typed never leave their buffer.   *)
THEOREM SettingTypeCorrect == SettingSpec => []SettingTypeOK
<1>1. SettingInv => SettingTypeOK
  <2> SUFFICES ASSUME SettingInv PROVE SettingTypeOK
    OBVIOUS
  <2>1. stack \in BoundedSeq(SettingPageNames, MaxStack)
    <3>1. Len(stack) \in 0..MaxStack /\ stack \in [1..Len(stack) -> SettingPageNames]
      BY SettingAssumption DEF SettingInv, StackOK
    <3> QED
      BY <3>1 DEF BoundedSeq, SeqOf
  <2>2. \A n \in DOMAIN Zeros : entry.password[n] \in Digits \cup {"end"}
    BY DEF SettingInv, Entries, Chars, Zeros
  <2> QED
    BY <2>1, <2>2 DEF SettingInv, SettingTypeOK, StackOK, SettingPageNames, Toggles, Entries
<1> QED
  BY <1>1, SettingInvariance, PTL

(* Whatever pages were opened in between, and whichever calls failed, the  *)
(* switches show what they switch.                                         *)
THEOREM SettingSwitchesShow == SettingSpec => []SwitchesShowTheSystem
<1>1. SettingInv => SwitchesShowTheSystem
  <2>1. StackOK /\ stack # <<>> => Len(stack) \in 1..Len(stack)
    BY DEF StackOK
  <2> QED
    BY <2>1 DEF SettingInv, SwitchInv, SwitchesShowTheSystem, OnTop, Last
<1> QED
  BY <1>1, SettingInvariance, PTL

(* A network is joined with what its label showed, every digit of it, and  *)
(* never without a name.                                                   *)
THEOREM SettingJoinsWithShown == SettingSpec => JoinsWithShown
<1>1. SettingInv /\ [SettingNext]_settingVars =>
        [joined' # joined => /\ joined'.password = joined'.label
                             /\ Len(joined'.password) = entry.count
                             /\ joined'.ssid # NoSsid]_settingVars
  <2> SUFFICES ASSUME SettingInv, [SettingNext]_settingVars, joined' # joined
               PROVE  /\ joined'.password = joined'.label
                      /\ Len(joined'.password) = entry.count
                      /\ joined'.ssid # NoSsid
    OBVIOUS
  <2>1. PressEnter
    BY DEF SettingNext, settingVars, ShowPage, ShowDisplay, DisplayClick, ShowAppInfo, BackToMain,
           BackBeneath, TerminateAbility, ToggleClick, ToggleClickFails, ShowPassword, TypeDigit, PressDigit,
           SaverStarts, SaverTouched
  <2>2. /\ joined' = [ssid |-> entry.ssid, password |-> TextOf(entry.password),
                      label |-> entry.label]
        /\ Typed(entry) /\ entry.ssid # NoSsid /\ entry \in Entries
    BY <2>1 DEF PressEnter, OnTop, SettingInv, EntryInv
  <2> DEFINE c == entry.count
             p == entry.password
  <2>3. /\ c \in Nat /\ c < g_maxPassword + 1 /\ g_maxPassword + 1 \in Nat
        /\ p \in [1..(g_maxPassword + 1) -> Chars]
        /\ \A n \in 1..c : p[n] # "end"
        /\ p[c + 1] = "end" /\ entry.label = SubSeq(p, 1, c)
    BY <2>2, SettingAssumption DEF Entries, Typed
  <2> HIDE DEF c, p
  <2>4. TextOf(p) = SubSeq(p, 1, c)
    BY <2>3, TypedText
  <2>5. p \in Seq(Chars) /\ Len(p) = g_maxPassword + 1
    BY <2>3
  <2>6. Len(SubSeq(p, 1, c)) = c
    BY <2>3, <2>5
  <2> QED
    BY <2>2, <2>3, <2>4, <2>6 DEF c, p
<1> QED
  BY <1>1, SettingInvariance, PTL DEF SettingSpec, JoinsWithShown

-----------------------------------------------------------------------------
(* The display's layer: the inductive invariant.                           *)

Layers == [ fd : Nat \cup {-1}, width : Nat, height : Nat, asked : BOOLEAN,
            fbAddr : Nat, fbSize : Nat, layerAddr : Nat ]

Keeps == [files : SUBSET Nat, maps : SUBSET (Nat \X Nat), blocks : SUBSET (Nat \X Nat), last : Nat]

Painters == [ created : BOOLEAN, block : Nat, calls : 0..MaxLayerCalls,
              state : {"runs", "unmapped", "fault"} ]

Sizes == Panels \cup {<<DISP_WIDTH, DISP_HEIGHT>>}

LayerTyped ==
  /\ table \in [funcs : {"none", "made", "freed"}, count : Nat] /\ table.count <= painter.calls
  /\ layer \in Layers /\ <<layer.width, layer.height>> \in Sizes
  /\ kept \in Keeps /\ painter \in Painters

(* Numbers are given to files, mappings and blocks in their order, and the *)
(* layer knows none that was not given.                                    *)
NumberGiven ==
  /\ layer.fbAddr <= kept.last /\ layer.layerAddr <= kept.last
  /\ painter.created => layer.fd \in 1..kept.last

(* The client draws in the block the layer has, and has a layer then.      *)
OneBlock ==
  /\ painter.block = layer.layerAddr
  /\ ~painter.created => painter.block = 0

(* A layer that is not created has no open file, unless its mapping failed *)
(* and the client is gone.                                                 *)
ClosedLayer ==
  ~painter.created => IF painter.state = "runs" THEN layer.fd = -1 ELSE layer.fd \in {-1, 0}

(* What is open, mapped and allocated, and its size.                       *)
LayerInUse ==
  /\ kept.files = IF painter.created THEN {layer.fd} ELSE {}
  /\ kept.maps = IF painter.created THEN {<<layer.fbAddr, layer.fbSize>>} ELSE {}
  /\ kept.blocks = IF painter.block = 0 THEN {} ELSE {<<painter.block, layer.fbSize>>}

LayerInv ==
  LayerTyped /\ NumberGiven /\ OneBlock /\ ClosedLayer /\ LayerInUse /\ painter.state # "fault"

-----------------------------------------------------------------------------
(* The display's layer: steps.                                             *)

(* Whole pages are a size.                                                 *)
LEMMA RoundUpType == ASSUME NEW n \in Nat PROVE RoundUp(n) \in Nat
<1> USE LayerAssumption
<1>1. PageSize \in Nat /\ PageSize > 0 /\ n + PageSize - 1 \in Nat
  OBVIOUS
<1> DEFINE q == (n + PageSize - 1) \div PageSize
<1>2. q \in Nat
  BY <1>1
<1> HIDE DEF q
<1>3. q * PageSize \in Nat
  BY <1>1, <1>2
<1> QED
  BY <1>3 DEF RoundUp, q

(* The instance differs from the layer in the size the driver told only.   *)
LEMMA InstanceType ==
  ASSUME LayerTyped, NEW priv \in GetLayerInstance
  PROVE  /\ priv \in Layers /\ <<priv.width, priv.height>> \in Sizes
         /\ priv.fd = layer.fd /\ priv.fbAddr = layer.fbAddr /\ priv.fbSize = layer.fbSize
         /\ priv.layerAddr = layer.layerAddr
<1> USE LayerAssumption
<1>1. layer \in Layers /\ <<layer.width, layer.height>> \in Sizes
  BY DEF LayerTyped
<1>2. CASE priv = layer
  BY <1>1, <1>2
<1>3. CASE priv = [layer EXCEPT !.asked = TRUE]
  BY <1>1, <1>3 DEF Layers
<1>4. ASSUME NEW p \in Panels,
             priv = [layer EXCEPT !.asked = TRUE, !.width = p[1], !.height = p[2]]
      PROVE  /\ priv \in Layers /\ <<priv.width, priv.height>> \in Sizes
             /\ priv.fd = layer.fd /\ priv.fbAddr = layer.fbAddr /\ priv.fbSize = layer.fbSize
             /\ priv.layerAddr = layer.layerAddr
  <2>1. p[1] \in Nat /\ p[2] \in Nat /\ p = <<p[1], p[2]>>
    BY <1>4
  <2>2. /\ priv \in Layers /\ priv.width = p[1] /\ priv.height = p[2]
        /\ priv.fd = layer.fd /\ priv.fbAddr = layer.fbAddr /\ priv.fbSize = layer.fbSize
        /\ priv.layerAddr = layer.layerAddr
    BY <1>1, <1>4, <2>1 DEF Layers
  <2>3. <<priv.width, priv.height>> \in Sizes
    BY <2>1, <2>2 DEF Sizes
  <2> QED
    BY <2>2, <2>3
<1>5. priv = layer \/ priv = [layer EXCEPT !.asked = TRUE]
        \/ \E p \in Panels : priv = [layer EXCEPT !.asked = TRUE, !.width = p[1], !.height = p[2]]
  BY DEF GetLayerInstance
<1> QED
  BY <1>2, <1>3, <1>4, <1>5

(* Nothing is open at the beginning.                                       *)
LEMMA LayerBegins == LayerInit => LayerInv
<1> SUFFICES ASSUME LayerInit PROVE LayerInv
  OBVIOUS
<1> USE LayerAssumption DEF LayerInit
<1>1. layer \in Layers /\ <<layer.width, layer.height>> \in Sizes
  BY DEF Layers, Sizes
<1>2. kept \in Keeps /\ painter \in Painters
  BY DEF Keeps, Painters
<1>3. LayerTyped
  BY <1>1, <1>2 DEF LayerTyped
<1> QED
  BY <1>3 DEF LayerInv, NumberGiven, OneBlock, ClosedLayer, LayerInUse

(* Every call of the client keeps the invariant, whatever fails in it.     *)
LEMMA LayerNextInv ==
  ASSUME LayerInv, [LayerNext]_layerVars
  PROVE  LayerInv'
<1> USE LayerAssumption
<1>t. /\ table \in [funcs : {"none", "made", "freed"}, count : Nat]
      /\ layer \in Layers /\ kept \in Keeps /\ painter \in Painters
      /\ table.count \in Nat /\ painter.calls \in 0..MaxLayerCalls /\ table.count <= painter.calls
      /\ <<layer.width, layer.height>> \in Sizes
      /\ painter.created \in BOOLEAN /\ painter.block \in Nat
  BY DEF LayerInv, LayerTyped, Painters
<1>0. CASE UNCHANGED layerVars
  BY <1>0 DEF layerVars, LayerInv, LayerTyped, NumberGiven, OneBlock, ClosedLayer, LayerInUse
<1>1. CASE LayerInitialize \/ LayerUninitialize
  <2>1. /\ painter' = [painter EXCEPT !.calls = @ + 1] /\ painter.calls < MaxLayerCalls
        /\ UNCHANGED <<layer, kept>>
    BY <1>1 DEF LayerInitialize, LayerUninitialize
  <2>2. /\ table' \in [funcs : {"none", "made", "freed"}, count : Nat]
        /\ table'.count <= table.count + 1
    BY <1>1, <1>t DEF LayerInitialize, LayerUninitialize
  <2>3. /\ painter' \in Painters /\ painter'.calls = painter.calls + 1
        /\ painter'.created = painter.created /\ painter'.block = painter.block
        /\ painter'.state = painter.state
    BY <1>t, <2>1 DEF Painters
  <2>4. table'.count <= painter'.calls
    BY <1>t, <2>2, <2>3
  <2> QED
    BY <1>t, <2>1, <2>2, <2>3, <2>4
    DEF LayerInv, LayerTyped, NumberGiven, OneBlock, ClosedLayer, LayerInUse
<1>2. ASSUME UNCHANGED <<table, kept>>, layer' \in Layers,
             <<layer'.width, layer'.height>> \in Sizes,
             layer'.fbAddr = layer.fbAddr, layer'.fbSize = layer.fbSize,
             layer'.layerAddr = layer.layerAddr, layer'.fd = layer.fd,
             painter' = [painter EXCEPT !.calls = @ + 1], painter.calls < MaxLayerCalls
      PROVE  LayerInv'
  <2>1. /\ painter' \in Painters /\ painter'.calls = painter.calls + 1
        /\ painter'.created = painter.created /\ painter'.block = painter.block
        /\ painter'.state = painter.state
    BY <1>t, <1>2 DEF Painters
  <2>2. table.count <= painter'.calls
    BY <1>t, <2>1
  <2> QED
    BY <1>2, <1>t, <2>1, <2>2
    DEF LayerInv, LayerTyped, NumberGiven, OneBlock, ClosedLayer, LayerInUse
<1>3. CASE GetDisplayInfo \/ GetLayerBufferFails
  <2>1. /\ UNCHANGED <<table, kept>> /\ layer' \in GetLayerInstance
        /\ painter' = [painter EXCEPT !.calls = @ + 1] /\ painter.calls < MaxLayerCalls
    BY <1>3 DEF GetDisplayInfo, GetLayerBufferFails, Calls
  <2> QED
    BY <1>2, <2>1, InstanceType DEF LayerInv
<1>4. CASE OpenFails
  <2>1. PICK priv \in GetLayerInstance : layer' = [priv EXCEPT !.fd = -1]
    BY <1>4 DEF OpenFails
  <2>2. /\ UNCHANGED <<table, kept>> /\ ~painter.created /\ painter.state = "runs"
        /\ painter' = [painter EXCEPT !.calls = @ + 1] /\ painter.calls < MaxLayerCalls
    BY <1>4 DEF OpenFails, Calls
  <2>3. layer.fd = -1
    BY <2>2 DEF LayerInv, ClosedLayer
  <2>4. /\ priv \in Layers /\ <<priv.width, priv.height>> \in Sizes
        /\ priv.fd = layer.fd /\ priv.fbAddr = layer.fbAddr /\ priv.fbSize = layer.fbSize
        /\ priv.layerAddr = layer.layerAddr
    BY InstanceType DEF LayerInv
  <2>5. layer' = priv
    BY <2>1, <2>3, <2>4 DEF Layers
  <2> QED
    BY <1>2, <2>2, <2>4, <2>5
<1>5. CASE MapFails
  <2>1. PICK priv \in GetLayerInstance : layer' = [priv EXCEPT !.fd = 0]
    BY <1>5 DEF MapFails
  <2>2. /\ UNCHANGED <<table, kept>> /\ ~painter.created
        /\ painter' = [painter EXCEPT !.state = "unmapped"]
    BY <1>5 DEF MapFails
  <2>3. /\ priv \in Layers /\ <<priv.width, priv.height>> \in Sizes
        /\ priv.fd = layer.fd /\ priv.fbAddr = layer.fbAddr /\ priv.fbSize = layer.fbSize
        /\ priv.layerAddr = layer.layerAddr
    BY InstanceType DEF LayerInv
  <2>4. /\ layer' \in Layers /\ layer'.fd = 0
        /\ layer'.width = priv.width /\ layer'.height = priv.height
        /\ layer'.fbAddr = layer.fbAddr /\ layer'.fbSize = layer.fbSize
        /\ layer'.layerAddr = layer.layerAddr
    BY <2>1, <2>3 DEF Layers
  <2>5. /\ painter' \in Painters /\ painter'.calls = painter.calls
        /\ painter'.created = painter.created /\ painter'.block = painter.block
        /\ painter'.state = "unmapped"
    BY <1>t, <2>2 DEF Painters
  <2> QED
    BY <1>t, <2>2, <2>3, <2>4, <2>5
    DEF LayerInv, LayerTyped, NumberGiven, OneBlock, ClosedLayer, LayerInUse
<1>6. CASE CreateLayer(layer.width)
  <2> DEFINE id == kept.last + 1
  <2>1. PICK priv \in GetLayerInstance :
           LET size == RoundUp(layer.width * BytesPerPixel * priv.height)
           IN  /\ layer' = [priv EXCEPT !.fd = id, !.fbAddr = id, !.fbSize = size]
               /\ kept' = [kept EXCEPT !.files = @ \cup {id}, !.maps = @ \cup {<<id, size>>},
                                       !.last = id]
    BY <1>6 DEF CreateLayer
  <2> DEFINE size == RoundUp(layer.width * BytesPerPixel * priv.height)
  <2>2. /\ UNCHANGED table /\ ~painter.created
        /\ painter' = [painter EXCEPT !.created = TRUE, !.calls = @ + 1]
        /\ painter.calls < MaxLayerCalls /\ painter.state = "runs"
    BY <1>6 DEF CreateLayer, Calls
  <2>3. /\ priv \in Layers /\ <<priv.width, priv.height>> \in Sizes
        /\ priv.layerAddr = layer.layerAddr
    BY InstanceType DEF LayerInv
  <2>4. size \in Nat
    <3>1. layer.width \in Nat /\ priv.height \in Nat
      BY <1>t, <2>3 DEF Layers
    <3>2. layer.width * BytesPerPixel \in Nat
      BY <3>1 DEF BytesPerPixel
    <3>3. layer.width * BytesPerPixel * priv.height \in Nat
      BY <3>1, <3>2
    <3> QED
      BY <3>3, RoundUpType
  <2>5. /\ kept.files = {} /\ kept.maps = {} /\ kept.blocks = {} /\ kept.last \in Nat
        /\ painter.block = 0 /\ layer.layerAddr = 0
    BY <1>t, <2>2 DEF LayerInv, LayerInUse, OneBlock, Keeps
  <2>6. /\ layer' = [priv EXCEPT !.fd = id, !.fbAddr = id, !.fbSize = size]
        /\ kept' = [kept EXCEPT !.files = @ \cup {id}, !.maps = @ \cup {<<id, size>>}, !.last = id]
    BY <2>1
  <2> HIDE DEF size
  <2>7. id \in Nat /\ id > 0 /\ id \in 1..id
    BY <2>5
  <2>8. /\ layer' \in Layers /\ layer'.fd = id /\ layer'.fbAddr = id /\ layer'.fbSize = size
        /\ layer'.layerAddr = 0 /\ layer'.width = priv.width /\ layer'.height = priv.height
    BY <2>3, <2>4, <2>5, <2>6, <2>7 DEF Layers
  <2>9. /\ kept' \in Keeps /\ kept'.files = {id} /\ kept'.maps = {<<id, size>>}
        /\ kept'.blocks = {} /\ kept'.last = id
    <3> HIDE DEF id
    <3>1. kept' = [files |-> {id}, maps |-> {<<id, size>>}, blocks |-> {}, last |-> id]
      BY <1>t, <2>5, <2>6 DEF Keeps
    <3> QED
      BY <2>4, <2>7, <3>1 DEF Keeps
  <2>10. /\ painter' \in Painters /\ painter'.calls = painter.calls + 1
         /\ painter'.created = TRUE /\ painter'.block = 0 /\ painter'.state = "runs"
    <3>1. painter.calls + 1 \in 0..MaxLayerCalls
      BY <1>t, <2>2
    <3>2. painter' = [created |-> TRUE, block |-> 0, calls |-> painter.calls + 1, state |-> "runs"]
      BY <1>t, <2>2, <2>5 DEF Painters
    <3> QED
      BY <3>1, <3>2 DEF Painters
  <2>11. LayerTyped'
    BY <1>t, <2>2, <2>3, <2>8, <2>9, <2>10 DEF LayerTyped
  <2> QED
    BY <2>7, <2>8, <2>9, <2>10, <2>11 DEF LayerInv, NumberGiven, OneBlock, ClosedLayer, LayerInUse
<1>7. CASE CloseLayer
  <2>1. /\ kept' = [kept EXCEPT !.files = @ \ {layer.fd},
                                !.blocks = { b \in @ : b[1] # layer.layerAddr },
                                !.maps = { m \in @ : m[1] # layer.fbAddr }]
        /\ layer' = [layer EXCEPT !.fd = -1, !.layerAddr = 0]
        /\ painter' = [painter EXCEPT !.created = FALSE, !.block = 0, !.calls = @ + 1]
        /\ UNCHANGED table /\ painter.calls < MaxLayerCalls /\ painter.state = "runs"
        /\ painter.created
    BY <1>7 DEF CloseLayer, Calls
  <2>2. /\ kept.files = {layer.fd} /\ kept.maps = {<<layer.fbAddr, layer.fbSize>>}
        /\ kept.blocks = IF layer.layerAddr = 0 THEN {} ELSE {<<layer.layerAddr, layer.fbSize>>}
    BY <2>1 DEF LayerInv, LayerInUse, OneBlock
  <2>3. /\ kept.files \ {layer.fd} = {}
        /\ { b \in kept.blocks : b[1] # layer.layerAddr } = {}
        /\ { m \in kept.maps : m[1] # layer.fbAddr } = {}
    BY <2>2
  <2>4. kept' = [kept EXCEPT !.files = {}, !.blocks = {}, !.maps = {}]
    BY <2>1, <2>3
  <2>5. /\ kept' \in Keeps /\ kept'.files = {} /\ kept'.maps = {} /\ kept'.blocks = {}
        /\ kept'.last = kept.last /\ kept.last \in Nat
    BY <1>t, <2>4 DEF Keeps
  <2>6. /\ layer' \in Layers /\ layer'.fd = -1 /\ layer'.layerAddr = 0
        /\ layer'.fbAddr = layer.fbAddr /\ layer'.width = layer.width
        /\ layer'.height = layer.height
    BY <1>t, <2>1 DEF Layers
  <2>7. /\ painter' \in Painters /\ painter'.calls = painter.calls + 1
        /\ painter'.created = FALSE /\ painter'.block = 0 /\ painter'.state = "runs"
    <3>1. painter.calls + 1 \in 0..MaxLayerCalls
      BY <1>t, <2>1
    <3>2. painter' = [created |-> FALSE, block |-> 0, calls |-> painter.calls + 1, state |-> "runs"]
      BY <1>t, <2>1 DEF Painters
    <3> QED
      BY <3>1, <3>2 DEF Painters
  <2>8. LayerTyped'
    BY <1>t, <2>1, <2>5, <2>6, <2>7 DEF LayerTyped
  <2>9. NumberGiven'
    BY <2>5, <2>6, <2>7 DEF LayerInv, NumberGiven
  <2> QED
    BY <2>5, <2>6, <2>7, <2>8, <2>9 DEF LayerInv, OneBlock, ClosedLayer, LayerInUse
<1>8. CASE GetLayerBuffer
  <2> DEFINE id == kept.last + 1
  <2>1. PICK priv \in GetLayerInstance :
           /\ priv.fd >= 0
           /\ kept' = [kept EXCEPT !.blocks = @ \cup {<<id, priv.fbSize>>}, !.last = id]
           /\ layer' = [priv EXCEPT !.layerAddr = id]
           /\ painter' = [painter EXCEPT !.block = id, !.calls = @ + 1]
    BY <1>8 DEF GetLayerBuffer
  <2>2. /\ UNCHANGED table /\ painter.block = 0
        /\ painter.calls < MaxLayerCalls /\ painter.state = "runs"
    BY <1>8 DEF GetLayerBuffer, Calls
  <2>3. /\ priv \in Layers /\ <<priv.width, priv.height>> \in Sizes
        /\ priv.fd = layer.fd /\ priv.fbAddr = layer.fbAddr /\ priv.fbSize = layer.fbSize
    BY InstanceType DEF LayerInv
  <2>4. painter.created
    BY <2>1, <2>2, <2>3 DEF LayerInv, ClosedLayer
  <2>5. kept.blocks = {} /\ kept.last \in Nat
    BY <1>t, <2>2 DEF LayerInv, LayerInUse, Keeps
  <2>6. id \in Nat /\ id > 0 /\ id # 0 /\ kept.last < id
    BY <2>5
  <2>7. layer.fbSize \in Nat
    BY <1>t DEF Layers
  <2>8. /\ kept' \in Keeps /\ kept'.files = kept.files /\ kept'.maps = kept.maps
        /\ kept'.blocks = {<<id, layer.fbSize>>} /\ kept'.last = id
    <3> HIDE DEF id
    <3>1. kept' = [files |-> kept.files, maps |-> kept.maps, blocks |-> {<<id, layer.fbSize>>},
                   last |-> id]
      BY <1>t, <2>1, <2>3, <2>5 DEF Keeps
    <3>2. kept.files \in SUBSET Nat /\ kept.maps \in SUBSET (Nat \X Nat)
      BY <1>t DEF Keeps
    <3> QED
      BY <2>6, <2>7, <3>1, <3>2 DEF Keeps
  <2>9. /\ layer' \in Layers /\ layer'.fd = layer.fd /\ layer'.layerAddr = id
        /\ layer'.fbAddr = layer.fbAddr /\ layer'.fbSize = layer.fbSize
        /\ layer'.width = priv.width /\ layer'.height = priv.height
    BY <2>1, <2>3, <2>6 DEF Layers
  <2>10. /\ painter' \in Painters /\ painter'.calls = painter.calls + 1
         /\ painter'.created = TRUE /\ painter'.block = id /\ painter'.state = "runs"
    <3>1. painter.calls + 1 \in 0..MaxLayerCalls
      BY <1>t, <2>2
    <3> HIDE DEF id
    <3>2. painter' = [created |-> TRUE, block |-> id, calls |-> painter.calls + 1, state |-> "runs"]
      BY <1>t, <2>1, <2>2, <2>4 DEF Painters
    <3> QED
      BY <2>6, <3>1, <3>2 DEF Painters
  <2>11. LayerTyped'
    BY <1>t, <2>2, <2>3, <2>8, <2>9, <2>10 DEF LayerTyped
  <2>12. NumberGiven'
    <3>1. /\ layer.fbAddr \in Nat /\ layer.fbAddr <= kept.last /\ layer.fd \in 1..kept.last
      BY <1>t, <2>4 DEF LayerInv, NumberGiven, Layers
    <3>2. layer.fbAddr <= id /\ layer.fd \in 1..id
      BY <2>5, <3>1
    <3> HIDE DEF id
    <3> QED
      BY <2>6, <2>8, <2>9, <3>2 DEF NumberGiven
  <2>13. LayerInUse'
    <3> HIDE DEF id
    <3> QED
      BY <2>4, <2>6, <2>8, <2>9, <2>10 DEF LayerInv, LayerInUse
  <2> QED
    BY <2>6, <2>9, <2>10, <2>11, <2>12, <2>13 DEF LayerInv, OneBlock, ClosedLayer
<1>9. CASE Flush
  <2>1. /\ painter' = [painter EXCEPT !.calls = @ + 1,
                                !.state = IF /\ Holds(kept.maps, layer.fbAddr)
                                                   /\ Holds(kept.blocks, painter.block)
                                                THEN "runs" ELSE "fault"]
        /\ UNCHANGED <<table, layer, kept>> /\ painter.block # 0
        /\ painter.calls < MaxLayerCalls /\ painter.state = "runs"
    BY <1>9 DEF Flush, Calls
  <2>2. /\ kept.maps = {<<layer.fbAddr, layer.fbSize>>}
        /\ kept.blocks = {<<painter.block, layer.fbSize>>}
    BY <2>1 DEF LayerInv, OneBlock, LayerInUse
  <2>3. Holds(kept.maps, layer.fbAddr) /\ Holds(kept.blocks, painter.block)
    <3>1. layer.fbSize \in Nat
      BY <1>t DEF Layers
    <3> QED
      BY <2>2, <3>1 DEF Holds
  <2>4. painter' = [painter EXCEPT !.calls = @ + 1]
    BY <1>t, <2>1, <2>3 DEF Painters
  <2>5. layer' \in Layers /\ <<layer'.width, layer'.height>> \in Sizes
    BY <1>t, <2>1
  <2> QED
    BY <1>2, <2>1, <2>4, <2>5
<1> QED
  BY <1>0, <1>1, <1>3, <1>4, <1>5, <1>6, <1>7, <1>8, <1>9 DEF LayerNext

(* Thus the invariant holds in every state.                                *)
LEMMA LayerInvariance == LayerSpec => []LayerInv
<1> QED
  BY LayerBegins, LayerNextInv, PTL DEF LayerSpec

-----------------------------------------------------------------------------
(* The display's layer: theorems.                                          *)

(* What the layer keeps is of its type, and names nothing that was not     *)
(* opened, mapped or allocated.                                            *)
THEOREM LayerTypeCorrect == LayerSpec => []LayerTypeOK
<1>1. LayerInv => LayerTypeOK
  <2> SUFFICES ASSUME LayerInv PROVE LayerTypeOK
    OBVIOUS
  <2>1. /\ table \in [funcs : {"none", "made", "freed"}, count : 0..MaxLayerCalls]
    BY LayerAssumption DEF LayerInv, LayerTyped, Painters
  <2>2. /\ layer.fd \in Int /\ layer.asked \in BOOLEAN /\ layer.fbSize \in Nat
        /\ layer.fbAddr \in 0..kept.last /\ layer.layerAddr \in 0..kept.last
    BY DEF LayerInv, LayerTyped, NumberGiven, Layers, Keeps
  <2>3. IsFiniteSet(kept.maps \cup kept.blocks)
    <3>1. IsFiniteSet(kept.maps)
      <4>1. IsFiniteSet({<<layer.fbAddr, layer.fbSize>>}) /\ IsFiniteSet({})
        BY FS_Singleton, FS_EmptySet
      <4> QED
        BY <4>1 DEF LayerInv, LayerInUse
    <3>2. IsFiniteSet(kept.blocks)
      <4>1. IsFiniteSet({<<painter.block, layer.fbSize>>}) /\ IsFiniteSet({})
        BY FS_Singleton, FS_EmptySet
      <4> QED
        BY <4>1 DEF LayerInv, LayerInUse
    <3> QED
      BY <3>1, <3>2, FS_Union
  <2>4. kept.files \subseteq 1..kept.last
    BY DEF LayerInv, LayerInUse, NumberGiven
  <2>5. painter.block \in 0..kept.last
    BY <2>2 DEF LayerInv, OneBlock
  <2>6. painter \in [ created : BOOLEAN, block : 0..kept.last, calls : 0..MaxLayerCalls,
                      state : {"runs", "unmapped", "fault"} ]
    BY <2>5 DEF LayerInv, LayerTyped, Painters
  <2>7. <<layer.width, layer.height>> \in Panels \cup {<<DISP_WIDTH, DISP_HEIGHT>>}
    BY DEF LayerInv, LayerTyped, Sizes
  <2> QED
    BY <2>1, <2>2, <2>3, <2>4, <2>6, <2>7 DEF LayerTypeOK
<1> QED
  BY <1>1, LayerInvariance, PTL

(* Whatever the panel's size is and whichever call fails, what is open,    *)
(* mapped and allocated is what the layer says, and every Flush copies     *)
(* within it.                                                              *)
THEOREM LayerAccounts == LayerSpec => []LayerIsAccounted
<1>1. LayerInv => LayerIsAccounted
  <2> SUFFICES ASSUME LayerInv PROVE LayerIsAccounted
    OBVIOUS
  <2>1. kept.files = {layer.fd} \ {-1, 0}
    <3>1. CASE painter.created
      <4>1. layer.fd # -1 /\ layer.fd # 0 /\ kept.files = {layer.fd}
        BY <3>1 DEF LayerInv, LayerTyped, Keeps, NumberGiven, LayerInUse
      <4> QED
        BY <4>1
    <3>2. CASE ~painter.created
      <4>1. layer.fd \in {-1, 0} /\ kept.files = {}
        BY <3>2 DEF LayerInv, ClosedLayer, LayerInUse
      <4> QED
        BY <4>1
    <3> QED
      BY <3>1, <3>2
  <2>2. { m[1] : m \in kept.maps } = IF painter.created THEN {layer.fbAddr} ELSE {}
    <3>1. CASE painter.created
      <4>1. kept.maps = {<<layer.fbAddr, layer.fbSize>>}
        BY <3>1 DEF LayerInv, LayerInUse
      <4> QED
        BY <3>1, <4>1
    <3>2. CASE ~painter.created
      <4>1. kept.maps = {}
        BY <3>2 DEF LayerInv, LayerInUse
      <4> QED
        BY <3>2, <4>1
    <3> QED
      BY <3>1, <3>2
  <2>3. { b[1] : b \in kept.blocks } = {layer.layerAddr} \ {0}
    <3>1. painter.block = layer.layerAddr
      BY DEF LayerInv, OneBlock
    <3>2. CASE painter.block = 0
      <4>1. kept.blocks = {}
        BY <3>2 DEF LayerInv, LayerInUse
      <4> QED
        BY <3>1, <3>2, <4>1
    <3>3. CASE painter.block # 0
      <4>1. kept.blocks = {<<painter.block, layer.fbSize>>}
        BY <3>3 DEF LayerInv, LayerInUse
      <4> QED
        BY <3>1, <3>3, <4>1
    <3> QED
      BY <3>2, <3>3
  <2>4. \A p \in kept.maps \cup kept.blocks : p[2] = layer.fbSize
    BY DEF LayerInv, LayerInUse
  <2> QED
    BY <2>1, <2>2, <2>3, <2>4 DEF LayerInv, LayerIsAccounted
<1> QED
  BY <1>1, LayerInvariance, PTL

-----------------------------------------------------------------------------
(* The launcher: the inductive invariant.                                  *)

AdderThreads == {"ui", "callback"}

AdderPlaces == [at : {"idle", "find", "add", "put", "list", "mark"}, name : Bundles \cup {NoApp},
                page : Nat, cell : Nat]

Place(place) == [name |-> place.name, page |-> place.page, cell |-> place.cell]

AllIcons == [name : Bundles, page : Pages, cell : Nat]

(* Once the pages are filled, the UI thread waits or removes an icon.      *)
Filled == {"run", "remove", "unlist"}

Desktops == [at : {"start", "ask", "fill"} \cup Filled, todo : SUBSET (Bundles \ Own),
             app : Bundles \cup {NoApp}, page : Nat, gone : SUBSET AllIcons]

LauncherTyped ==
  /\ bundles \in [installed : SUBSET Bundles, installs : 0..MaxInstalls]
  /\ results \subseteq Bundles /\ mixed \in BOOLEAN
  /\ icons \subseteq AllIcons /\ row_col \in [Pages -> SUBSET Nat]
  /\ adders \in [AdderThreads -> AdderPlaces]
  /\ desktop \in Desktops

(* Icons and marks are in cells of their pages.                            *)
CellsOnPages ==
  /\ \A i \in icons : i.cell \in PageCells[i.page]
  /\ \A p \in Pages : row_col[p] \subseteq PageCells[p]

(* What a thread that adds an app found out about the pages is still true  *)
(* when it relies on it: the app has no icon on those it searched, the     *)
(* cell it chose is free, and the icon whose cell it is about to mark is   *)
(* one that stays.                                                         *)
Informed(place) ==
  /\ place.at \in {"add", "put", "list"} => \A i \in icons : i.name # place.name
  /\ place.at = "find" => \A i \in icons : i.page < place.page => i.name # place.name
  /\ place.at \in {"put", "list"} => place.cell \notin row_col[place.page]
  /\ place.at = "mark" => Place(place) \in icons \ desktop.gone

Proper(a, place) ==
  /\ place \in AdderPlaces
  /\ place.at = "idle" => place = Idle
  /\ place.at # "idle" => place.name \in Bundles /\ place.page \in Pages
  /\ place.at \in {"put", "list", "mark"} => place.cell \in PageCells[place.page]
  /\ a = "ui" => place.at # "find"
  /\ ~mixed => Informed(place)

AddersInv == \A a \in AdderThreads : Proper(a, adders[a])

(* The UI thread adds while it fills the pages only; the callback, unless  *)
(* that was mixed up, only afterwards.                                     *)
OneAdds ==
  /\ adders["ui"] # Idle => desktop.at = "fill"
  /\ ~mixed /\ adders["callback"] # Idle => desktop.at \in Filled

(* The bundles still to be added have no icon, and none is being added.    *)
TodoInv ==
  /\ desktop.at # "fill" => desktop.todo = {}
  /\ ~mixed /\ desktop.at \in {"start", "ask"} => icons = {}
  /\ ~mixed => \A n \in desktop.todo : n # adders["ui"].name /\ \A i \in icons : i.name # n

(* An app is sought on the pages, and an icon whose mark was cleared stays *)
(* in the list until the UI thread removes it.                             *)
RemovalInv ==
  /\ desktop.at = "remove" => desktop.app \in Bundles /\ desktop.page \in Pages
  /\ desktop.gone \subseteq icons /\ (desktop.at # "unlist" => desktop.gone = {})

PagesInv == LauncherTyped /\ CellsOnPages /\ AddersInv /\ OneAdds /\ TodoInv /\ RemovalInv
              /\ PagesAgree

(* The view of the long press, of an app, hangs in the page on show.       *)
ViewInv ==
  /\ leaving \subseteq Bundles
  /\ press \in [ bStatus : BOOLEAN, viewParent : Pages \cup {0}, app : Bundles \cup {NoApp},
                 hangs : Pages \cup {0}, page : Pages, count : Nat ]
  /\ press.bStatus => /\ press.app \in Bundles
                      /\ press.viewParent = press.page /\ press.hangs = press.page
  /\ ~press.bStatus => press.hangs = 0

-----------------------------------------------------------------------------
(* The launcher: its pages and cells.                                      *)

(* Pages are numbered from one, and the last one has their number.         *)
LEMMA PagesNumbered ==
  /\ Pages = 1..Cardinality(Pages) /\ Cardinality(Pages) \in Nat
  /\ 1 \in Pages /\ 0 \notin Pages /\ Pages \subseteq Nat
<1>1. PageCells \in Seq(SUBSET Nat) /\ PageCells # <<>>
  BY LauncherAssumption
<1> DEFINE l == Len(PageCells)
<1>2. l \in Nat /\ Pages = 1..l /\ l # 0
  BY <1>1 DEF Pages
<1> HIDE DEF l
<1>3. Cardinality(1..l) = l
  <2>1. 1 \in Int /\ l \in Int
    BY <1>2
  <2>2. Cardinality(1..l) = IF 1 > l THEN 0 ELSE l - 1 + 1
    BY <2>1, FS_Interval
  <2> QED
    BY <1>2, <2>2
<1> QED
  BY <1>2, <1>3

(* Every set of numbers has a least element, ...                           *)
LEMMA Least ==
  ASSUME NEW T, T \subseteq Nat, T # {}
  PROVE \E x \in T : \A y \in T : x <= y
<1>1. IsWellFoundedOn(OpToRel(<,Nat), Nat)
  BY NatLessThanWellFounded
<1>2. PICK x \in T : \A y \in T : <<y,x>> \notin OpToRel(<,Nat)
  BY <1>1, WFMin
<1>3. \A y \in T : ~(y < x)
  BY <1>2 DEF OpToRel
<1> QED BY <1>3

(* So a set of naturals with a smaller element below each has none.        *)
LEMMA NoDescent ==
  ASSUME NEW T, T \subseteq Nat, \A n \in T : n - 1 \in T
  PROVE  T = {}
<1>1. ASSUME T # {} PROVE FALSE
  <2>1. PICK x \in T : \A y \in T : x <= y
    BY <1>1, Least
  <2> QED
    BY <2>1
<1> QED
  BY <1>1

(* The least element is the one Min chooses.                               *)
LEMMA LeastCell == ASSUME NEW S \in SUBSET Nat, S # {} PROVE Min(S) \in S
<1>1. PICK n \in S : \A m \in S : n <= m
  BY Least
<1> QED
  BY <1>1 DEF Min

(* The cell that is chosen on a page that is not full.                     *)
LEMMA CellChosen ==
  ASSUME LauncherTyped, NEW p \in Pages, FreeCells(p) # {}
  PROVE  /\ Min(FreeCells(p)) \in PageCells[p] /\ Min(FreeCells(p)) \notin row_col[p]
         /\ Min(FreeCells(p)) \in Nat
<1>1. PageCells \in Seq(SUBSET Nat) /\ p \in DOMAIN PageCells
  BY LauncherAssumption DEF Pages
<1>2. PageCells[p] \in SUBSET Nat
  BY <1>1
<1>3. FreeCells(p) \in SUBSET Nat
  BY <1>2 DEF FreeCells
<1>4. Min(FreeCells(p)) \in FreeCells(p)
  BY <1>3, LeastCell
<1> QED
  BY <1>3, <1>4 DEF FreeCells

(* The beginning of a page's search for a name.                            *)
LEMMA NotFound ==
  ASSUME LauncherTyped, NEW p \in Pages, NEW n \in Bundles, ~FindApp(p, n)
  PROVE  \A i \in icons : i.page = p => i.name # n
BY LauncherAssumption DEF FindApp, OnPage

-----------------------------------------------------------------------------
(* The launcher: steps on the pages.                                       *)

(* A thread that adds goes on to another place, or ends.                   *)
LEMMA AdderMoved ==
  ASSUME PagesInv, NEW a \in AdderThreads, NEW place, Proper(a, place), adders[a] # Idle,
         Moves(a, place), place = Idle \/ place.name = adders[a].name, adders[a].at # "mark",
         UNCHANGED <<bundles, results, icons, row_col, desktop, mixed>>
  PROVE  PagesInv'
<1>1. /\ adders \in [AdderThreads -> AdderPlaces] /\ place \in AdderPlaces
      /\ adders' = [adders EXCEPT ![a] = place]
  BY DEF PagesInv, LauncherTyped, Proper, Moves
<1>2. adders' \in [AdderThreads -> AdderPlaces]
  BY <1>1
<1>3. LauncherTyped'
  BY <1>2 DEF PagesInv, LauncherTyped
<1>4. AddersInv'
  <2> SUFFICES ASSUME NEW b \in AdderThreads PROVE Proper(b, adders[b])'
    BY DEF AddersInv
  <2>1. Proper(b, adders'[b])
    <3>1. CASE b = a
      BY <1>1, <3>1
    <3>2. CASE b # a
      BY <1>1, <3>2 DEF PagesInv, AddersInv
    <3> QED
      BY <3>1, <3>2
  <2> QED
    BY <2>1 DEF Proper, Informed
<1>5. OneAdds'
  <2>1. \A b \in AdderThreads : adders'[b] # Idle => adders[b] # Idle
    BY <1>1
  <2> QED
    BY <2>1 DEF PagesInv, OneAdds, AdderThreads
<1>6. TodoInv'
  <2>1. "ui" \in AdderThreads
    BY DEF AdderThreads
  <2>2. adders'["ui"] = Idle \/ adders'["ui"].name = adders["ui"].name
    BY <1>1, <2>1
  <2>3. \A n \in desktop.todo : n # Idle.name
    BY LauncherAssumption DEF PagesInv, LauncherTyped, Idle, Desktops
  <2>4. \A n \in desktop.todo : n # adders["ui"].name => n # adders'["ui"].name
    BY <2>2, <2>3
  <2> QED
    BY <2>4 DEF PagesInv, TodoInv
<1>7. \A i : Marking(i) => Marking(i)'
  BY <1>1 DEF Marking, IconOf
<1>8. PagesAgree'
  BY <1>7 DEF PagesInv, PagesAgree, OnPage
<1> QED
  BY <1>3, <1>4, <1>5, <1>6, <1>8 DEF PagesInv, CellsOnPages, RemovalInv

(* A step that neither adds nor removes anything, and changes at most what *)
(* the manager lists and reports.                                          *)
LEMMA PagesStay ==
  ASSUME PagesInv, UNCHANGED <<icons, row_col, adders, desktop, mixed>>,
         bundles' \in [installed : SUBSET Bundles, installs : 0..MaxInstalls],
         results' \subseteq Bundles
  PROVE  PagesInv'
<1>1. LauncherTyped'
  BY DEF PagesInv, LauncherTyped
<1>2. AddersInv'
  BY DEF PagesInv, AddersInv, Proper, Informed
<1>3. PagesAgree'
  BY DEF PagesInv, PagesAgree, OnPage, Marking, IconOf
<1> QED
  BY <1>1, <1>2, <1>3 DEF PagesInv, CellsOnPages, OneAdds, TodoInv, RemovalInv

(* The UI thread goes on with what it does once the pages are filled.      *)
LEMMA DesktopMoved ==
  ASSUME PagesInv, desktop' \in Desktops, desktop.at \in Filled, desktop'.at \in Filled,
         desktop'.todo = {}, desktop'.gone = desktop.gone,
         desktop'.at = "unlist" <=> desktop.at = "unlist",
         desktop'.at = "remove" => desktop'.app \in Bundles /\ desktop'.page \in Pages,
         UNCHANGED <<bundles, results, icons, row_col, adders, mixed>>
  PROVE  PagesInv'
<1>1. LauncherTyped' /\ CellsOnPages'
  BY DEF PagesInv, LauncherTyped, CellsOnPages, Desktops, AllIcons
<1>2. AddersInv'
  BY DEF PagesInv, AddersInv, Proper, Informed, IconOf
<1>3. OneAdds' /\ TodoInv'
  BY DEF PagesInv, OneAdds, TodoInv, Filled
<1>4. RemovalInv' /\ PagesAgree'
  BY DEF PagesInv, RemovalInv, PagesAgree, OnPage, Marking, IconOf
<1> QED
  BY <1>1, <1>2, <1>3, <1>4 DEF PagesInv

(* RemoveApp, on one page: the mark of the icon's cell goes, ...           *)
LEMMA MarkCleared ==
  ASSUME PagesInv, RemoveApp
  PROVE  PagesInv'
<1>1. /\ desktop.at = "remove" /\ desktop.todo = {} /\ desktop.gone = {}
      /\ desktop.app \in Bundles /\ desktop.page \in Pages /\ desktop \in Desktops
      /\ UNCHANGED <<bundles, results, icons, adders>>
  BY DEF RemoveApp, PagesInv, LauncherTyped, TodoInv, RemovalInv
<1> DEFINE p == desktop.page
<1>2. CASE /\ desktop' = IF p = Cardinality(Pages) THEN Running ELSE [desktop EXCEPT !.page = @ + 1]
           /\ UNCHANGED <<row_col, mixed>>
  <2>1. Running \in Desktops /\ Running.at = "run" /\ Running.todo = {} /\ Running.gone = {}
    BY DEF Running, Desktops, Filled
  <2>2. CASE p = Cardinality(Pages)
    <3>1. desktop' = Running
      BY <1>2, <2>2
    <3> QED
      BY <1>1, <1>2, <2>1, <3>1, DesktopMoved DEF Filled
  <2>3. CASE p # Cardinality(Pages)
    <3>1. p + 1 \in Pages /\ p + 1 \in Nat
      BY <1>1, <2>3, PagesNumbered
    <3>2. /\ desktop' \in Desktops /\ desktop'.at = "remove" /\ desktop'.todo = {}
          /\ desktop'.gone = {} /\ desktop'.app = desktop.app /\ desktop'.page = p + 1
      BY <1>1, <1>2, <2>3, <3>1 DEF Desktops
    <3> QED
      BY <1>1, <1>2, <3>1, <3>2, DesktopMoved DEF Filled
  <2> QED
    BY <2>2, <2>3
<1>3. ASSUME NEW i \in icons, i.page = p,
             row_col' = [row_col EXCEPT ![p] = @ \ {i.cell}],
             desktop' = [desktop EXCEPT !.at = "unlist", !.gone = {i}],
             mixed' = (mixed \/ Marking(i))
      PROVE  PagesInv'
  <2>1. /\ icons \subseteq AllIcons /\ row_col \in [Pages -> SUBSET Nat] /\ mixed \in BOOLEAN
        /\ adders \in [AdderThreads -> AdderPlaces]
    BY DEF PagesInv, LauncherTyped
  <2>2. /\ row_col' \in [Pages -> SUBSET Nat] /\ row_col'[p] = row_col[p] \ {i.cell}
        /\ \A q \in Pages : q # p => row_col'[q] = row_col[q]
    BY <1>1, <1>3, <2>1
  <2>3. \A q \in Pages : row_col'[q] \subseteq row_col[q]
    BY <2>2
  <2>4. /\ desktop' \in Desktops /\ desktop'.at = "unlist" /\ desktop'.todo = {}
        /\ desktop'.gone = {i}
    <3>1. {i} \in SUBSET AllIcons
      BY <1>3, <2>1
    <3> DEFINE G == {i}
    <3>2. desktop' = [desktop EXCEPT !.at = "unlist", !.gone = G] /\ G \in SUBSET AllIcons
      BY <1>3, <3>1
    <3> HIDE DEF G
    <3>3. /\ desktop' \in Desktops /\ desktop'.at = "unlist" /\ desktop'.todo = desktop.todo
          /\ desktop'.gone = G
      BY <1>1, <3>2 DEF Desktops, Filled
    <3> QED
      BY <1>1, <3>3 DEF G
  <2>5. mixed' \in BOOLEAN /\ (~mixed' => ~mixed /\ ~Marking(i))
    <3>1. CASE Marking(i)
      BY <1>3, <3>1
    <3>2. CASE ~Marking(i)
      <4>1. mixed' = mixed
        BY <1>3, <2>1, <3>2
      <4> QED
        BY <2>1, <3>2, <4>1
    <3> QED
      BY <3>1, <3>2
  <2>6. LauncherTyped'
    BY <1>1, <2>1, <2>2, <2>4, <2>5 DEF PagesInv, LauncherTyped, AllIcons
  <2>7. CellsOnPages'
    BY <1>1, <2>3 DEF PagesInv, CellsOnPages
  <2>8. AddersInv'
    <3> SUFFICES ASSUME NEW b \in AdderThreads PROVE Proper(b, adders[b])'
      BY DEF AddersInv
    <3>1. Proper(b, adders[b])
      BY DEF PagesInv, AddersInv
    <3>2. ASSUME ~mixed' PROVE Informed(adders[b])'
      <4>1. Informed(adders[b]) /\ ~Marking(i)
        BY <2>5, <3>1, <3>2 DEF Proper
      <4>2. adders[b].at = "mark" => Place(adders[b]) # i
        BY <2>1, <4>1 DEF Marking, IconOf, Place
      <4>3. adders[b].page \in Pages \/ adders[b].at = "idle"
        BY <3>1 DEF Proper
      <4> QED
        BY <1>1, <2>3, <2>4, <4>1, <4>2, <4>3 DEF Informed, Place
    <3> QED
      BY <1>1, <3>1, <3>2 DEF Proper
  <2>9. OneAdds' /\ TodoInv' /\ RemovalInv'
    <3>1. "ui" \in AdderThreads /\ adders["ui"] = Idle
      BY <1>1 DEF PagesInv, OneAdds, AdderThreads
    <3> QED
      BY <1>1, <2>4, <2>5, <3>1 DEF PagesInv, OneAdds, TodoInv, RemovalInv, Filled
  <2>10. ASSUME ~mixed' PROVE PagesAgree'
    <3>1. /\ \A j, k \in icons : j # k => j.name # k.name /\ <<j.page, j.cell>> # <<k.page, k.cell>>
          /\ \A q \in Pages : row_col[q] \subseteq { j.cell : j \in OnPage(q) }
          /\ \A j \in icons : j.cell \in row_col[j.page] \/ Marking(j)
      BY <1>1, <2>5, <2>10 DEF PagesInv, PagesAgree
    <3>2. \A q \in Pages : row_col'[q] \subseteq { j.cell : j \in OnPage(q) \ {i} }
      <4> TAKE q \in Pages
      <4>1. ASSUME NEW c \in row_col'[q] PROVE \E j \in OnPage(q) \ {i} : c = j.cell
        <5>1. c \in row_col[q] /\ (q = p => c # i.cell)
          BY <2>2, <4>1
        <5>2. PICK j \in OnPage(q) : c = j.cell
          BY <3>1, <5>1
        <5>3. j # i
          BY <1>3, <5>1, <5>2 DEF OnPage
        <5> QED
          BY <5>2, <5>3
      <4> QED
        BY <4>1
    <3>3. \A j \in icons : j.cell \in row_col'[j.page] \/ j = i \/ Marking(j)
      <4> TAKE j \in icons
      <4>1. j.page \in Pages
        BY <2>1 DEF AllIcons
      <4>2. j # i => <<j.page, j.cell>> # <<i.page, i.cell>>
        BY <1>3, <3>1
      <4> QED
        BY <1>3, <2>2, <3>1, <4>1, <4>2
    <3> QED
      BY <1>1, <2>4, <3>1, <3>2, <3>3 DEF PagesAgree, OnPage, Marking, IconOf
  <2>11. PagesAgree'
    BY <2>10 DEF PagesAgree
  <2> QED
    BY <2>6, <2>7, <2>8, <2>9, <2>11 DEF PagesInv
<1> QED
  BY <1>2, <1>3 DEF RemoveApp, OnPage

(* ... and then the icon.                                                  *)
LEMMA IconRemoved ==
  ASSUME PagesInv, UnlistApp
  PROVE  PagesInv'
<1>1. /\ icons' = icons \ desktop.gone /\ desktop' = Running /\ desktop.at = "unlist"
      /\ UNCHANGED <<bundles, results, row_col, adders, mixed>>
  BY DEF UnlistApp
<1>2. /\ Running \in Desktops /\ Running.at = "run" /\ Running.todo = {} /\ Running.gone = {}
  BY DEF Running, Desktops, Filled
<1>3. LauncherTyped' /\ CellsOnPages'
  BY <1>1, <1>2 DEF PagesInv, LauncherTyped, CellsOnPages, AllIcons
<1>4. AddersInv'
  BY <1>1, <1>2 DEF PagesInv, AddersInv, Proper, Informed
<1>5. OneAdds' /\ TodoInv' /\ RemovalInv'
  BY <1>1, <1>2 DEF PagesInv, OneAdds, TodoInv, RemovalInv, Filled
<1>6. ASSUME ~mixed PROVE PagesAgree'
  <2>1. /\ \A j, k \in icons : j # k => j.name # k.name
        /\ \A j, k \in icons \ desktop.gone : j # k => <<j.page, j.cell>> # <<k.page, k.cell>>
        /\ \A q \in Pages : row_col[q] \subseteq { j.cell : j \in OnPage(q) \ desktop.gone }
        /\ \A j \in icons : j.cell \in row_col[j.page] \/ j \in desktop.gone \/ Marking(j)
    BY <1>6 DEF PagesInv, PagesAgree
  <2>2. \A q \in Pages : OnPage(q)' \ {} = OnPage(q) \ desktop.gone
    BY <1>1 DEF OnPage
  <2>3. \A q \in Pages : row_col[q] \subseteq { j.cell : j \in OnPage(q)' \ {} }
    BY <2>1, <2>2
  <2>4. \A j : Marking(j)' <=> Marking(j)
    BY <1>1 DEF Marking, IconOf
  <2> QED
    BY <1>1, <1>2, <2>1, <2>3, <2>4 DEF PagesAgree
<1>7. PagesAgree'
  BY <1>1, <1>6 DEF PagesAgree
<1> QED
  BY <1>3, <1>4, <1>5, <1>7 DEF PagesInv

(* A thread puts its icon into the view, ...                               *)
LEMMA IconShown ==
  ASSUME PagesInv, NEW a \in AdderThreads, SetUpApp(a)
  PROVE  PagesInv'
<1> DEFINE A == adders[a]
           B == [A EXCEPT !.at = "list"]
<1>1. /\ A.at = "put" /\ Moves(a, B)
      /\ UNCHANGED <<bundles, results, icons, row_col, desktop, mixed>>
  BY DEF SetUpApp
<1>2. A \in AdderPlaces /\ Proper(a, A)
  BY DEF PagesInv, LauncherTyped, AddersInv
<1>3. /\ B \in AdderPlaces /\ B.at = "list" /\ B.name = A.name /\ B.page = A.page
      /\ B.cell = A.cell
  BY <1>2 DEF AdderPlaces
<1>4. A # Idle
  BY <1>1 DEF Idle
<1> HIDE DEF A, B
<1>5. Proper(a, B)
  BY <1>1, <1>2, <1>3 DEF Proper, Informed
<1> QED
  BY <1>1, <1>3, <1>4, <1>5, AdderMoved DEF A

(* ... enters it in the list, with a cell that no icon has that stays, ... *)
LEMMA IconPut ==
  ASSUME PagesInv, NEW a \in AdderThreads, PushBack(a)
  PROVE  PagesInv'
<1> DEFINE A == adders[a]
           B == [A EXCEPT !.at = "mark"]
           i == IconOf(a)
<1>1. /\ icons' = icons \cup {i} /\ adders' = [adders EXCEPT ![a] = B]
      /\ UNCHANGED <<bundles, results, row_col, desktop, mixed>> /\ A.at = "list"
  BY DEF PushBack, Moves
<1>t. /\ icons \subseteq AllIcons /\ row_col \in [Pages -> SUBSET Nat]
      /\ adders \in [AdderThreads -> AdderPlaces]
      /\ desktop.gone \subseteq icons /\ mixed \in BOOLEAN
  BY DEF PagesInv, LauncherTyped, RemovalInv
<1>2. /\ A \in AdderPlaces /\ A.name \in Bundles /\ A.page \in Pages /\ A.cell \in PageCells[A.page]
      /\ A.cell \in Nat /\ A # Idle
      /\ ~mixed => A.cell \notin row_col[A.page] /\ \A j \in icons : j.name # A.name
  BY <1>1 DEF PagesInv, AddersInv, Proper, Informed, AdderPlaces, Idle
<1>3. /\ B \in AdderPlaces /\ B.at = "mark" /\ B.name = A.name /\ B.page = A.page
      /\ B.cell = A.cell
  BY <1>2 DEF AdderPlaces
<1>4. /\ i \in AllIcons /\ i.name = A.name /\ i.page = A.page /\ i.cell = A.cell
      /\ i = Place(A) /\ i = Place(B)
  BY <1>2, <1>3 DEF AllIcons, IconOf, Place
<1> HIDE DEF i, B
<1>6. /\ adders' \in [AdderThreads -> AdderPlaces] /\ adders'[a] = B
      /\ \A b \in AdderThreads : b # a => adders'[b] = adders[b]
  BY <1>1, <1>3, <1>t
<1> HIDE DEF A
<1>7. LauncherTyped' /\ RemovalInv'
  BY <1>1, <1>4, <1>6, <1>t DEF PagesInv, LauncherTyped, RemovalInv, AllIcons
<1>8. CellsOnPages'
  BY <1>1, <1>2, <1>4 DEF PagesInv, CellsOnPages
<1>9. \A b \in AdderThreads : ~mixed /\ b # a => adders[b] = Idle
  BY <1>2 DEF A, PagesInv, OneAdds, AdderThreads, Filled
<1>10. AddersInv'
  <2> SUFFICES ASSUME NEW b \in AdderThreads PROVE Proper(b, adders[b])'
    BY DEF AddersInv
  <2>1. CASE b = a
    <3>1. ~mixed => i \notin desktop.gone
      BY <1>2, <1>4, <1>t
    <3>2. mixed \/ Informed(adders[a])'
      BY <1>1, <1>3, <1>4, <1>6, <3>1 DEF Informed, Place
    <3> QED
      BY <1>1, <1>2, <1>3, <1>6, <2>1, <3>2 DEF Proper
  <2>2. CASE b # a /\ ~mixed
    <3>1. adders'[b] = Idle /\ Idle \in AdderPlaces /\ Idle.at = "idle"
      BY <1>6, <1>9, <2>2 DEF Idle, AdderPlaces
    <3> QED
      BY <3>1 DEF Proper, Informed
  <2>3. CASE b # a /\ mixed
    BY <1>1, <1>6, <2>3 DEF PagesInv, AddersInv, Proper
  <2> QED
    BY <2>1, <2>2, <2>3
<1>11. OneAdds'
  BY <1>1, <1>2, <1>6 DEF A, PagesInv, OneAdds, AdderThreads
<1>12. TodoInv'
  <2>1. ASSUME ~mixed PROVE desktop.at \notin {"start", "ask"}
    BY <1>2, <2>1 DEF A, PagesInv, OneAdds, AdderThreads, Filled
  <2>2. ASSUME ~mixed, NEW n \in desktop.todo PROVE n # A.name /\ n # adders'["ui"].name
    <3>1. n # adders["ui"].name
      BY <2>2 DEF PagesInv, TodoInv
    <3>2. a = "ui"
      <4>1. desktop.at = "fill"
        BY <2>2 DEF PagesInv, TodoInv
      <4> QED
        BY <1>2, <2>2, <4>1 DEF A, PagesInv, OneAdds, AdderThreads, Filled
    <3> QED
      BY <1>3, <1>6, <3>1, <3>2 DEF A
  <2> QED
    BY <1>1, <1>4, <2>1, <2>2 DEF PagesInv, TodoInv
<1>13. ASSUME ~mixed PROVE PagesAgree'
  <2>1. /\ \A j, k \in icons : j # k => j.name # k.name
        /\ \A j, k \in icons \ desktop.gone : j # k => <<j.page, j.cell>> # <<k.page, k.cell>>
        /\ \A q \in Pages : row_col[q] \subseteq { j.cell : j \in OnPage(q) \ desktop.gone }
        /\ \A j \in icons : j.cell \in row_col[j.page] \/ j \in desktop.gone \/ Marking(j)
    BY <1>13 DEF PagesInv, PagesAgree
  <2>2. \A j : ~Marking(j)
    <3>1. \A b \in AdderThreads : adders[b].at # "mark"
      BY <1>1, <1>9, <1>13 DEF A, Idle
    <3> QED
      BY <1>t, <3>1 DEF Marking
  <2>3. \A j \in icons \ desktop.gone : <<j.page, j.cell>> # <<i.page, i.cell>>
    BY <1>2, <1>4, <1>13, <2>1, <2>2
  <2>4. \A j \in icons : j.name # i.name
    BY <1>2, <1>4, <1>13
  <2>5. \A j : j = i => Marking(j)'
    BY <1>3, <1>4, <1>6 DEF Marking, IconOf, Place
  <2>6. \A q \in Pages : row_col[q] \subseteq { j.cell : j \in OnPage(q)' \ desktop.gone }
    <3>1. \A q \in Pages : OnPage(q) \ desktop.gone \subseteq OnPage(q)' \ desktop.gone
      BY <1>1 DEF OnPage
    <3> QED
      BY <2>1, <3>1
  <2>7. /\ \A j, k \in icons' : j # k => j.name # k.name
        /\ \A j, k \in icons' \ desktop.gone : j # k => <<j.page, j.cell>> # <<k.page, k.cell>>
    BY <1>1, <2>1, <2>3, <2>4
  <2>8. \A j \in icons' : j.cell \in row_col[j.page] \/ j \in desktop.gone \/ Marking(j)'
    BY <1>1, <2>1, <2>2, <2>5
  <2> QED
    BY <1>1, <2>6, <2>7, <2>8 DEF PagesAgree
<1>14. PagesAgree'
  BY <1>1, <1>13 DEF PagesAgree
<1> QED
  BY <1>7, <1>8, <1>10, <1>11, <1>12, <1>14 DEF PagesInv

(* ... and marks the cell.                                                 *)
LEMMA CellMarked ==
  ASSUME PagesInv, NEW a \in AdderThreads, MarkCell(a)
  PROVE  PagesInv'
<1> DEFINE A == adders[a]
           i == IconOf(a)
<1>1. /\ row_col' = [row_col EXCEPT ![A.page] = @ \cup {A.cell}]
      /\ adders' = [adders EXCEPT ![a] = Idle]
      /\ UNCHANGED <<bundles, results, icons, desktop, mixed>> /\ A.at = "mark"
  BY DEF MarkCell, Moves
<1>t. /\ icons \subseteq AllIcons /\ row_col \in [Pages -> SUBSET Nat]
      /\ adders \in [AdderThreads -> AdderPlaces] /\ mixed \in BOOLEAN
  BY DEF PagesInv, LauncherTyped
<1>2. /\ A \in AdderPlaces /\ A.page \in Pages /\ A.cell \in PageCells[A.page]
      /\ A.cell \in Nat /\ A # Idle /\ i.page = A.page /\ i.cell = A.cell
      /\ ~mixed => i \in icons \ desktop.gone
  BY <1>1 DEF PagesInv, AddersInv, Proper, Informed, AdderPlaces, Idle, IconOf, Place
<1>3. Idle \in AdderPlaces
  BY DEF Idle, AdderPlaces
<1>5. /\ row_col' \in [Pages -> SUBSET Nat] /\ row_col'[A.page] = row_col[A.page] \cup {A.cell}
      /\ \A p \in Pages : p # A.page => row_col'[p] = row_col[p]
  BY <1>1, <1>2, <1>t
<1>6. /\ adders' \in [AdderThreads -> AdderPlaces] /\ adders'[a] = Idle
      /\ \A b \in AdderThreads : b # a => adders'[b] = adders[b]
  BY <1>1, <1>3, <1>t
<1>9. \A b \in AdderThreads : ~mixed /\ b # a => adders[b] = Idle
  BY <1>2 DEF PagesInv, OneAdds, AdderThreads, Filled
<1>m. ~mixed => \A j : Marking(j) => j = i
  <2>1. ~mixed => \A b \in AdderThreads : adders[b].at = "mark" => b = a
    BY <1>9 DEF Idle
  <2> QED
    BY <1>t, <2>1 DEF Marking
<1> HIDE DEF A, i
<1>7. LauncherTyped' /\ RemovalInv'
  BY <1>1, <1>5, <1>6, <1>t DEF PagesInv, LauncherTyped, RemovalInv, AllIcons
<1>8. CellsOnPages'
  BY <1>1, <1>2, <1>5 DEF PagesInv, CellsOnPages
<1>10. AddersInv'
  <2> SUFFICES ASSUME NEW b \in AdderThreads PROVE Proper(b, adders[b])'
    BY DEF AddersInv
  <2>1. CASE adders'[b] = Idle
    BY <1>3, <2>1 DEF Proper, Informed, Idle
  <2>2. CASE adders'[b] # Idle
    <3>1. b # a /\ adders'[b] = adders[b] /\ mixed
      BY <1>6, <1>9, <2>2
    <3> QED
      BY <1>1, <3>1 DEF PagesInv, AddersInv, Proper
  <2> QED
    BY <2>1, <2>2
<1>11. OneAdds'
  BY <1>1, <1>6 DEF PagesInv, OneAdds, AdderThreads
<1>12. TodoInv'
  <2>1. \A n \in desktop.todo : n # Idle.name
    BY LauncherAssumption DEF PagesInv, LauncherTyped, Idle, Desktops
  <2>2. "ui" \in AdderThreads /\ adders'["ui"] \in {Idle, adders["ui"]}
    BY <1>6 DEF AdderThreads
  <2> QED
    BY <1>1, <2>1, <2>2 DEF PagesInv, TodoInv
<1>13. ASSUME ~mixed PROVE PagesAgree'
  <2>1. /\ \A j, k \in icons : j # k => j.name # k.name
        /\ \A j, k \in icons \ desktop.gone : j # k => <<j.page, j.cell>> # <<k.page, k.cell>>
        /\ \A q \in Pages : row_col[q] \subseteq { j.cell : j \in OnPage(q) \ desktop.gone }
        /\ \A j \in icons : j.cell \in row_col[j.page] \/ j \in desktop.gone \/ Marking(j)
    BY <1>13 DEF PagesInv, PagesAgree
  <2>2. \A q \in Pages : row_col'[q] \subseteq { j.cell : j \in OnPage(q) \ desktop.gone }
    <3> TAKE q \in Pages
    <3>1. CASE q # A.page
      BY <1>5, <2>1, <3>1
    <3>2. CASE q = A.page
      <4>1. i \in OnPage(q) \ desktop.gone /\ i.cell = A.cell
        BY <1>2, <1>13, <3>2 DEF OnPage
      <4> QED
        BY <1>5, <2>1, <3>2, <4>1
    <3> QED
      BY <3>1, <3>2
  <2>3. \A j \in icons : j.cell \in row_col'[j.page] \/ j \in desktop.gone
    <3> TAKE j \in icons
    <3>1. j.page \in Pages
      BY <1>t DEF AllIcons
    <3>2. CASE j.cell \in row_col[j.page]
      BY <1>5, <3>1, <3>2
    <3>3. CASE j = i
      BY <1>2, <1>5, <3>3
    <3> QED
      BY <1>m, <1>13, <2>1, <3>2, <3>3
  <2> QED
    BY <1>1, <2>1, <2>2, <2>3 DEF PagesAgree, OnPage
<1>14. PagesAgree'
  BY <1>1, <1>13 DEF PagesAgree
<1> QED
  BY <1>7, <1>8, <1>10, <1>11, <1>12, <1>14 DEF PagesInv

(* FindApp and IsFull, on one page.                                        *)
LEMMA PageLookedAt ==
  ASSUME PagesInv, NEW a \in AdderThreads, AddApp(a)
  PROVE  PagesInv'
<1> DEFINE A == adders[a]
<1>1. /\ A.at = "add" /\ A \in AdderPlaces /\ A.name \in Bundles /\ A.page \in Pages
      /\ ~mixed => Informed(A)
  BY DEF AddApp, PagesInv, AddersInv, Proper
<1>2. A # Idle /\ A.at # "mark"
  BY <1>1 DEF Idle
<1>3. UNCHANGED <<bundles, results, icons, row_col, desktop, mixed>>
  BY DEF AddApp
<1>4. Proper(a, Idle)
  BY DEF Proper, Informed, Idle, AdderPlaces
<1>5. CASE Moves(a, Idle)
  BY <1>2, <1>3, <1>4, <1>5, AdderMoved
<1>6. CASE A.page # Cardinality(Pages) /\ Moves(a, [A EXCEPT !.page = @ + 1])
  <2> DEFINE B == [A EXCEPT !.page = @ + 1]
  <2>1. A.page + 1 \in Pages /\ A.page + 1 \in Nat
    BY <1>1, <1>6, PagesNumbered
  <2>2. B \in AdderPlaces /\ B.at = "add" /\ B.name = A.name /\ B.page = A.page + 1
    BY <1>1, <2>1 DEF AdderPlaces
  <2>3. Proper(a, B)
    BY <1>1, <2>1, <2>2 DEF Proper, Informed
  <2>4. Moves(a, B)
    BY <1>6
  <2> HIDE DEF A, B
  <2> QED
    BY <1>2, <1>3, <2>2, <2>3, <2>4, AdderMoved DEF A
<1>7. CASE FreeCells(A.page) # {} /\ Moves(a, [A EXCEPT !.at = "put", !.cell = Min(FreeCells(A.page))])
  <2> DEFINE c == Min(FreeCells(A.page))
             B == [A EXCEPT !.at = "put", !.cell = c]
  <2>1. c \in PageCells[A.page] /\ c \notin row_col[A.page] /\ c \in Nat
    BY <1>1, <1>7, CellChosen DEF PagesInv
  <2> HIDE DEF c
  <2>2. B \in AdderPlaces /\ B.at = "put" /\ B.name = A.name /\ B.page = A.page /\ B.cell = c
    BY <1>1, <2>1 DEF AdderPlaces
  <2>3. Proper(a, B)
    BY <1>1, <2>1, <2>2 DEF Proper, Informed
  <2>4. Moves(a, B)
    BY <1>7 DEF c
  <2> HIDE DEF A, B
  <2> QED
    BY <1>2, <1>3, <2>2, <2>3, <2>4, AdderMoved DEF A
<1> QED
  BY <1>5, <1>6, <1>7 DEF AddApp, NextPage

(* The callback's search on one page.                                      *)
LEMMA PageSearched ==
  ASSUME PagesInv, SearchPage
  PROVE  PagesInv'
<1> DEFINE A == adders["callback"]
<1>0. "callback" \in AdderThreads
  BY DEF AdderThreads
<1>1. /\ A.at = "find" /\ A \in AdderPlaces /\ A.name \in Bundles /\ A.page \in Pages
      /\ ~mixed => \A i \in icons : i.page < A.page => i.name # A.name
  BY <1>0 DEF SearchPage, PagesInv, AddersInv, Proper, Informed
<1>2. A # Idle /\ A.at # "mark"
  BY <1>1 DEF Idle
<1>3. UNCHANGED <<bundles, results, icons, row_col, desktop, mixed>>
  BY DEF SearchPage
<1>4. CASE Moves("callback", Idle)
  <2>1. Proper("callback", Idle)
    BY DEF Proper, Informed, Idle, AdderPlaces
  <2> QED
    BY <1>0, <1>2, <1>3, <1>4, <2>1, AdderMoved
<1>5. ASSUME ~FindApp(A.page, A.name), ~mixed, NEW i \in icons, i.page < A.page + 1
      PROVE  i.name # A.name
  <2>1. i.page \in Nat /\ A.page \in Nat
    BY <1>1, PagesNumbered DEF PagesInv, LauncherTyped, AllIcons
  <2>2. i.page < A.page \/ i.page = A.page
    BY <1>5, <2>1
  <2> QED
    BY <1>1, <1>5, <2>2, NotFound DEF PagesInv
<1>6. CASE /\ ~FindApp(A.page, A.name) /\ A.page = Cardinality(Pages)
           /\ Moves("callback", [A EXCEPT !.at = "add", !.page = 1])
  <2> DEFINE B == [A EXCEPT !.at = "add", !.page = 1]
  <2>1. B \in AdderPlaces /\ B.at = "add" /\ B.name = A.name /\ B.page = 1
    BY <1>1 DEF AdderPlaces
  <2>2. ASSUME ~mixed, NEW i \in icons PROVE i.name # A.name
    <3>1. i.page \in Pages
      BY DEF PagesInv, LauncherTyped, AllIcons
    <3>2. i.page < A.page + 1
      BY <1>6, <3>1, PagesNumbered
    <3> QED
      BY <1>5, <1>6, <2>2, <3>2
  <2>3. Proper("callback", B)
    BY <1>1, <2>1, <2>2, PagesNumbered DEF Proper, Informed
  <2>4. Moves("callback", B)
    BY <1>6
  <2> HIDE DEF A, B
  <2> QED
    BY <1>0, <1>2, <1>3, <2>1, <2>3, <2>4, AdderMoved DEF A
<1>7. CASE /\ ~FindApp(A.page, A.name) /\ A.page # Cardinality(Pages)
           /\ Moves("callback", [A EXCEPT !.page = @ + 1])
  <2> DEFINE B == [A EXCEPT !.page = @ + 1]
  <2>1. A.page + 1 \in Pages /\ A.page + 1 \in Nat
    BY <1>1, <1>7, PagesNumbered
  <2>2. B \in AdderPlaces /\ B.at = "find" /\ B.name = A.name /\ B.page = A.page + 1
    BY <1>1, <2>1 DEF AdderPlaces
  <2>3. Proper("callback", B)
    BY <1>1, <1>5, <1>7, <2>1, <2>2 DEF Proper, Informed
  <2>4. Moves("callback", B)
    BY <1>7
  <2> HIDE DEF A, B
  <2> QED
    BY <1>0, <1>2, <1>3, <2>2, <2>3, <2>4, AdderMoved DEF A
<1> QED
  BY <1>4, <1>6, <1>7 DEF SearchPage

(* A bundle of the list is added, one that no icon shows yet.              *)
LEMMA ListedAdded ==
  ASSUME PagesInv, NEW name \in Bundles, AddListed(name)
  PROVE  PagesInv'
<1> DEFINE place == [at |-> "add", name |-> name, page |-> 1, cell |-> 0]
<1>1. /\ desktop.at = "fill" /\ adders["ui"] = Idle /\ name \in desktop.todo
      /\ desktop' = [desktop EXCEPT !.todo = @ \ {name}]
      /\ adders' = [adders EXCEPT !["ui"] = place]
      /\ UNCHANGED <<bundles, results, icons, row_col, mixed>>
  BY DEF AddListed, Moves
<1>2. /\ "ui" \in AdderThreads
      /\ adders \in [AdderThreads -> AdderPlaces]
      /\ desktop \in Desktops
  BY DEF AdderThreads, PagesInv, LauncherTyped
<1>3. place \in AdderPlaces /\ place.at = "add" /\ place.name = name /\ place.page = 1
  BY DEF AdderPlaces
<1> HIDE DEF place
<1>4. /\ adders' \in [AdderThreads -> AdderPlaces] /\ adders'["ui"] = place
      /\ \A b \in AdderThreads : b # "ui" => adders'[b] = adders[b]
  BY <1>1, <1>2, <1>3
<1>5. /\ desktop' \in Desktops /\ desktop'.at = "fill" /\ desktop'.todo = desktop.todo \ {name}
      /\ desktop'.gone = desktop.gone
  BY <1>1, <1>2 DEF Desktops
<1>6. LauncherTyped'
  BY <1>1, <1>4, <1>5 DEF PagesInv, LauncherTyped
<1>7. ~mixed => \A i \in icons : i.name # name
  BY <1>1 DEF PagesInv, TodoInv
<1>8. AddersInv'
  <2> SUFFICES ASSUME NEW b \in AdderThreads PROVE Proper(b, adders[b])'
    BY DEF AddersInv
  <2>1. CASE b = "ui"
    BY <1>1, <1>3, <1>4, <1>7, <2>1, PagesNumbered DEF Proper, Informed
  <2>2. CASE b # "ui"
    BY <1>1, <1>4, <2>2 DEF PagesInv, AddersInv, Proper, Informed
  <2> QED
    BY <2>1, <2>2
<1>9. OneAdds'
  BY <1>1, <1>4, <1>5 DEF PagesInv, OneAdds, AdderThreads
<1>10. TodoInv'
  BY <1>1, <1>3, <1>4, <1>5 DEF PagesInv, TodoInv
<1>11. \A i : Marking(i) => Marking(i)'
  BY <1>1, <1>2, <1>4 DEF Marking, IconOf, Idle
<1>12. PagesAgree'
  BY <1>1, <1>5, <1>11 DEF PagesInv, PagesAgree, OnPage
<1>13. RemovalInv' /\ CellsOnPages'
  BY <1>1, <1>5 DEF PagesInv, RemovalInv, CellsOnPages
<1> QED
  BY <1>6, <1>8, <1>9, <1>10, <1>12, <1>13 DEF PagesInv

(* The UI thread goes from one of its stages to the next.                  *)
LEMMA StageEnds ==
  ASSUME PagesInv, SetUpView \/ LauncherApp \/ PagesFilled
  PROVE  PagesInv'
<1>1. UNCHANGED <<bundles, results, icons, row_col, adders, mixed>>
  BY DEF SetUpView, LauncherApp, PagesFilled
<1>2. /\ desktop \in Desktops
      /\ bundles \in [installed : SUBSET Bundles, installs : 0..MaxInstalls]
      /\ adders \in [AdderThreads -> AdderPlaces]
  BY DEF PagesInv, LauncherTyped
<1>3. /\ desktop' \in Desktops /\ desktop.gone = {} /\ desktop'.gone = {}
      /\ adders["ui"] = Idle /\ desktop'.at \in {"ask", "fill", "run"}
      /\ ~mixed /\ desktop'.at # "run" => adders["callback"] = Idle
      /\ desktop'.at # "fill" => desktop'.todo = {}
      /\ ~mixed /\ desktop'.at \in {"ask", "fill", "start"} => icons = {}
  <2>1. CASE SetUpView
    <3>1. desktop.at = "start" /\ desktop' = [desktop EXCEPT !.at = "ask"]
      BY <2>1 DEF SetUpView
    <3>2. /\ desktop' \in Desktops /\ desktop'.gone = desktop.gone
          /\ desktop'.at = "ask" /\ desktop'.todo = desktop.todo
      BY <1>2, <3>1 DEF Desktops
    <3> QED
      BY <3>1, <3>2 DEF PagesInv, OneAdds, TodoInv, RemovalInv, Filled
  <2>2. CASE LauncherApp
    <3>1. desktop.at = "ask"
      BY <2>2 DEF LauncherApp
    <3>2. PICK told \in {{}, bundles.installed \ Own} :
            desktop' = [desktop EXCEPT !.at = "fill", !.todo = told]
      BY <2>2 DEF LauncherApp
    <3>3. told \in SUBSET (Bundles \ Own)
      BY <1>2, <3>2
    <3>4. /\ desktop' \in Desktops /\ desktop'.gone = desktop.gone
          /\ desktop'.at = "fill" /\ desktop'.todo = told
      BY <1>2, <3>2, <3>3 DEF Desktops
    <3> QED
      BY <3>1, <3>4 DEF PagesInv, OneAdds, TodoInv, RemovalInv, Filled
  <2>3. CASE PagesFilled
    <3>1. /\ desktop.at = "fill" /\ desktop.todo = {} /\ adders["ui"] = Idle
          /\ desktop' = Running
      BY <2>3 DEF PagesFilled
    <3>2. desktop' \in Desktops /\ desktop'.at = "run" /\ desktop'.todo = {} /\ desktop'.gone = {}
      BY <3>1 DEF Running, Desktops, Filled
    <3> QED
      BY <3>1, <3>2 DEF PagesInv, RemovalInv
  <2> QED
    BY <2>1, <2>2, <2>3
<1>4. LauncherTyped'
  BY <1>1, <1>3 DEF PagesInv, LauncherTyped
<1>5. OneAdds' /\ RemovalInv'
  <2>1. desktop'.at # "run" \/ desktop'.at \in Filled
    BY DEF Filled
  <2> QED
    BY <1>1, <1>3, <2>1 DEF OneAdds, RemovalInv
<1>6. TodoInv'
  <2>1. \A n \in desktop'.todo : n # Idle.name
    BY <1>3, LauncherAssumption DEF Idle, Desktops
  <2>2. ~mixed /\ desktop'.todo # {} => icons = {}
    BY <1>3
  <2> QED
    BY <1>1, <1>3, <2>1, <2>2 DEF TodoInv
<1>7. AddersInv' /\ CellsOnPages'
  BY <1>1, <1>3 DEF PagesInv, CellsOnPages, AddersInv, Proper, Informed
<1>8. PagesAgree'
  BY <1>1, <1>3 DEF PagesInv, PagesAgree, OnPage, Marking, IconOf
<1> QED
  BY <1>4, <1>5, <1>6, <1>7, <1>8 DEF PagesInv

(* The callback's report: while the pages are being filled it mixes them   *)
(* up; otherwise its search begins on the first page.                      *)
LEMMA ReportHandled ==
  ASSUME PagesInv, NEW name \in Bundles, GetAppInstallInfo(name)
  PROVE  PagesInv'
<1>1. /\ adders["callback"] = Idle /\ results' = results \ {name}
      /\ mixed' = (mixed \/ desktop.at \notin Filled)
      /\ UNCHANGED <<bundles, icons, row_col, desktop>>
  BY DEF GetAppInstallInfo, Filled
<1>2. /\ "callback" \in AdderThreads /\ adders \in [AdderThreads -> AdderPlaces]
      /\ bundles.installed \subseteq Bundles /\ mixed \in BOOLEAN /\ mixed' \in BOOLEAN
  BY <1>1 DEF AdderThreads, PagesInv, LauncherTyped
<1>3. ~mixed' => ~mixed /\ desktop.at \in Filled
  BY <1>1, <1>2
<1>4. PICK place : /\ Moves("callback", place) /\ place \in AdderPlaces
                   /\ place = Idle \/ (place.at = "find" /\ place.name \in Bundles /\ place.page = 1)
  <2>1. CASE UNCHANGED adders
    <3>1. Moves("callback", Idle) /\ Idle \in AdderPlaces
      BY <1>1, <1>2, <2>1 DEF Moves, Idle, AdderPlaces
    <3> QED
      BY <3>1
  <2>2. ASSUME NEW b \in bundles.installed,
               Moves("callback", [at |-> "find", name |-> b, page |-> 1, cell |-> 0])
        PROVE  \E p \in AdderPlaces : /\ Moves("callback", p)
                                 /\ (p.at = "find" /\ p.name \in Bundles /\ p.page = 1)
    <3> DEFINE p == [at |-> "find", name |-> b, page |-> 1, cell |-> 0]
    <3>1. p \in AdderPlaces /\ p.at = "find" /\ p.name \in Bundles /\ p.page = 1
      BY <1>2 DEF AdderPlaces
    <3>2. Moves("callback", p)
      BY <2>2
    <3> HIDE DEF p
    <3> QED
      BY <3>1, <3>2
  <2>3. UNCHANGED adders \/ \E b \in bundles.installed :
                               Moves("callback", [at |-> "find", name |-> b, page |-> 1, cell |-> 0])
    BY DEF GetAppInstallInfo
  <2> QED
    BY <2>1, <2>2, <2>3
<1>5. /\ adders' \in [AdderThreads -> AdderPlaces] /\ adders'["callback"] = place
      /\ \A b \in AdderThreads : b # "callback" => adders'[b] = adders[b]
  BY <1>2, <1>4 DEF Moves
<1>6. LauncherTyped'
  BY <1>1, <1>2, <1>5 DEF PagesInv, LauncherTyped
<1>7. AddersInv'
  <2> SUFFICES ASSUME NEW b \in AdderThreads PROVE Proper(b, adders[b])'
    BY DEF AddersInv
  <2>1. CASE b = "callback"
    <3>1. \A i \in icons : ~(i.page < 1)
      <4>1. \A i \in icons : i.page \in Pages
        BY DEF PagesInv, LauncherTyped, AllIcons
      <4> QED
        BY <4>1, PagesNumbered
    <3>2. CASE place = Idle
      BY <1>4, <1>5, <2>1, <3>2 DEF Proper, Informed, Idle
    <3>3. CASE place.at = "find" /\ place.name \in Bundles /\ place.page = 1
      BY <1>1, <1>4, <1>5, <2>1, <3>1, <3>3, PagesNumbered DEF Proper, Informed
    <3> QED
      BY <1>4, <3>2, <3>3
  <2>2. CASE b # "callback"
    BY <1>1, <1>3, <1>5, <2>2 DEF PagesInv, AddersInv, Proper, Informed
  <2> QED
    BY <2>1, <2>2
<1>8. OneAdds'
  BY <1>1, <1>3, <1>5 DEF PagesInv, OneAdds, AdderThreads
<1>9. TodoInv'
  BY <1>1, <1>3, <1>5 DEF PagesInv, TodoInv, AdderThreads
<1>10. \A i : Marking(i) => Marking(i)'
  <2> SUFFICES ASSUME NEW i, NEW b \in AdderThreads, adders[b].at = "mark", i = IconOf(b)
               PROVE  Marking(i)'
    BY <1>2 DEF Marking
  <2>1. b # "callback"
    BY <1>1 DEF Idle
  <2>2. adders'[b] = adders[b] /\ b \in DOMAIN adders'
    BY <1>5, <2>1
  <2> QED
    BY <2>2 DEF Marking, IconOf
<1>11. PagesAgree'
  BY <1>1, <1>3, <1>10 DEF PagesInv, PagesAgree, OnPage
<1> QED
  BY <1>1, <1>3, <1>6, <1>7, <1>8, <1>9, <1>11 DEF PagesInv, CellsOnPages, RemovalInv

-----------------------------------------------------------------------------
(* The launcher: the view of the long press.                               *)

(* What can be touched on a page is an app's icon.                         *)
LEMMA ShownTyped ==
  ASSUME PagesInv, NEW i \in Shown
  PROVE  i.name \in Bundles /\ i.page \in Pages
<1>1. CASE i \in icons
  BY <1>1 DEF PagesInv, LauncherTyped, AllIcons
<1>2. ASSUME NEW a \in DOMAIN adders, adders[a].at = "list", i = IconOf(a)
      PROVE  i.name \in Bundles /\ i.page \in Pages
  <2>1. a \in AdderThreads
    BY <1>2 DEF PagesInv, LauncherTyped
  <2>2. adders[a].name \in Bundles /\ adders[a].page \in Pages
    BY <1>2, <2>1 DEF PagesInv, AddersInv, Proper
  <2> QED
    BY <1>2, <2>2 DEF IconOf
<1> QED
  BY <1>1, <1>2 DEF Shown

(* Whatever is touched, the view is in its place or closed.                *)
LEMMA TouchKeepsView ==
  ASSUME PagesInv, ViewInv, [LauncherNext]_launcherVars
  PROVE  ViewInv'
<1> DEFINE Views == [ bStatus : BOOLEAN, viewParent : Pages \cup {0}, app : Bundles \cup {NoApp},
                      hangs : Pages \cup {0}, page : Pages, count : Nat ]
<1>t. /\ press \in Views /\ leaving \subseteq Bundles
      /\ press.count \in Nat /\ press.count + 1 \in Nat /\ press.page \in Pages
      /\ press.hangs \in Pages \cup {0} /\ press.bStatus \in BOOLEAN
  BY DEF ViewInv
<1>1. CASE UNCHANGED press /\ leaving' \subseteq leaving
  BY <1>1 DEF ViewInv
<1>2. /\ Counted(press) \in Views
      /\ Counted(press).bStatus = press.bStatus /\ Counted(press).viewParent = press.viewParent
      /\ Counted(press).hangs = press.hangs /\ Counted(press).page = press.page
      /\ Counted(press).app = press.app
  BY <1>t DEF Counted
<1> DEFINE v == RemoveLview(Counted(press))
<1>3. v \in Views /\ v.bStatus = FALSE /\ v.hangs = 0 /\ v.page = press.page
  <2>1. CASE press.bStatus
    <3>1. v = [Counted(press) EXCEPT !.bStatus = FALSE, !.hangs = 0]
      BY <1>2, <2>1 DEF RemoveLview, ViewInv
    <3> HIDE DEF v
    <3> QED
      BY <1>2, <3>1
  <2>2. CASE ~press.bStatus
    <3>1. v = Counted(press)
      BY <1>2, <2>2 DEF RemoveLview
    <3> QED
      BY <1>2, <1>t, <2>2, <3>1 DEF ViewInv
  <2> QED
    BY <2>1, <2>2, <1>t
<1> HIDE DEF v
<1>4. CASE Click
  BY <1>3, <1>t, <1>4 DEF Click, v, ViewInv
<1>5. CASE UninstallApp
  <2>1. press' = v /\ press.bStatus /\ (leaving' = leaving \/ leaving' = leaving \cup {press.app})
    BY <1>5 DEF UninstallApp, v
  <2> QED
    BY <1>3, <1>t, <2>1 DEF ViewInv
<1>6. ASSUME NEW p \in Pages, OnSwipe(p) PROVE ViewInv'
  <2>1. press' = [v EXCEPT !.page = p] /\ leaving' = leaving
    BY <1>6 DEF OnSwipe, v
  <2>2. press' \in Views /\ press'.bStatus = FALSE /\ press'.hangs = 0
    BY <1>3, <2>1
  <2> QED
    BY <1>t, <2>1, <2>2 DEF ViewInv
<1>7. ASSUME NEW i \in Shown, ShowLongPressView(i) PROVE ViewInv'
  <2>1. /\ i.page = press.page /\ leaving' = leaving
        /\ press' = [Counted(press) EXCEPT !.bStatus = TRUE, !.viewParent = i.page, !.app = i.name,
                                           !.hangs = IF @ = 0 THEN i.page ELSE @]
    BY <1>7 DEF ShowLongPressView
  <2>2. i.name \in Bundles /\ i.page \in Pages /\ i.page # 0
    BY ShownTyped, PagesNumbered
  <2>3. (IF press.hangs = 0 THEN i.page ELSE press.hangs) = i.page
    BY <1>t, <2>1, <2>2 DEF ViewInv
  <2>4. press' = [Counted(press) EXCEPT !.bStatus = TRUE, !.viewParent = i.page, !.app = i.name,
                                        !.hangs = i.page]
    BY <1>2, <2>1, <2>3
  <2>5. /\ press' \in Views /\ press'.bStatus = TRUE /\ press'.viewParent = i.page
        /\ press'.app = i.name /\ press'.hangs = i.page /\ press'.page = press.page
    BY <1>2, <2>2, <2>4
  <2> QED
    BY <1>t, <2>1, <2>2, <2>5 DEF ViewInv
<1>8. (\E b \in Bundles : UninstallEnds(b)) => UNCHANGED press /\ leaving' \subseteq leaving
  BY DEF UninstallEnds
<1>9. ASSUME \/ \E a \in {"ui", "callback"} : AddApp(a) \/ SetUpApp(a) \/ PushBack(a) \/ MarkCell(a)
             \/ SetUpView \/ LauncherApp \/ PagesFilled \/ SearchPage \/ RemoveApp \/ UnlistApp
             \/ \E b \in Bundles : AddListed(b) \/ InstallEnds(b) \/ GetAppInstallInfo(b)
             \/ UNCHANGED launcherVars
      PROVE  UNCHANGED press /\ leaving' \subseteq leaving
  BY <1>9 DEF AddApp, SetUpApp, PushBack, MarkCell, SetUpView, LauncherApp, PagesFilled, SearchPage,
              RemoveApp, UnlistApp, AddListed, InstallEnds, GetAppInstallInfo, launcherVars
<1> HIDE DEF Views
<1> QED
  BY <1>1, <1>4, <1>5, <1>6, <1>7, <1>8, <1>9 DEF LauncherNext

-----------------------------------------------------------------------------
(* The launcher: the invariant and the theorems.                           *)

(* The launcher begins with empty pages and no view.                       *)
LEMMA LauncherBegins == LauncherInit => PagesInv /\ ViewInv
<1> SUFFICES ASSUME LauncherInit PROVE PagesInv /\ ViewInv
  OBVIOUS
<1> USE LauncherAssumption DEF LauncherInit
<1>1. Idle \in AdderPlaces /\ Idle.at = "idle"
  BY DEF Idle, AdderPlaces
<1>2. adders \in [AdderThreads -> AdderPlaces] /\ \A a \in AdderThreads : adders[a] = Idle
  BY <1>1 DEF AdderThreads
<1>3. row_col \in [Pages -> SUBSET Nat] /\ \A p \in Pages : row_col[p] = {}
  OBVIOUS
<1>4. LauncherTyped
  <2>1. bundles \in [installed : SUBSET Bundles, installs : 0..MaxInstalls]
    OBVIOUS
  <2>2. desktop \in Desktops
    BY DEF Desktops
  <2> QED
    BY <1>2, <1>3, <2>1, <2>2 DEF LauncherTyped
<1>5. AddersInv
  BY <1>1, <1>2 DEF AddersInv, Proper, Informed
<1>6. PagesAgree
  BY <1>3 DEF PagesAgree, OnPage
<1>7. OneAdds /\ TodoInv /\ RemovalInv
  BY <1>2 DEF OneAdds, AdderThreads, TodoInv, RemovalInv
<1>8. PagesInv
  BY <1>3, <1>4, <1>5, <1>6, <1>7 DEF PagesInv, CellsOnPages
<1>9. ViewInv
  BY PagesNumbered DEF ViewInv
<1> QED
  BY <1>8, <1>9

(* No step of either thread, of the manager or of the user breaks it.      *)
LEMMA LauncherNextInv ==
  ASSUME PagesInv, ViewInv, [LauncherNext]_launcherVars
  PROVE  PagesInv'
<1>1. ASSUME NEW a \in {"ui", "callback"}, AddApp(a) \/ SetUpApp(a) \/ PushBack(a) \/ MarkCell(a)
      PROVE  PagesInv'
  BY <1>1, PageLookedAt, IconShown, IconPut, CellMarked DEF AdderThreads
<1>2. CASE SetUpView \/ LauncherApp \/ PagesFilled
  BY <1>2, StageEnds
<1>3. CASE SearchPage
  BY <1>3, PageSearched
<1>4. ASSUME NEW b \in Bundles, AddListed(b) \/ GetAppInstallInfo(b) PROVE PagesInv'
  BY <1>4, ListedAdded, ReportHandled
<1>t. /\ bundles \in [installed : SUBSET Bundles, installs : 0..MaxInstalls]
      /\ results \subseteq Bundles
  BY DEF PagesInv, LauncherTyped
<1>5. ASSUME NEW b \in Bundles, InstallEnds(b) PROVE PagesInv'
  <2>1. /\ bundles' = [installed |-> bundles.installed \cup {b}, installs |-> bundles.installs + 1]
        /\ bundles.installs < MaxInstalls /\ results' \subseteq Bundles
        /\ UNCHANGED <<icons, row_col, adders, desktop, mixed>>
    BY <1>5, <1>t DEF InstallEnds
  <2>2. bundles.installs + 1 \in 0..MaxInstalls
    BY <1>t, <2>1, LauncherAssumption
  <2>3. bundles' \in [installed : SUBSET Bundles, installs : 0..MaxInstalls]
    BY <1>t, <2>1, <2>2
  <2> QED
    BY <2>1, <2>3, PagesStay
<1>6. ASSUME NEW b \in Bundles, UninstallEnds(b) PROVE PagesInv'
  <2>1. /\ bundles' = [bundles EXCEPT !.installed = @ \ {b}] \/ bundles' = bundles
        /\ UNCHANGED <<results, icons, row_col, adders, desktop, mixed>>
    BY <1>6 DEF UninstallEnds
  <2>2. bundles' \in [installed : SUBSET Bundles, installs : 0..MaxInstalls]
    BY <1>t, <2>1
  <2> QED
    BY <1>t, <2>1, <2>2, PagesStay
<1>7. ASSUME \/ Click \/ \E p \in Pages : OnSwipe(p)
             \/ \E i \in Shown : ShowLongPressView(i)
             \/ UNCHANGED launcherVars
      PROVE  PagesInv'
  <2>1. UNCHANGED <<bundles, results, icons, row_col, adders, desktop, mixed>>
    BY <1>7 DEF Click, OnSwipe, ShowLongPressView, Touch, launcherVars
  <2> QED
    BY <1>t, <2>1, PagesStay
<1>8. CASE UninstallApp
  <2>1. /\ UNCHANGED <<bundles, results, icons, row_col, adders, mixed>>
        /\ desktop.at = "run" /\ press.bStatus
    BY <1>8 DEF UninstallApp, Touch
  <2>2. CASE UNCHANGED desktop
    BY <1>t, <2>1, <2>2, PagesStay
  <2>3. CASE desktop' = [desktop EXCEPT !.at = "remove", !.app = press.app, !.page = 1]
    <3>1. desktop \in Desktops /\ desktop.todo = {} /\ press.app \in Bundles /\ 1 \in Pages
      BY <2>1, PagesNumbered DEF PagesInv, LauncherTyped, TodoInv, ViewInv
    <3>2. /\ desktop' \in Desktops /\ desktop'.at = "remove" /\ desktop'.todo = {}
          /\ desktop'.gone = desktop.gone /\ desktop'.app = press.app /\ desktop'.page = 1
      BY <2>3, <3>1 DEF Desktops, Filled
    <3> QED
      BY <2>1, <3>1, <3>2, DesktopMoved DEF Filled
  <2> QED
    BY <1>8, <2>2, <2>3 DEF UninstallApp
<1>9. CASE RemoveApp
  BY <1>9, MarkCleared
<1>10. CASE UnlistApp
  BY <1>10, IconRemoved
<1> QED
  BY <1>1, <1>2, <1>3, <1>4, <1>5, <1>6, <1>7, <1>8, <1>9, <1>10 DEF LauncherNext

(* Thus both parts of the invariant hold in every state.                   *)
LEMMA LauncherInvariance == LauncherSpec => [](PagesInv /\ ViewInv)
<1>1. PagesInv /\ ViewInv /\ [LauncherNext]_launcherVars => (PagesInv /\ ViewInv)'
  BY LauncherNextInv, TouchKeepsView
<1> QED
  BY LauncherBegins, <1>1, PTL DEF LauncherSpec

(* Icons and marks stay on the pages and in their cells, and the bundles   *)
(* that are still to be added are never the launcher's own.                *)
THEOREM LauncherTypeCorrect == LauncherSpec => []LauncherTypeOK
<1>1. PagesInv /\ ViewInv => LauncherTypeOK
  <2> SUFFICES ASSUME PagesInv, ViewInv PROVE LauncherTypeOK
    OBVIOUS
  <2>1. \A a \in {"ui", "callback"} :
          adders[a].at \in {"idle", "find", "add", "put", "list", "mark"}
    BY DEF PagesInv, LauncherTyped, AdderThreads, AdderPlaces
  <2>2. /\ bundles.installed \subseteq Bundles /\ bundles.installs \in 0..MaxInstalls
        /\ results \subseteq Bundles /\ mixed \in BOOLEAN
        /\ desktop.at \in {"start", "ask", "fill", "run", "remove", "unlist"}
        /\ desktop.todo \subseteq Bundles \ Own
        /\ desktop.app \in Bundles \cup {NoApp} /\ desktop.gone \subseteq icons
    BY DEF PagesInv, LauncherTyped, RemovalInv, Desktops, Filled
  <2>3. \A i \in icons : i.name \in Bundles /\ i.page \in Pages /\ i.cell \in PageCells[i.page]
    BY DEF PagesInv, LauncherTyped, CellsOnPages, AllIcons
  <2>4. \A p \in Pages : row_col[p] \subseteq PageCells[p]
    BY DEF PagesInv, CellsOnPages
  <2>5. /\ leaving \subseteq Bundles /\ press.bStatus \in BOOLEAN
        /\ {press.viewParent, press.hangs} \subseteq Pages \cup {0}
    BY DEF ViewInv
  <2> QED
    BY <2>1, <2>2, <2>3, <2>4, <2>5 DEF LauncherTypeOK
<1> QED
  BY <1>1, LauncherInvariance, PTL

(* However the two threads interleave, however often apps are installed,   *)
(* updated and removed, on any number of pages of any cells: unless an     *)
(* installation was handled before the pages were filled, or an icon       *)
(* removed before its cell was marked, no name has two icons, and cells,   *)
(* icons and marks agree, but for the icon that is being entered or        *)
(* removed; and the view of the long press is where it was opened.         *)
THEOREM LauncherAgrees == LauncherSpec => []DesktopAgrees
<1>1. PagesInv /\ ViewInv => DesktopAgrees
  <2>1. ViewInv => PressViewInPlace
    BY DEF ViewInv, PressViewInPlace
  <2> QED
    BY <2>1 DEF PagesInv, DesktopAgrees
<1> QED
  BY <1>1, LauncherInvariance, PTL

-----------------------------------------------------------------------------
(* The launcher's clock.                                                   *)

(* Leap days up to the end of a year.                                      *)
LeapDays(y) == y \div 4 - y \div 100 + y \div 400

(* Every leap year adds one.                                               *)
LEMMA LeapDay ==
  ASSUME NEW y \in Nat, y >= 1970
  PROVE  LeapDays(y) \in Int /\ LeapDays(y) = LeapDays(y - 1) + (IF Leap(y) THEN 1 ELSE 0)
BY DEF LeapDays, Leap

(* The days of a year before each of its months.                           *)
LEMMA MonthsBefore ==
  ASSUME NEW y \in Nat
  PROVE  LET f == IF Leap(y) THEN 29 ELSE 28
         IN  /\ DaysBefore(y, 1) = 0         /\ DaysBefore(y, 2) = 31        /\ DaysBefore(y, 3) = 31 + f
             /\ DaysBefore(y, 4) = 62 + f    /\ DaysBefore(y, 5) = 92 + f    /\ DaysBefore(y, 6) = 123 + f
             /\ DaysBefore(y, 7) = 153 + f   /\ DaysBefore(y, 8) = 184 + f   /\ DaysBefore(y, 9) = 215 + f
             /\ DaysBefore(y, 10) = 245 + f  /\ DaysBefore(y, 11) = 276 + f  /\ DaysBefore(y, 12) = 306 + f
<1> DEFINE Adds(g) == g = [k \in 1..12 |-> IF k = 1 THEN 0 ELSE g[k - 1] + DaysOfMonth(y, k - 1)]
           f == IF Leap(y) THEN 29 ELSE 28
           year == [k \in 1..12 |->
             IF k = 1 THEN 0 ELSE IF k = 2 THEN 31 ELSE IF k = 3 THEN 31 + f ELSE IF k = 4 THEN 62 + f
             ELSE IF k = 5 THEN 92 + f ELSE IF k = 6 THEN 123 + f ELSE IF k = 7 THEN 153 + f
             ELSE IF k = 8 THEN 184 + f ELSE IF k = 9 THEN 215 + f ELSE IF k = 10 THEN 245 + f
             ELSE IF k = 11 THEN 276 + f ELSE 306 + f]
           before == CHOOSE g : Adds(g)
<1>1. f \in Nat /\ \A k \in 1..12 : DaysOfMonth(y, k) = IF k = 2 THEN f ELSE IF k \in {4, 6, 9, 11} THEN 30 ELSE 31
  BY DEF DaysOfMonth
<1>2. Adds(year)
  <2> HIDE DEF f
  <2>1. ASSUME NEW k \in 1..12
        PROVE  year[k] = IF k = 1 THEN 0 ELSE year[k - 1] + DaysOfMonth(y, k - 1)
    <3>1. k = 1 \/ k = 2 \/ k = 3 \/ k = 4 \/ k = 5 \/ k = 6 \/ k = 7 \/ k = 8 \/ k = 9 \/ k = 10 \/ k = 11 \/ k = 12
      OBVIOUS
    <3> QED
      BY <1>1, <3>1
  <2>2. year = [k \in 1..12 |-> year[k]]
    OBVIOUS
  <2> HIDE DEF year
  <2> QED
    BY <2>1, <2>2
<1> HIDE DEF year, f
<1>3. Adds(before)
  BY <1>2
<1> HIDE DEF before
<1>4. /\ before[1] = 0 /\ \A k \in 2..12 : before[k] = before[k - 1] + DaysOfMonth(y, k - 1)
  BY <1>3
<1>5. /\ before[2] = before[1] + 31 /\ before[3] = before[2] + f /\ before[4] = before[3] + 31
      /\ before[5] = before[4] + 30 /\ before[6] = before[5] + 31 /\ before[7] = before[6] + 30
      /\ before[8] = before[7] + 31 /\ before[9] = before[8] + 31 /\ before[10] = before[9] + 30
      /\ before[11] = before[10] + 31 /\ before[12] = before[11] + 30
  BY <1>1, <1>4
<1>6. \A m : DaysBefore(y, m) = before[m]
  BY DEF DaysBefore, before
<1> QED
  BY <1>1, <1>4, <1>5, <1>6 DEF f

(* The leap years from 1970 on are counted by the leap days, up to any     *)
(* year: the first year for which they were not would have one before it.  *)
LEMMA LeapYearsCounted ==
  \A end \in Nat : end >= 1970 => Cardinality(LeapYears(end)) = LeapDays(end - 1) - 477
<1> DEFINE CountedTo(n) == IsFiniteSet(LeapYears(n)) /\ Cardinality(LeapYears(n)) = LeapDays(n - 1) - 477
           Wrong == { n \in Nat : n >= 1970 /\ ~CountedTo(n) }
<1>1. CountedTo(1970)
  <2>1. LeapYears(1970) = {}
    BY DEF LeapYears
  <2>2. LeapDays(1969) = 477
    BY DEF LeapDays
  <2> QED
    BY <2>1, <2>2, FS_EmptySet
<1>2. ASSUME NEW n \in Nat, n >= 1970, CountedTo(n) PROVE CountedTo(n + 1)
  <2>1. LeapYears(n + 1) = LeapYears(n) \cup (IF Leap(n) THEN {n} ELSE {}) /\ n \notin LeapYears(n)
    BY <1>2 DEF LeapYears
  <2>2. LeapDays(n) = LeapDays(n - 1) + (IF Leap(n) THEN 1 ELSE 0) /\ LeapDays(n - 1) \in Int
    BY <1>2, LeapDay DEF LeapDays
  <2>n. (n + 1) - 1 = n
    OBVIOUS
  <2>3. CASE Leap(n)
    <3>1. LeapYears(n + 1) = LeapYears(n) \cup {n}
      BY <2>1, <2>3
    <3>2. IsFiniteSet(LeapYears(n + 1)) /\ Cardinality(LeapYears(n + 1)) = Cardinality(LeapYears(n)) + 1
      BY <1>2, <2>1, <3>1, FS_AddElement
    <3> QED
      BY <1>2, <2>2, <2>3, <2>n, <3>2
  <2>4. CASE ~Leap(n)
    <3>1. LeapYears(n + 1) = LeapYears(n)
      BY <2>1, <2>4
    <3> QED
      BY <1>2, <2>2, <2>4, <2>n, <3>1
  <2> QED
    BY <2>3, <2>4
<1>w. Wrong \subseteq Nat /\ \A n \in Nat : n \in Wrong <=> n >= 1970 /\ ~CountedTo(n)
  OBVIOUS
<1> HIDE DEF Wrong, CountedTo
<1>s. Wrong \subseteq Nat
  BY <1>w
<1>3. ASSUME NEW n \in Wrong PROVE n - 1 \in Wrong
  <2>1. n \in Nat /\ n >= 1970 /\ ~CountedTo(n) /\ n # 1970
    BY <1>1, <1>w
  <2>2. n - 1 \in Nat /\ n - 1 >= 1970 /\ (n - 1) + 1 = n
    BY <2>1
  <2>3. ~CountedTo(n - 1)
    BY <1>2, <2>1, <2>2
  <2> QED
    BY <1>w, <2>2, <2>3
<1>4. Wrong = {}
  BY <1>s, <1>3, NoDescent
<1> QED
  BY <1>4, <1>w DEF CountedTo

(* So the number of a day needs no counting.                               *)
LEMMA DayNumbered ==
  ASSUME NEW y \in Nat, y >= 1970, NEW m \in 1..12, NEW d \in Nat
  PROVE  /\ LeapDays(y - 1) \in Int /\ DaysBefore(y, m) \in Int
         /\ DayNumber(y, m, d) = 365 * (y - 1970) + (LeapDays(y - 1) - 477) + DaysBefore(y, m) + d - 1
         /\ DayNumber(y, m, d) \in Int
<1>1. DaysBefore(y, m) \in Int
  <2>1. \/ m = 1 \/ m = 2 \/ m = 3 \/ m = 4 \/ m = 5 \/ m = 6
        \/ m = 7 \/ m = 8 \/ m = 9 \/ m = 10 \/ m = 11 \/ m = 12
    OBVIOUS
  <2> QED
    BY <2>1, MonthsBefore
<1>2. LeapDays(y - 1) \in Int
  BY DEF LeapDays
<1>3. Cardinality(LeapYears(y)) = LeapDays(y - 1) - 477
  BY LeapYearsCounted
<1>4. DayNumber(y, m, d) = 365 * (y - 1970) + (LeapDays(y - 1) - 477) + DaysBefore(y, m) + d - 1
  BY <1>3 DEF DayNumber
<1> QED
  BY <1>1, <1>2, <1>4

(* Whole weeks do not change the weekday.                                  *)
LEMMA Weeks == ASSUME NEW a \in Int, NEW k \in Int PROVE (a + 7 * k) % 7 = a % 7
OBVIOUS

(* GetWeekdayByYearday is right for every day of every year: from month to *)
(* month its formula is whole weeks from the number of the day.            *)
LEMMA WeekdayRight ==
  ASSUME NEW y \in Nat, y >= 1970, NEW m \in 1..12, NEW d \in Nat
  PROVE  GetWeekdayByYearday(y, m, d) = (4 + DayNumber(y, m, d)) % 7
<1> DEFINE leap == IF Leap(y) THEN 1 ELSE 0
           z == y - 1970
           c == LeapDays(y - 1) - 477
           n == 4 + DayNumber(y, m, d)
<1>1. /\ leap \in {0, 1} /\ c \in Int /\ LeapDays(y - 1) = c + 477 /\ LeapDays(y) = c + 477 + leap
      /\ z \in Int /\ y = z + 1970
  BY DayNumbered, LeapDay
<1>2. n = 3 + 365 * z + c + DaysBefore(y, m) + d /\ DaysBefore(y, m) \in Int
  <2>1. DayNumber(y, m, d) = 365 * z + c + DaysBefore(y, m) + d - 1 /\ DaysBefore(y, m) \in Int
    BY DayNumbered
  <2> HIDE DEF c, z
  <2> QED
    BY <1>1, <2>1
<1> HIDE DEF c, z
<1>3. CASE m \in {1, 2}
  <2>1. GetWeekdayByYearday(y, m, d)
          = (d + 1 + 2 * (m + 12) + (3 * (m + 13)) \div 5 + (y - 1) + LeapDays(y - 1)) % 7
    BY <1>3 DEF GetWeekdayByYearday, LeapDays
  <2>2. CASE m = 1
    <3>1. DaysBefore(y, m) = 0
      BY <2>2, MonthsBefore
    <3>2. GetWeekdayByYearday(y, m, d) = (d + z + c + 2481) % 7
      BY <1>1, <2>1, <2>2
    <3>3. n = (d + z + c + 2481) + 7 * (52 * z - 354)
      BY <1>1, <1>2, <3>1
    <3> QED
      BY <1>1, <3>2, <3>3, Weeks
  <2>3. CASE m = 2
    <3>1. DaysBefore(y, m) = 31
      BY <2>3, MonthsBefore
    <3>2. GetWeekdayByYearday(y, m, d) = (d + z + c + 2484) % 7
      BY <1>1, <2>1, <2>3
    <3>3. n = (d + z + c + 2484) + 7 * (52 * z - 350)
      BY <1>1, <1>2, <3>1
    <3> QED
      BY <1>1, <3>2, <3>3, Weeks
  <2> QED
    BY <1>3, <2>2, <2>3
<1>4. CASE m \in 3..12
  <2>1. GetWeekdayByYearday(y, m, d)
          = (d + 1 + 2 * m + (3 * (m + 1)) \div 5 + y + LeapDays(y)) % 7
    BY <1>4 DEF GetWeekdayByYearday, LeapDays
  <2>2. CASE m = 3
    <3>1. DaysBefore(y, m) = 59 + leap
      BY <2>2, MonthsBefore
    <3>2. GetWeekdayByYearday(y, m, d) = (d + z + c + 2456 + leap) % 7
      BY <1>1, <2>1, <2>2
    <3>3. n = (d + z + c + 2456 + leap) + 7 * (52 * z - 342)
      BY <1>1, <1>2, <3>1
    <3> QED
      BY <1>1, <3>2, <3>3, Weeks
  <2>3. CASE m = 4
    <3>1. DaysBefore(y, m) = 90 + leap
      BY <2>3, MonthsBefore
    <3>2. GetWeekdayByYearday(y, m, d) = (d + z + c + 2459 + leap) % 7
      BY <1>1, <2>1, <2>3
    <3>3. n = (d + z + c + 2459 + leap) + 7 * (52 * z - 338)
      BY <1>1, <1>2, <3>1
    <3> QED
      BY <1>1, <3>2, <3>3, Weeks
  <2>4. CASE m = 5
    <3>1. DaysBefore(y, m) = 120 + leap
      BY <2>4, MonthsBefore
    <3>2. GetWeekdayByYearday(y, m, d) = (d + z + c + 2461 + leap) % 7
      BY <1>1, <2>1, <2>4
    <3>3. n = (d + z + c + 2461 + leap) + 7 * (52 * z - 334)
      BY <1>1, <1>2, <3>1
    <3> QED
      BY <1>1, <3>2, <3>3, Weeks
  <2>5. CASE m = 6
    <3>1. DaysBefore(y, m) = 151 + leap
      BY <2>5, MonthsBefore
    <3>2. GetWeekdayByYearday(y, m, d) = (d + z + c + 2464 + leap) % 7
      BY <1>1, <2>1, <2>5
    <3>3. n = (d + z + c + 2464 + leap) + 7 * (52 * z - 330)
      BY <1>1, <1>2, <3>1
    <3> QED
      BY <1>1, <3>2, <3>3, Weeks
  <2>6. CASE m = 7
    <3>1. DaysBefore(y, m) = 181 + leap
      BY <2>6, MonthsBefore
    <3>2. GetWeekdayByYearday(y, m, d) = (d + z + c + 2466 + leap) % 7
      BY <1>1, <2>1, <2>6
    <3>3. n = (d + z + c + 2466 + leap) + 7 * (52 * z - 326)
      BY <1>1, <1>2, <3>1
    <3> QED
      BY <1>1, <3>2, <3>3, Weeks
  <2>7. CASE m = 8
    <3>1. DaysBefore(y, m) = 212 + leap
      BY <2>7, MonthsBefore
    <3>2. GetWeekdayByYearday(y, m, d) = (d + z + c + 2469 + leap) % 7
      BY <1>1, <2>1, <2>7
    <3>3. n = (d + z + c + 2469 + leap) + 7 * (52 * z - 322)
      BY <1>1, <1>2, <3>1
    <3> QED
      BY <1>1, <3>2, <3>3, Weeks
  <2>8. CASE m = 9
    <3>1. DaysBefore(y, m) = 243 + leap
      BY <2>8, MonthsBefore
    <3>2. GetWeekdayByYearday(y, m, d) = (d + z + c + 2472 + leap) % 7
      BY <1>1, <2>1, <2>8
    <3>3. n = (d + z + c + 2472 + leap) + 7 * (52 * z - 318)
      BY <1>1, <1>2, <3>1
    <3> QED
      BY <1>1, <3>2, <3>3, Weeks
  <2>9. CASE m = 10
    <3>1. DaysBefore(y, m) = 273 + leap
      BY <2>9, MonthsBefore
    <3>2. GetWeekdayByYearday(y, m, d) = (d + z + c + 2474 + leap) % 7
      BY <1>1, <2>1, <2>9
    <3>3. n = (d + z + c + 2474 + leap) + 7 * (52 * z - 314)
      BY <1>1, <1>2, <3>1
    <3> QED
      BY <1>1, <3>2, <3>3, Weeks
  <2>10. CASE m = 11
    <3>1. DaysBefore(y, m) = 304 + leap
      BY <2>10, MonthsBefore
    <3>2. GetWeekdayByYearday(y, m, d) = (d + z + c + 2477 + leap) % 7
      BY <1>1, <2>1, <2>10
    <3>3. n = (d + z + c + 2477 + leap) + 7 * (52 * z - 310)
      BY <1>1, <1>2, <3>1
    <3> QED
      BY <1>1, <3>2, <3>3, Weeks
  <2>11. CASE m = 12
    <3>1. DaysBefore(y, m) = 334 + leap
      BY <2>11, MonthsBefore
    <3>2. GetWeekdayByYearday(y, m, d) = (d + z + c + 2479 + leap) % 7
      BY <1>1, <2>1, <2>11
    <3>3. n = (d + z + c + 2479 + leap) + 7 * (52 * z - 306)
      BY <1>1, <1>2, <3>1
    <3> QED
      BY <1>1, <3>2, <3>3, Weeks
  <2> QED
    BY <1>4, <2>2, <2>3, <2>4, <2>5, <2>6, <2>7, <2>8, <2>9, <2>10, <2>11
<1> QED
  BY <1>3, <1>4

(* The clock's date and weekday at every moment.                           *)
LEMMA TimeInvariant == TimeSpec => [](TimeTypeOK /\ WeekdayOfGivenYear)
<1>1. TimeInit => TimeTypeOK /\ WeekdayOfGivenYear
  BY DEF TimeInit, TimeTypeOK, WeekdayOfGivenYear
<1>2. ASSUME NEW date \in Dates, SetUpTimeView(date) PROVE TimeTypeOK' /\ WeekdayOfGivenYear'
  <2>1. date.year \in 1970..2100 /\ date.month \in 1..12 /\ date.day \in 1..31
    BY DatesAssumption
  <2>2. GivenYear(date) \in Nat /\ GivenYear(date) >= 1970 /\ date.day \in Nat
    BY <2>1 DEF GivenYear
  <2> DEFINE shown == GetWeekdayByYearday(GivenYear(date), date.month, date.day)
  <2>3. viewTime' = [date |-> date, shown |-> shown]
    BY <1>2 DEF SetUpTimeView
  <2>4. shown = (4 + DayNumber(GivenYear(date), date.month, date.day)) % 7
    BY <2>1, <2>2, WeekdayRight
  <2>5. shown \in 0..6
    <3>1. \A y \in Nat : y >= 1970 => \A m \in 1..12, d \in Nat : DayNumber(y, m, d) \in Int
      BY DayNumbered
    <3>2. DayNumber(GivenYear(date), date.month, date.day) \in Int
      BY <2>1, <2>2, <3>1
    <3> HIDE DEF shown
    <3> QED
      BY <2>4, <3>2
  <2> HIDE DEF shown
  <2>6. viewTime'.date = date /\ viewTime'.shown = shown
    BY <2>3
  <2> QED
    BY <2>4, <2>5, <2>6 DEF TimeTypeOK, WeekdayOfGivenYear
<1>3. TimeTypeOK /\ WeekdayOfGivenYear /\ UNCHANGED viewTime => TimeTypeOK' /\ WeekdayOfGivenYear'
  BY DEF TimeTypeOK, WeekdayOfGivenYear
<1>4. TimeTypeOK /\ WeekdayOfGivenYear /\ [TimeNext]_viewTime => TimeTypeOK' /\ WeekdayOfGivenYear'
  BY <1>2, <1>3 DEF TimeNext
<1> QED
  BY <1>1, <1>4, PTL DEF TimeSpec

(* The variable of the clock has its type: the weekday has a name.         *)
THEOREM TimeTypeCorrect == TimeSpec => []TimeTypeOK
BY TimeInvariant, PTL

(* The weekday shown is the calendar's of the year that is given, for all  *)
(* dates the board's clock may show.                                       *)
THEOREM WeekdayCorrect == TimeSpec => []WeekdayOfGivenYear
BY TimeInvariant, PTL

-----------------------------------------------------------------------------
(* The board.                                                              *)

(* A step of the board is one of the component that is followed, and       *)
(* leaves the others as they were.                                         *)
LEMMA MicroBoardSteps ==
  ASSUME [MicroNext]_microVars
  PROVE  /\ [GrallocNext]_grallocVars /\ [LayerNext]_layerVars /\ [LauncherNext]_launcherVars
         /\ [TimeNext]_viewTime /\ [SettingNext]_settingVars
<1>1. CASE Gralloc
  BY <1>1 DEF Gralloc
<1>2. CASE Layer
  BY <1>2 DEF Layer
<1>3. CASE Icons
  BY <1>3 DEF Icons
<1>4. CASE Time
  BY <1>4 DEF Time
<1>5. CASE Setting
  BY <1>5 DEF Setting
<1>6. CASE UNCHANGED microVars
  BY <1>6 DEF microVars
<1> QED
  BY <1>1, <1>2, <1>3, <1>4, <1>5, <1>6 DEF MicroNext

(* The components share no state, and so each of them behaves as it does   *)
(* alone: what is proved of each holds of all of them together.            *)
THEOREM MicroBoardRunsEach ==
  MicroSpec =>
    /\ GrallocSpec /\ LayerSpec /\ LauncherSpec /\ TimeSpec /\ SettingSpec
<1>1. MicroInit =>
        /\ GrallocInit /\ LayerInit /\ LauncherInit /\ TimeInit /\ SettingInit
  BY DEF MicroInit
<1>2. [MicroNext]_microVars =>
        /\ [GrallocNext]_grallocVars /\ [LayerNext]_layerVars /\ [LauncherNext]_launcherVars
        /\ [TimeNext]_viewTime /\ [SettingNext]_settingVars
  BY MicroBoardSteps
<1> QED
  BY <1>1, <1>2, PTL DEF MicroSpec, GrallocSpec, LayerSpec, LauncherSpec, TimeSpec, SettingSpec

(* The variables of all components keep their types.                       *)
THEOREM MicroTypeCorrect == MicroSpec => []MicroTypeOK
BY MicroBoardRunsEach, GrallocTypeCorrect, LayerTypeCorrect, LauncherTypeCorrect,
   TimeTypeCorrect, SettingTypeCorrect,
   PTL DEF MicroTypeOK
=============================================================================
