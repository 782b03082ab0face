----------------------------- MODULE MCMicroBoard ---------------------------
(***************************************************************************)
(* Finite instances of the components of BearPi-HM_Micro that share no     *)
(* state: a behaviour follows one of them, and the others stay as they     *)
(* began.                                                                  *)
(***************************************************************************)
EXTENDS Gralloc, DisplayLayer, Launcher, TimeWeather, SettingPages, TLC

CONSTANTS
  server, client, t1, t2, t3, launcher, notes, notesPro

TwoProcesses == t1 :> server @@ t2 :> server @@ t3 :> client

SmallPanels == {<<2, 3>>, <<3, 5>>}

Beginnings == launcher :> {launcher} @@ notes :> {notes, notesPro}
                @@ notesPro :> {notesPro}

OneCellPages == 1 :> {1} @@ 2 :> {1} @@ 3 :> {1}

SomeDates ==
  [year : {1970, 1999, 2000, 2024, 2025, 2030, 2100}, month : {1, 2, 3, 12}, day : {1, 28}]
    \cup [year : {2000, 2024, 2028}, month : {2}, day : {29}]

VARIABLE component

microVars == <<component, grallocVars, layerVars, launcherVars, viewTime, settingVars>>

(* A component that is not followed begins in one state only. *)
Follow(c, choices) == component = c \/ choices

MicroInit ==
  /\ component \in {"gralloc", "layer", "launcher", "time", "setting"}
  /\ GrallocInit /\ LayerInit /\ LauncherInit /\ TimeInit /\ SettingInit
  /\ Follow("gralloc", proper)
  /\ Follow("setting", saver /\ granted = {})

Gralloc == component = "gralloc" /\ GrallocNext
           /\ UNCHANGED <<component, layerVars, launcherVars, viewTime, settingVars>>

Layer == component = "layer" /\ LayerNext
         /\ UNCHANGED <<component, grallocVars, launcherVars, viewTime, settingVars>>

Icons == component = "launcher" /\ LauncherNext
         /\ UNCHANGED <<component, grallocVars, layerVars, viewTime, settingVars>>

Time == component = "time" /\ TimeNext
        /\ UNCHANGED <<component, grallocVars, layerVars, launcherVars, settingVars>>

Setting == component = "setting" /\ SettingNext
           /\ UNCHANGED <<component, grallocVars, layerVars, launcherVars, viewTime>>

MicroNext == Gralloc \/ Layer \/ Icons \/ Time \/ Setting

(* No thread enters the graphic memory code unless it is followed, and so  *)
(* its fairness asks nothing of the other components.                      *)
MicroSpec == MicroInit /\ [][MicroNext]_microVars /\ GrallocFairness

(* Of clients whose requests are not supported little is claimed: they are *)
(* followed for three calls only.                                          *)
FewUnsupported == proper \/ calls <= 3

MicroTypeOK == GrallocTypeOK /\ LayerTypeOK /\ LauncherTypeOK /\ TimeTypeOK /\ SettingTypeOK
=============================================================================
