----------------------------- MODULE MCCloudApp -----------------------------
(* Finite instances of CloudApp for TLC. *)
EXTENDS CloudApp, TLC

Cmd(target, value) == [target |-> target, value |-> value]

(* The commands of the product profile. *)
ProfileCommands == { Cmd("light", "ON"), Cmd("light", "OFF"), Cmd("motor", "ON"),
                     Cmd("beep", "ON"), Cmd("led", "ON") }

(* ... and one command for each way a command can miss the profile. *)
AllCommands == ProfileCommands \cup
  { Cmd("text", "ON"), Cmd("unnamed", "ON"), Cmd("other", "ON"),
    Cmd("light", "no_paras"), Cmd("light", "no_para"), Cmd("motor", "no_para"),
    Cmd("beep", "OFF"), Cmd("beep", "no_para"), Cmd("led", "no_paras") }

BlockSymmetry == Permutations(Blocks)
=============================================================================
