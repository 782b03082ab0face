---------------------------- MODULE DisplayLayer ----------------------------
(***************************************************************************)
(* The one layer of BearPi-HM_Micro's display HAL,                         *)
(* bearpi_hm_micro/hal/display/display_gralloc.c: the frame buffer that is *)
(* opened and mapped, and the block its client draws in.                   *)
(*                                                                         *)
(* Every call but LayerInitialize and LayerUninitialize holds the          *)
(* manager's mutex from beginning to end and is one step.  The client is   *)
(* the graphic framework, which is not in the repository: it creates the   *)
(* layer as wide as GetDisplayInfo says, does not create it twice, asks    *)
(* for one block at a time, and flushes only what it was given.            *)
(***************************************************************************)
EXTENDS Integers, FiniteSets

CONSTANTS
  DISP_WIDTH, DISP_HEIGHT,   (* the size if the driver gives none          *)
  Panels,                    (* the sizes a driver may give                *)
  PageSize,                  (* the kernel maps whole pages                *)
  MaxLayerCalls              (* bound: calls of the client                 *)

BytesPerPixel == 4

ASSUME LayerAssumption ==
  /\ DISP_WIDTH \in Nat \ {0} /\ DISP_HEIGHT \in Nat \ {0}
  /\ Panels \subseteq (Nat \ {0}) \X (Nat \ {0}) /\ Panels # {}
  /\ PageSize \in Nat \ {0} /\ MaxLayerCalls \in Nat

VARIABLES
  table,    (* lFuncs: "none", "made", "freed"; and g_layerManager.count   *)
  layer,    (* layerPriv; -1 is a closed file and 0 no address             *)
  kept,     (* open files, mappings and blocks, each mapping and block     *)
            (* with its size                                               *)
  painter   (* the client: whether it has a layer, the block it draws in,  *)
            (* its calls, and how its process is: "runs", "unmapped" or     *)
            (* "fault"                                                     *)

layerVars == <<table, layer, kept, painter>>

LayerInit ==
  /\ table = [funcs |-> "none", count |-> 0]
  /\ layer = [fd |-> -1, width |-> DISP_WIDTH, height |-> DISP_HEIGHT, asked |-> FALSE,
              fbAddr |-> 0, fbSize |-> 0, layerAddr |-> 0]
  /\ kept = [files |-> {}, maps |-> {}, blocks |-> {}, last |-> 0]
  /\ painter = [created |-> FALSE, block |-> 0, calls |-> 0, state |-> "runs"]

Calls ==
  /\ painter.state = "runs" /\ painter.calls < MaxLayerCalls
  /\ table.count > 0 /\ table.funcs = "made"

RoundUp(n) == ((n + PageSize - 1) \div PageSize) * PageSize

(* GetLayerInstance, called first in every operation: the first call asks  *)
(* the driver for the size of its panel, which may fail.                   *)
GetLayerInstance ==
  IF layer.asked THEN {layer}
  ELSE {[layer EXCEPT !.asked = TRUE]}
         \cup { [layer EXCEPT !.asked = TRUE, !.width = p[1], !.height = p[2]] : p \in Panels }

LayerInitialize ==
  /\ painter.state = "runs" /\ painter.calls < MaxLayerCalls
  /\ table' = [funcs |-> IF table.funcs = "none" THEN "made" ELSE table.funcs,
               count |-> table.count + 1]
  /\ painter' = [painter EXCEPT !.calls = @ + 1]
  /\ UNCHANGED <<layer, kept>>

(* The last user destroys the mutex and frees the table, to which lFuncs   *)
(* still points: a later LayerInitialize hands the freed table out.        *)
LayerUninitialize ==
  /\ painter.state = "runs" /\ painter.calls < MaxLayerCalls
  /\ table.count > 0 /\ ~painter.created
  /\ table' = [funcs |-> IF table.count = 1 THEN "freed" ELSE table.funcs,
               count |-> table.count - 1]
  /\ painter' = [painter EXCEPT !.calls = @ + 1]
  /\ UNCHANGED <<layer, kept>>

OpenFails ==
  /\ Calls /\ ~painter.created
  /\ \E priv \in GetLayerInstance : layer' = [priv EXCEPT !.fd = -1]
  /\ painter' = [painter EXCEPT !.calls = @ + 1]
  /\ UNCHANGED <<table, kept>>

(* A mapping that fails is MAP_FAILED, which the code does not look for:   *)
(* SetBackground dies of it.                                               *)
MapFails ==
  /\ Calls /\ ~painter.created
  /\ \E priv \in GetLayerInstance : layer' = [priv EXCEPT !.fd = 0]
  /\ painter' = [painter EXCEPT !.state = "unmapped"]
  /\ UNCHANGED <<table, kept>>

(* CreateLayer, with w pixels to a line, and SetBackground. *)
CreateLayer(w) ==
  /\ Calls /\ ~painter.created
  /\ \E priv \in GetLayerInstance :
       LET size == RoundUp(w * BytesPerPixel * priv.height)
           id == kept.last + 1
       IN  /\ w = priv.width
           /\ layer' = [priv EXCEPT !.fd = id, !.fbAddr = id, !.fbSize = size]
           /\ kept' = [kept EXCEPT !.files = @ \cup {id}, !.maps = @ \cup {<<id, size>>},
                                   !.last = id]
  /\ painter' = [painter EXCEPT !.created = TRUE, !.calls = @ + 1]
  /\ UNCHANGED table

(* CloseLayer leaves fbAddr and fbSize as they were. *)
CloseLayer ==
  /\ Calls /\ painter.created
  /\ kept' = [kept EXCEPT !.files = @ \ {layer.fd},
                          !.blocks = { b \in @ : b[1] # layer.layerAddr },
                          !.maps = { m \in @ : m[1] # layer.fbAddr }]
  /\ layer' = [layer EXCEPT !.fd = -1, !.layerAddr = 0]
  /\ painter' = [painter EXCEPT !.created = FALSE, !.block = 0, !.calls = @ + 1]
  /\ UNCHANGED table

GetDisplayInfo ==
  /\ Calls
  /\ layer' \in GetLayerInstance
  /\ painter' = [painter EXCEPT !.calls = @ + 1]
  /\ UNCHANGED <<table, kept>>

(* GetLayerBuffer fails without a layer, or without memory. *)
GetLayerBufferFails ==
  /\ Calls /\ painter.block = 0
  /\ layer' \in GetLayerInstance
  /\ painter' = [painter EXCEPT !.calls = @ + 1]
  /\ UNCHANGED <<table, kept>>

GetLayerBufferUnchecked ==
  /\ Calls /\ painter.block = 0
  /\ \E priv \in GetLayerInstance :
       LET id == kept.last + 1
       IN  /\ kept' = [kept EXCEPT !.blocks = @ \cup {<<id, priv.fbSize>>}, !.last = id]
           /\ layer' = [priv EXCEPT !.layerAddr = id]
           /\ painter' = [painter EXCEPT !.block = id, !.calls = @ + 1]
  /\ UNCHANGED table

GetLayerBuffer ==
  /\ Calls /\ painter.block = 0
  /\ \E priv \in GetLayerInstance :
       LET id == kept.last + 1
       IN  /\ priv.fd >= 0
           /\ kept' = [kept EXCEPT !.blocks = @ \cup {<<id, priv.fbSize>>}, !.last = id]
           /\ layer' = [priv EXCEPT !.layerAddr = id]
           /\ painter' = [painter EXCEPT !.block = id, !.calls = @ + 1]
  /\ UNCHANGED table

Holds(places, address) ==
  \E p \in places : p[1] = address /\ p[2] >= layer.fbSize

(* Flush copies fbSize bytes, from the client's block to the mapping; it   *)
(* is the end of the process if either is not that large.                  *)
Flush ==
  /\ Calls /\ painter.block # 0
  /\ painter' = [painter EXCEPT !.calls = @ + 1,
                                !.state = IF /\ Holds(kept.maps, layer.fbAddr)
                                                   /\ Holds(kept.blocks, painter.block)
                                                THEN "runs" ELSE "fault"]
  /\ UNCHANGED <<table, layer, kept>>
-----------------------------------------------------------------------------
LayerNext ==
  \/ LayerInitialize \/ LayerUninitialize \/ GetDisplayInfo
  \/ OpenFails \/ MapFails \/ CreateLayer(layer.width) \/ CloseLayer
  \/ GetLayerBuffer \/ GetLayerBufferFails \/ Flush

LayerSpec == LayerInit /\ [][LayerNext]_layerVars

LayerTypeOK ==
  /\ table \in [funcs : {"none", "made", "freed"}, count : 0..MaxLayerCalls]
  /\ layer.fd \in Int /\ layer.asked \in BOOLEAN /\ layer.fbSize \in Nat
  /\ <<layer.width, layer.height>> \in Panels \cup {<<DISP_WIDTH, DISP_HEIGHT>>}
  /\ layer.fbAddr \in 0..kept.last /\ layer.layerAddr \in 0..kept.last
  /\ kept.files \subseteq 1..kept.last /\ IsFiniteSet(kept.maps \cup kept.blocks)
  /\ painter \in [ created : BOOLEAN, block : 0..kept.last, calls : 0..MaxLayerCalls,
                   state : {"runs", "unmapped", "fault"} ]

(* Whatever fails, what is open, mapped and allocated is what the layer    *)
(* says, nothing is left when it is closed, and no Flush touches memory    *)
(* that is not the layer's or the client's: a block handed out before the  *)
(* layer was made anew, or without one, would be flushed past its end or   *)
(* into a mapping that is gone.                                            *)
LayerIsAccounted ==
  /\ painter.state # "fault"
  /\ kept.files = {layer.fd} \ {-1, 0}
  /\ { m[1] : m \in kept.maps } = IF painter.created THEN {layer.fbAddr} ELSE {}
  /\ { b[1] : b \in kept.blocks } = {layer.layerAddr} \ {0}
  /\ \A p \in kept.maps \cup kept.blocks : p[2] = layer.fbSize
=============================================================================
