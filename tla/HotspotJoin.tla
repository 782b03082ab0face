----------------------------- MODULE HotspotJoin -----------------------------
(***************************************************************************)
(* What WifiConnect promises its caller: it returns -1 only before it      *)
(* begins to search, and 0 only when a hotspot was joined, its network     *)
(* interface was found and has an address, obtained while there was a      *)
(* link.  In every other case it does not return, for ever.                *)
(***************************************************************************)
VARIABLES
  phase,      (* "called", "searching", "joined", or the end: "failed",    *)
              (* "stuck" for ever, or "online"                             *)
  interface,  (* 1 once the interface was found                            *)
  address,    (* 1 while the interface has an address                      *)
  linkUp      (* 1 while the Wi-Fi service has a link                      *)

joinVars == <<phase, interface, address>>

JoinInit == phase = "called" /\ interface = 0 /\ address = 0

Step(from, to) == phase = from /\ phase' = to /\ UNCHANGED address

Fail   == Step("called", "failed") /\ UNCHANGED interface
Search == Step("called", "searching") /\ UNCHANGED interface
Join   == Step("searching", "joined") /\ interface' = 1
GiveUp == Step("searching", "stuck") /\ UNCHANGED interface
Bind   == Step("joined", "online") /\ interface = 1 /\ address = 1 /\ UNCHANGED interface

Obtain ==
  /\ phase \in {"joined", "online"} /\ interface = 1 /\ linkUp = 1
  /\ address = 0 /\ address' = 1
  /\ UNCHANGED <<phase, interface>>

Lose == address = 1 /\ address' = 0 /\ UNCHANGED <<phase, interface>>

JoinNext == Fail \/ Search \/ Join \/ GiveUp \/ Bind \/ Obtain \/ Lose

JoinSpec == JoinInit /\ [][JoinNext]_joinVars
=============================================================================
