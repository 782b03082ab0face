------------------------------ MODULE MCWifiSta ------------------------------
(* Finite instances of WifiSta for TLC. *)
EXTENDS WifiSta

(* Scans with no hotspot, without the right one, with it, and with two. *)
SomeLists == { <<>>, <<"other">>, <<"mine">>, <<"mine", "mine">>, <<"other", "mine">>,
               <<"other", "mine", "other">>, <<"mine", "other", "mine">> }
=============================================================================
