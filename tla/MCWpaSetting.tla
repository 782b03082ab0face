---------------------------- MODULE MCWpaSetting ----------------------------
(* Finite instances of WpaSetting for TLC. *)
EXTENDS WpaSetting

Networks == { "home", "cafe", "\\x00" }
HiddenNetworks == { "\\x00" }

(* A scan that finds nothing, one network, a hidden one before another, *)
(* and two in either order. *)
ScanResults == { <<>>, <<"home">>, <<"\\x00", "cafe">>, <<"home", "cafe">>, <<"cafe", "home">> }

(* Enough for what does not depend on the order of the rows. *)
FewResults == { <<>>, <<"\\x00", "cafe">> }

(* Once a thread was overtaken and a second page opened, nothing but the  *)
(* types is claimed, ever after, and the UI thread was idle: UiReturns    *)
(* owes nothing.  Such states are not followed further.                   *)
Claimed == hasty = 0 \/ opened = 1
=============================================================================
