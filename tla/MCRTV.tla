-------------------------------- MODULE MCRTV --------------------------------
(* Instances of CChannelRTV small enough for TLC. *)
EXTENDS RTVProps
=============================================================================
