---------------------------- MODULE MCClientSide ----------------------------
(***************************************************************************)
(* Instances of ClientSide for TLC.                                        *)
(***************************************************************************)
EXTENDS ClientSide
=============================================================================
