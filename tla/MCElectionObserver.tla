------------------------ MODULE MCElectionObserver ------------------------
(***************************************************************************)
(* Instances of ElectionObserver for TLC.                                  *)
(***************************************************************************)
EXTENDS ElectionObserver
=============================================================================
