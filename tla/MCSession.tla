----------------------------- MODULE MCSession -----------------------------
(***************************************************************************)
(* Instances of Session for TLC.  A TTL of 5 ticks makes the period of the *)
(* requests one tick; with a longest delay of 1 the lease is renewed every *)
(* 1 + 2 * 1 ticks at the latest.  A TTL of 10 lets etcd change the TTL.   *)
(***************************************************************************)
EXTENDS Session
=============================================================================
