----------------------------- MODULE MCSession -----------------------------
(***************************************************************************)
(* The session on a small instance.  The properties of the passing run say *)
(* nothing of a behaviour once a session has been displaced, so its search *)
(* stops there; the runs that look for what displacement does have no such *)
(* constraint.                                                             *)
(***************************************************************************)
EXTENDS Session

UntilDisplaced == ~displaced
=============================================================================
