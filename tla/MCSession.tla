------------------------------- MODULE MCSession -------------------------------
(* An instance of Session for TLC: a single request. *)
EXTENDS Session
=============================================================================
