----------------------------- MODULE MCSession -----------------------------
(* Session for TLC; its constants have their values in the cfgs.            *)
EXTENDS Session
=============================================================================
