-------------------------- MODULE MCSessionManager --------------------------
(* TLC instances of SessionManager.                                        *)
EXTENDS SessionManager, TLC
=============================================================================
