--------------------------- MODULE MCSessionManager ---------------------------
(* TLC instances of SessionManager: see the MCSessionManager_*.cfg files.     *)
EXTENDS SessionManager
===============================================================================
