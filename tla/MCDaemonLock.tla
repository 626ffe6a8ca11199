----------------------------- MODULE MCDaemonLock -----------------------------
(* TLC instance of DaemonLock alone, for what does not hold: see                *)
(* MCDaemonLock_ghosts.cfg; what holds is checked with MCCommandLine.            *)
EXTENDS DaemonLock
===============================================================================
