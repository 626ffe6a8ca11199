------------------------------ MODULE MCAgentLoop ------------------------------
(* TLC instances of AgentLoop and AgentRequests: see the MCAgentLoop_*.cfg files. *)
EXTENDS AgentRequests
===============================================================================
