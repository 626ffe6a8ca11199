------------------------------ MODULE MCEventBus ------------------------------
(* TLC instance of EventBus with one forwarder; see MCClients for two. *)
EXTENDS EventBus
===============================================================================
