--------------------------- MODULE MCProviderStream ---------------------------
(* TLC instances of ProviderStream: see the MCProviderStream_*.cfg files. *)
EXTENDS ProviderStream
===============================================================================
