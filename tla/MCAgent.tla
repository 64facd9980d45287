------------------------------ MODULE MCAgent -------------------------------
(* Instances of Agent for TLC: one diagnostics handler.                    *)
EXTENDS Agent

MCHandlers == {"diag"}
=============================================================================
