---------------------------- MODULE MCShadowSync ----------------------------
(***************************************************************************)
(* Instances of ShadowSync for TLC.  Parameter 1 is the switched output, a *)
(* boolean with a button and a callback; parameter 2, where there is one,  *)
(* is a sensor: no callback.                                               *)
(***************************************************************************)
EXTENDS ShadowSync
=============================================================================
