------------------------------ MODULE MCButton ------------------------------
(***************************************************************************)
(* Instances of Button for TLC: one long-press callback, after three times *)
(* the filter time.                                                        *)
(***************************************************************************)
EXTENDS Button

MCHead == <<"press">>
MCTime == [t \in {"psh", "rls", "press"} |-> IF t = "press" THEN 3 ELSE 1]
=============================================================================
