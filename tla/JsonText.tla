------------------------------ MODULE JsonText ------------------------------
(***************************************************************************)
(* What the JSON generator (json_generator.c) promises a caller, with no   *)
(* buffer in sight: the text the calls ask for comes out in order, nothing *)
(* of it changed, and nothing of it missing at the end.  A caller that     *)
(* gives no flush callback gets as much of it as its buffer holds.         *)
(***************************************************************************)
EXTENDS Integers, Sequences, SequencesExt

VARIABLES
    asked,      \* the text the calls so far stand for
    out,        \* the text that has come out so far
    limit,      \* how much can come out (Unlimited with a flush callback)
    stage       \* "idle", "open" from json_str_start on, "ended"

textVars == <<asked, out, limit, stage>>

Unlimited == -1

\* What has come out when the generator is done.
Promised == IF limit = Unlimited \/ Len(asked) <= limit
            THEN asked
            ELSE SubSeq(asked, 1, limit)

Init == /\ asked = <<>>
        /\ out = <<>>
        /\ limit \in Nat \cup {Unlimited}
        /\ stage = "idle"

\* The caller says where the text is to go.
Begin == /\ stage = "idle"
         /\ stage' = "open"
         /\ limit' \in Nat \cup {Unlimited}
         /\ UNCHANGED <<asked, out>>

\* A call adds its text.
Ask == /\ stage = "open"
       /\ IsPrefix(asked, asked')
       /\ UNCHANGED <<out, limit, stage>>

\* More of the text comes out.
Give == /\ stage = "open"
        /\ IsPrefix(out, out')
        /\ IsPrefix(out', asked)
        /\ UNCHANGED <<asked, limit, stage>>

End == /\ stage = "open"
       /\ out = Promised
       /\ stage' = "ended"
       /\ UNCHANGED <<asked, out, limit>>

Next == Begin \/ Ask \/ Give \/ End

Spec == Init /\ [][Next]_textVars
=============================================================================
