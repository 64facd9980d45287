------------------------------ MODULE MCJsonDoc -----------------------------
(* JsonDoc with a few names and values of every type. *)
EXTENDS JsonDoc

MCName == {<<"a">>, <<"a", "b">>}

MCValue == {[type |-> "bool", val |-> FALSE],
            [type |-> "int", val |-> 1],
            [type |-> "float", val |-> 1500004],
            [type |-> "string", val |-> <<"a">>]}

MCPart == {<<>>, <<",">>}

MCInteger == (<<"1">> :> 1)
MCFloat == (<<"1">> :> 1000000) @@ (<<"1", ".", "50000">> :> 1500000)
MCStart == {"1", "true", "false"}
MCChar == Punctuation \cup MCStart \cup {"a", "b", ".", "50000"}
MCBufSize == {8}
=============================================================================
