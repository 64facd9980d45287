----------------------------- MODULE MCOtaAgent -----------------------------
(***************************************************************************)
(* Instances of OtaAgent for TLC.                                          *)
(***************************************************************************)
EXTENDS OtaAgent

Version(nums, text) == [nums |-> nums, text |-> text]
v100 == Version(<<1, 0, 0>>, "1.0.0")
v100a == Version(<<1, 0, 0>>, "1.0.0-a")
v101 == Version(<<1, 0, 1>>, "1.0.1")
v110 == Version(<<1, 1, 0>>, "1.1.0")
vBad == Version(<<>>, "latest")

MCVersions == {v100, v100a, v101, v110, vBad}
MCOffers == [version : MCVersions, url : {TRUE}]
            \cup [version : {v110}, url : {FALSE}]
            \cup [version : {NoVersion}, url : {TRUE}]

FewVersions == {v100, v101, vBad}
FewOffers == [version : FewVersions, url : {TRUE}]
=============================================================================
