--------------------------- MODULE MCAlexaSession ---------------------------
(* An instance of AlexaSession for TLC: topics of one and two characters.  *)
EXTENDS AlexaSession

MCAppTopic == <<"app">>
MCOtaTopic == <<"id", "otaurl">>
=============================================================================
