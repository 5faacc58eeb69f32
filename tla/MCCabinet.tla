----------------------------- MODULE MCCabinet -----------------------------
(* The Cabinet applet with the four modes of the switch, one mode it does *)
(* not know, and Execute called up to three times.                        *)
EXTENDS Cabinet

TheKnownModes ==
    {"StartNicknameAndOwnerSettings", "StartGameDataEraser",
     "StartRestorer", "StartFormatter"}
=============================================================================
