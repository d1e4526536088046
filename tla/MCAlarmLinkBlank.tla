------------------------- MODULE MCAlarmLinkBlank -------------------------
(* Two messages, any of them a node of size 0, and room for both; the      *)
(* constants come from the cfg file.                                       *)
EXTENDS AlarmLinkBlank
=============================================================================
