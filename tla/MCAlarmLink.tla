---------------------------- MODULE MCAlarmLink ----------------------------
(* Constants come from the cfg files.  MCAlarmLink.cfg has more alarms     *)
(* than the queue and the pipe can hold, and one retry; in                 *)
(* MCAlarmLinkDiscard.cfg nothing overflows.                               *)
EXTENDS AlarmLink
=============================================================================
