--------------------------- MODULE AlarmLinkBlank ---------------------------
(***************************************************************************)
(* The alarm link with what NetFraming shows can get into g_inq: a node of *)
(* size 0, put when a stray end mark comes just before a message.  To the  *)
(* callers of fq_get, which returns the size, it is an empty queue.        *)
(***************************************************************************)
EXTENDS AlarmLink

\* handle_netmsg, ev->tail just before ev->rptr: fq_put is given size 0.
PutBlank ==
  /\ npc = "loop" /\ next \in Alarm
  /\ Inq!Put(NoAlarm)
  /\ overflow' = IF Inq!Full THEN overflow + 1 ELSE overflow
  /\ next' = next + 1
  /\ npc' = "notify"
  /\ UNCHANGED <<pipe, upc, repeat, timer, lineVars, sent, stray, late>>

BlankNext == PutBlank \/ Next

BlankFairSpec ==
  /\ Init /\ [][BlankNext]_vars
  /\ WF_vars(Notify)
  /\ WF_vars(InqCb) /\ WF_vars(InqSend)
  /\ WF_vars(Retry \/ GiveUp) /\ WF_vars(AlarmAck)
  /\ WF_vars(ArmReceive \/ LoseFrame)
=============================================================================
