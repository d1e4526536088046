---------------------------- MODULE MCSessions ----------------------------
(* Constants come from the cfg file: two nodes of each kind and a limit of *)
(* two, so that both pools are used up; a third descriptor for the         *)
(* connection that finds them so, and two user IDs to take over and to     *)
(* mismatch.                                                               *)
EXTENDS Sessions
=============================================================================
