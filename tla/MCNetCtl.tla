----------------------------- MODULE MCNetCtl -----------------------------
(* Constants come from the cfg file: one connection (sessions do not       *)
(* affect each other here), two values for each item, two configurations,  *)
(* a queue and a pipe for two messages, and three messages, so that the    *)
(* queue can overflow and the pipe can be full when QUIT is written.       *)
EXTENDS NetCtl
=============================================================================
