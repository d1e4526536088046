------------------------------ MODULE MCDaemon ------------------------------
(* One process more than the failures leave supervisors: the first daemon, *)
(* one for each failure, and a program.                                    *)
EXTENDS Daemon
=============================================================================
