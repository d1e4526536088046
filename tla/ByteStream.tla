---------------------------- MODULE ByteStream ----------------------------
(***************************************************************************)
(* What a peer sends, and read() returns in pieces of any length: messages *)
(* one behind the other, as bytes.  A byte carries the message it belongs  *)
(* to and its place in it along with its value, so that a property can     *)
(* tell what became of it.                                                 *)
(***************************************************************************)
EXTENDS Integers, Sequences, SequencesExt

Sent(msgs) == FlattenSeq([k \in DOMAIN msgs |->
                [j \in DOMAIN msgs[k] |-> [val |-> msgs[k][j], msg |-> k, at |-> j]]])
=============================================================================
