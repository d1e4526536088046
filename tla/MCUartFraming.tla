--------------------------- MODULE MCUartFraming ---------------------------
(* A frame of each kind, and configurations with an end mark and a byte    *)
(* like a shake hands, with a start mark, and with start marks of both     *)
(* kinds, among their octets; three frames, and a buffer that is as long   *)
(* as the longest.  In MCUartFramingBurst.cfg the plain ones, from a board *)
(* that does not wait.                                                     *)
EXTENDS UartFraming

MCPlainFrame ==
  {<<"bb", "dd">>, <<"ee", "f5", "dd">>, <<"ee", "x", "x", "dd">>, <<"ee", "f3", "x", "dd">>}
MCFrame == MCPlainFrame \cup {<<"ee", "f3", "dd", "f5", "dd">>, <<"ee", "f3", "x", "x", "ee", "dd">>,
                           <<"ee", "f3", "bb", "x", "ee", "dd">>}
=============================================================================
