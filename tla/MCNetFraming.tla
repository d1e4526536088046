---------------------------- MODULE MCNetFraming ----------------------------
(* A message, one that has an end mark among its data, one that has a      *)
(* start mark there, a byte of noise and an end mark on its own; three of  *)
(* them, and a buffer that two messages fill.  In MCNetFramingBurst.cfg,   *)
(* plain messages and a buffer they do not all fit in.                     *)
EXTENDS NetFraming

MCMessage == {<<"ee", "x", "dd">>}
MCChunk == {<<"ee", "x", "dd">>, <<"ee", "dd", "x", "dd">>, <<"ee", "ee", "x", "dd">>,
            <<"x">>, <<"dd">>}
=============================================================================
