--------------------------- MODULE MCEchoSession ---------------------------
(* Values of EchoSession's constants for TLC.                              *)
EXTENDS EchoSession

\* Lines, an empty one among them, frames that are not lines, and a goodbye.
EchoScripts == {<<"text", "text", "close">>, <<"empty", "other", "text", "close">>,
                <<"bad", "text", "text">>}
StdoutOnly  == {"out"} \X BOOLEAN
NoStreams   == {}
=============================================================================
