----------------------------- MODULE MCSession -----------------------------
(* Values of Session's constants for TLC.                                  *)
EXTENDS Session

\* Typing and leaving, with frames the session should ignore or refuse.
MixedScripts  == {<<"text", "other", "text">>, <<"bad", "text">>, <<"text", "text", "close">>}
\* A browser that types lines and then says goodbye, or just types.
TypingScripts == {<<"text", "text">>, <<"text", "close">>, <<"text", "text", "close">>}
\* Frames of every kind that a recv() may cut, swallow or misread.
WireScripts   == {<<"text", "close">>, <<"bad">>, <<"empty">>, <<"long">>}
SilentScript  == {<< >>}

StdoutOnly == {"out"} \X BOOLEAN
AllWrites  == Streams \X BOOLEAN
WireWrites == AllWrites \ {<<"err", TRUE>>}
OutOnly    == {"out"}
NoStreams  == {}
=============================================================================
