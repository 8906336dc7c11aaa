------------------------------- MODULE Frames -------------------------------
(***************************************************************************)
(* The frames a client sends, as far as a session tells them apart, and    *)
(* what SOCKET_FromClient_Event makes of what one recv() returned.  The    *)
(* modules WsFrame (bytes) and Session (halves of frames) share it: the    *)
(* first shows that Parse allows every answer of the parser, the second    *)
(* shows what follows from them.                                           *)
(***************************************************************************)

(* Kinds of frames:                                                        *)
(*   "text"   a text frame with a payload of 1..125 bytes                  *)
(*   "empty"  a text frame without payload                                 *)
(*   "long"   a text or binary frame of 126 bytes or more, its length in   *)
(*            an extended field                                            *)
(*   "close"  a closing frame, with or without a status code               *)
(*   "other"  a binary, ping or pong frame                                 *)
(*   "bad"    a frame the parser refuses: a fragment (FIN clear), a        *)
(*            continuation, a reserved bit set                             *)
Kinds == {"text", "empty", "long", "close", "other", "bad"}

(* What a recv() returned begins in the middle of a frame, or holds a part *)
(* of one, all of it, or all of it and more.                               *)
Shapes == {"mid", "cut", "whole", "more"}

(* What becomes of it: a line for the application (the frame's payload, or *)
(* garbage), an answer to a closing frame or to an error, nothing, or the  *)
(* parser's assertion fails.                                               *)
Outcomes == {"text", "garbage", "close", "error", "skip", "abort"}

\* A payload that is not all there fails the assertion, or is "incomplete"
\* when fewer than six bytes came; a frame followed by more bytes is
\* "incomplete", or an error when it fills the buffer; an empty payload is
\* not compared with what came; an extended length is misread; the middle of
\* a frame is anything.
Parse(kind, shape) ==
  IF shape = "mid" THEN {"skip", "abort", "error", "garbage", "close"}
  ELSE CASE kind = "long"  -> {"skip", "abort", "garbage", "error"}
         [] kind = "empty" -> {"text"} \cup (IF shape = "cut" THEN {"skip"} ELSE {})
                                       \cup (IF shape = "more" THEN {"garbage"} ELSE {})
         [] kind = "bad"   -> {"error"} \cup (IF shape = "cut" THEN {"skip"} ELSE {})
         [] kind \in {"text", "close", "other"} ->
              CASE shape = "cut"   -> {"skip", "abort"} \cup ({kind} \cap {"close"})
                [] shape = "whole" -> IF kind = "other" THEN {"skip"} ELSE {kind}
                [] shape = "more"  -> {"skip", "error"} \cup ({kind} \cap {"close"})
=============================================================================
