----------------------------- MODULE LineRelay -----------------------------
(***************************************************************************)
(* What a session promises about one output stream of the application:     *)
(* lines are taken from the stream in order and each is shown to the       *)
(* client in a frame of its own, as long as the link stands.               *)
(*                                                                         *)
(* The stream is a log of items; an item is TRUE when it ends a line.      *)
(* LineReader shows the promise kept character by character by the buffer  *)
(* of STDOUT_Actual_Read, Session piece by piece by its event loop.        *)
(***************************************************************************)
EXTENDS Integers, Sequences

VARIABLES
  log,     \* what the application wrote
  closed,  \* the application can write no more
  taken,   \* items the session consumed
  start,   \* items before the line being taken
  shown,   \* the frames shown: the first and last item of each
  link     \* the client can still be sent something

vars == <<log, closed, taken, start, shown, link>>

Init ==
  /\ log = << >> /\ closed \in BOOLEAN
  /\ taken = 0 /\ start = 0 /\ shown = {}
  /\ link = TRUE

\* The frame is shown, unless the link is down.
Show(to) ==
  shown' = IF link THEN shown \cup {[from |-> start + 1, to |-> to]} ELSE shown

Write ==
  /\ ~closed /\ \E ends \in BOOLEAN : log' = Append(log, ends)
  /\ UNCHANGED <<closed, taken, start, shown, link>>

\* The application begins, or ends.
Open  == log = << >> /\ closed' = FALSE /\ UNCHANGED <<log, taken, start, shown, link>>
Close == closed' = TRUE /\ UNCHANGED <<log, taken, start, shown, link>>

LinkDown == link' = FALSE /\ UNCHANGED <<log, closed, taken, start, shown>>

\* One item more of the line; the last one shows it.
Take ==
  /\ taken < Len(log) /\ taken' = taken + 1
  /\ IF log[taken + 1] THEN Show(taken + 1) /\ start' = taken + 1
                       ELSE UNCHANGED <<shown, start>>
  /\ UNCHANGED <<log, closed, link>>

\* At the end of the stream, the rest that no newline ended is shown too.
Rest ==
  /\ closed /\ taken = Len(log) /\ start < taken
  /\ Show(taken) /\ start' = taken
  /\ UNCHANGED <<log, closed, taken, link>>

\* A rest is only ever forgotten while the application still holds the stream.
Forget ==
  /\ ~closed /\ taken = Len(log)
  /\ start' = taken
  /\ UNCHANGED <<log, closed, taken, shown, link>>

Next == Write \/ Open \/ Close \/ LinkDown \/ Take \/ Rest \/ Forget

Spec == Init /\ [][Next]_vars
=============================================================================
