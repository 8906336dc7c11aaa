--------------------------- MODULE SessionProofs ---------------------------
(***************************************************************************)
(* Safety of a session for every set of client scripts, every bound on     *)
(* pipes and output, and every choice of what client, network and          *)
(* application may do.                                                     *)
(***************************************************************************)
EXTENDS Session, ListProofs, TLAPS

USE DEF socket, pipes, inHand, Streams, Ended, Gone, Garbage, CliExit, CloseFrame, LogDebug

\* A script is a sequence of kinds.
LEMMA ScriptType ==
  ASSUME NEW s \in Scripts
  PROVE  s \in Seq(Kinds) /\ Len(s) \in Nat /\ DOMAIN s = 1..Len(s)
  BY ScriptsAssumption

\* Appending to a log keeps its type and its entries.
LEMMA AppendType ==
  ASSUME NEW S, NEW q \in Seq(S), NEW e \in S
  PROVE  /\ Append(q, e) \in Seq(S) /\ Len(Append(q, e)) = Len(q) + 1
         /\ \A i \in 1..Len(q) : Append(q, e)[i] = q[i]
         /\ Append(q, e)[Len(q) + 1] = e
         /\ Len(q) \in Nat /\ DOMAIN q = 1..Len(q)
  OBVIOUS

\* Frames and halves of frames.
LEMMA FrameOfHalf ==
  ASSUME NEW n \in Nat, n % 2 = 0
  PROVE  Frame(n + 1) \in Nat /\ 2 * Frame(n + 1) = n + 2
  BY DEF Frame

\* The frame that a received half belongs to is one of the script.
LEMMA FrameInScript ==
  ASSUME NEW n \in Nat, NEW m \in Nat, n < 2 * m
  PROVE  Frame(n + 1) \in 1..m
  BY DEF Frame

\* Only a whole text frame, or an empty one from its first byte, is a text.
LEMMA ParsedText ==
  ASSUME NEW k \in Kinds, NEW s \in Shapes, "text" \in Parse(k, s)
  PROVE  s # "mid" /\ (k = "empty" \/ (k = "text" /\ s = "whole"))
<1>1. s # "mid" /\ k # "long"
  BY DEF Parse
<1>2. k # "bad" /\ k # "close" /\ k # "other"
  <2>1. k # "bad"
    BY <1>1 DEF Parse
  <2>2. ASSUME k \in {"close", "other"} PROVE FALSE
    <3>1. CASE s = "cut"
      BY <2>2, <3>1 DEF Parse
    <3>2. CASE s \in {"whole", "more"}
      BY <2>2, <3>2 DEF Parse
    <3>. QED  BY <1>1, <3>1, <3>2 DEF Shapes
  <2>. QED  BY <2>1, <2>2
<1>3. ASSUME k = "text" PROVE s \notin {"cut", "more"}
  BY <1>1, <1>3 DEF Parse
<1>. QED  BY <1>1, <1>2, <1>3 DEF Kinds, Shapes

-----------------------------------------------------------------------------
\* The client's side keeps its type.
LEMMA ClientTypes ==
  ASSUME TypeOK, [Next]_vars
  PROVE  ClientTypeOK'
<1>0. /\ script \in Seq(Kinds) /\ Len(script) \in Nat
      /\ sent \in Int /\ got \in Int
      /\ mark + 1 \in Nat
      /\ \A s \in Streams : rd[s] \in Nat /\ rd[s] + 1 \in Nat
  <2>1. script \in Seq(Kinds) /\ Len(script) \in Nat
    BY ScriptType DEF TypeOK, ClientTypeOK
  <2>2. sent \in Int /\ got \in Int
    BY <2>1 DEF TypeOK, ClientTypeOK
  <2>. QED  BY <2>1, <2>2 DEF TypeOK, AppTypeOK, ThreadTypeOK
<1>1. ASSUME NEW f \in [from : Nat, to : Nat] PROVE Append(toClient, f) \in Seq([from : Nat, to : Nat])
  BY AppendType DEF TypeOK, ClientTypeOK
<1> USE <1>0 DEF TypeOK, ClientTypeOK, client, process, globals
<1>2. CASE ClientSend
  <2>1. PICK n \in 0..Len(script) : sent = 2 * n
    OBVIOUS
  <2>2. sent' = 2 * (n + 1) /\ n + 1 \in 0..Len(script) /\ sent < sent'
    BY <2>1, <1>2 DEF ClientSend
  <2>3. sent' \in {2 * m : m \in 0..Len(script)}
    BY <2>2
  <2>4. got \in 0..sent'
    BY <2>2
  <2>. QED  BY <2>3, <2>4, <1>2 DEF ClientSend
<1>3. CASE Environment /\ ~ClientSend
  BY <1>3 DEF Environment, ClientLeave, AppWrite, AppRead, AppClose, AppExit, KernelReleasesApp
<1>4. CASE Thread
  <2>1. ASSUME NEW f \in [from : Nat, to : Nat], NEW ok, NEW failed,
               SafeSend(f, ok, failed), UNCHANGED <<script, sent, got>>
        PROVE  ClientTypeOK'
    BY <2>1, <1>1 DEF SafeSend
  <2>2. ASSUME NEW s \in Streams, NEW to \in Nat, SendLine(s, to),
               UNCHANGED <<script, sent, got>>
        PROVE  ClientTypeOK'
    BY <2>1, <2>2 DEF SendLine
  <2>3. ASSUME NEW s \in Streams, FromChild(s) PROVE ClientTypeOK'
    <3>1. CASE ReadPiece(s)
      <4>1. rd[s] + 1 \in Nat /\ UNCHANGED <<script, sent, got>>
        BY <3>1 DEF ReadPiece
      <4>2. CASE SendLine(s, rd[s] + 1)
        BY <2>2, <4>1, <4>2
      <4>3. CASE UNCHANGED <<peer, sockOpen, toClient>>
        BY <4>1, <4>3
      <4>. QED  BY <3>1, <4>2, <4>3 DEF ReadPiece
    <3>2. CASE ReadRest(s)
      BY <2>2, <3>2 DEF ReadRest
    <3>3. CASE Invoke(s, s) \/ ReadAgain(s) \/ ReadEof(s)
      BY <3>3 DEF Invoke, ReadAgain, ReadEof
    <3>. QED  BY <2>3, <3>1, <3>2, <3>3 DEF FromChild
  <2>4. CASE Reply
    BY <2>1, <2>4 DEF Reply
  <2>5. ASSUME NEW n \in 1..(sent - got), Recv(n) PROVE ClientTypeOK'
    BY <2>5 DEF Recv
  <2>6. CASE FromClient
    BY <2>4, <2>5, <2>6 DEF FromClient, Invoke, RecvEof, RecvError, WriteStdin
  <2>. QED
    BY <1>4, <2>3, <2>6 DEF Thread, MakeChild, Poll, ChildExit, IdleStop, IdleCheck
<1>5. CASE UNCHANGED vars
  BY <1>5 DEF vars
<1>. QED  BY <1>2, <1>3, <1>4, <1>5 DEF Next

\* The application's side keeps its type.
LEMMA AppTypes ==
  ASSUME TypeOK, [Next]_vars
  PROVE  AppTypeOK'
<1>0. /\ Len(script) \in Nat /\ fed \in Seq(-1..Len(script))
      /\ Len(fed) \in Nat /\ taken \in 0..Len(fed)
      /\ \A s \in Streams : rd[s] \in Nat /\ Len(wlog[s]) \in Nat
  BY ScriptType DEF TypeOK, ClientTypeOK, AppTypeOK
<1> USE <1>0 DEF TypeOK, AppTypeOK, client, process, globals
<1>1. ASSUME NEW s \in Streams, NEW nl \in BOOLEAN, AppWrite(s, nl)
      PROVE  AppTypeOK'
  <2>1. wlog' \in [Streams -> Seq(BOOLEAN)]
    BY <1>1 DEF AppWrite
  <2>2. \A t \in Streams : rd[t] <= Len(wlog'[t])
    BY <1>1 DEF AppWrite
  <2>. QED  BY <1>1, <2>1, <2>2 DEF AppWrite
<1>2. ASSUME NEW n \in 1..(Len(fed) - taken), AppRead(n) PROVE AppTypeOK'
  BY <1>2 DEF AppRead
<1>3. ASSUME NEW s \in Streams, AppClose(s) PROVE AppTypeOK'
  BY <1>3 DEF AppClose
<1>4. CASE AppExit \/ KernelReleasesApp
  BY <1>4 DEF AppExit, KernelReleasesApp
<1>5. CASE ClientSend \/ ClientLeave
  BY <1>5 DEF ClientSend, ClientLeave
<1>6. CASE MakeChild
  BY <1>6 DEF MakeChild
<1>7. CASE ChildExit \/ IdleCheck
  BY <1>7 DEF ChildExit, IdleCheck
<1>8. CASE WriteStdin
  <2>1. CASE fed' = Append(fed, line)
    <3>1. line \in -1..Len(script)
      BY DEF ThreadTypeOK
    <3>2. fed' \in Seq(-1..Len(script)) /\ taken \in 0..Len(fed')
      BY <2>1, <3>1
    <3>. QED  BY <1>8, <3>2 DEF WriteStdin
  <2>2. CASE fed' = fed
    BY <1>8, <2>2 DEF WriteStdin
  <2>. QED  BY <1>8, <2>1, <2>2 DEF WriteStdin
<1>9. ASSUME NEW s \in Streams, ReadPiece(s) PROVE AppTypeOK'
  <2>1. rd' \in [Streams -> Nat] /\ \A t \in Streams : rd'[t] <= Len(wlog[t])
    BY <1>9 DEF ReadPiece, Unread
  <2>. QED  BY <1>9, <2>1 DEF ReadPiece, SendLine, SafeSend
<1>10. ASSUME NEW s \in Streams, ReadAgain(s) \/ ReadRest(s) \/ ReadEof(s)
       PROVE  AppTypeOK'
  BY <1>10 DEF ReadAgain, ReadRest, ReadEof, SendLine, SafeSend
<1>11. ASSUME NEW e, NEW at, Invoke(e, at) PROVE AppTypeOK'
  BY <1>11 DEF Invoke
<1>12. ASSUME NEW n \in 1..(sent - got), Recv(n) PROVE AppTypeOK'
  BY <1>12 DEF Recv
<1>13. CASE RecvEof \/ RecvError \/ Reply
  BY <1>13 DEF RecvEof, RecvError, Reply, SafeSend
<1>14. CASE Poll \/ IdleStop \/ UNCHANGED vars
  BY <1>14 DEF Poll, IdleStop, vars
<1>. QED
  BY <1>1, <1>2, <1>3, <1>4, <1>5, <1>6, <1>7, <1>8, <1>9, <1>10, <1>11, <1>12,
     <1>13, <1>14
  DEF Next, Thread, Environment, FromClient, FromChild

\* The thread's state keeps its type; ChildExit alone would not keep the count
\* above -2, it is never called once Idle has set it to -1.
LEMMA ThreadTypes ==
  ASSUME TypeOK, CountTracksApp, [Next]_vars
  PROVE  ThreadTypeOK'
<1>0. /\ Len(script) \in Nat /\ mark + 1 \in Nat
      /\ \A s \in Streams : rd[s] \in Nat /\ rd[s] + 1 \in Nat
      /\ Garbage \in -1..Len(script) /\ CliExit \in -1..Len(script)
  <2>1. Len(script) \in Nat
    BY ScriptType DEF TypeOK, ClientTypeOK
  <2>. QED  BY <2>1 DEF TypeOK, AppTypeOK, ThreadTypeOK
<1> USE <1>0 DEF TypeOK, ThreadTypeOK, client, process, globals
<1>1. CASE Environment
  <2>1. UNCHANGED <<script, pc, pending, mark, line, watch, SHUTDOWN, SIO_count, errno>>
    <3>1. CASE ClientSend \/ ClientLeave
      BY <3>1 DEF ClientSend, ClientLeave
    <3>2. CASE \E s \in Streams, nl \in BOOLEAN : AppWrite(s, nl)
      BY <3>2 DEF AppWrite
    <3>3. CASE \E n \in 1..(Len(fed) - taken) : AppRead(n)
      BY <3>3 DEF AppRead
    <3>4. CASE (\E s \in Streams : AppClose(s)) \/ AppExit \/ KernelReleasesApp
      BY <3>4 DEF AppClose, AppExit, KernelReleasesApp
    <3>. QED  BY <1>1, <3>1, <3>2, <3>3, <3>4 DEF Environment
  <2>. QED  BY <2>1
<1>2. CASE MakeChild
  <2>1. SIO_count = 0
    BY <1>2 DEF MakeChild, CountTracksApp
  <2>2. SIO_count' \in {0, 1}
    BY <1>2, <2>1 DEF MakeChild
  <2>3. watch' \in {watch, Streams}
    BY <1>2 DEF MakeChild
  <2>4. UNCHANGED <<script, pending, mark, line, SHUTDOWN>> /\ pc' = "loop" /\ errno' = "0"
    BY <1>2 DEF MakeChild
  <2>. QED  BY <2>2, <2>3, <2>4
<1>3. CASE Poll
  BY <1>3 DEF Poll, Ready
<1>4. ASSUME NEW e \in {"sock", "out", "err"}, NEW at \in {"recv", "out", "err"},
             Invoke(e, at)
      PROVE  ThreadTypeOK'
  <2>1. mark' \in Nat /\ pending' \subseteq pending /\ errno' \in {"0", "EAGAIN", "other"}
    BY <1>4 DEF Invoke
  <2>2. UNCHANGED <<script, line, watch, SHUTDOWN, SIO_count>> /\ pc' = at
    BY <1>4 DEF Invoke
  <2>. QED  BY <2>1, <2>2
<1>5. CASE ChildExit
  BY <1>5 DEF ChildExit, CountTracksApp
<1>6. CASE IdleStop \/ IdleCheck
  <2>1. /\ SIO_count' \in {-1, SIO_count} /\ pc' \in {pc, "exited"}
        /\ errno' \in {errno, "0"} /\ pending' = {}
    BY <1>6 DEF IdleStop, IdleCheck
  <2>2. UNCHANGED <<script, mark, line, watch, SHUTDOWN>>
    BY <1>6 DEF IdleStop, IdleCheck
  <2>. QED  BY <2>1, <2>2
<1>7. ASSUME NEW n \in 1..(sent - got), Recv(n) PROVE ThreadTypeOK'
  <2>0. /\ sent \in Int /\ got \in Nat /\ got < 2 * Len(script)
    BY <1>7 DEF ClientTypeOK, Recv
  <2>1. Frame(got + 1) \in -1..Len(script)
    BY <2>0, FrameInScript
  <2>. QED  BY <1>7, <2>1 DEF Recv
<1>8. CASE RecvEof \/ RecvError \/ Reply \/ WriteStdin
  <2>1. CASE RecvEof \/ RecvError
    BY <2>1 DEF RecvEof, RecvError
  <2>2. CASE Reply
    BY <2>2 DEF Reply, SafeSend
  <2>3. CASE WriteStdin
    BY <2>3 DEF WriteStdin
  <2>. QED  BY <1>8, <2>1, <2>2, <2>3
<1>9. ASSUME NEW s \in Streams,
             ReadPiece(s) \/ ReadAgain(s) \/ ReadRest(s) \/ ReadEof(s)
      PROVE  ThreadTypeOK'
  BY <1>9 DEF ReadPiece, ReadAgain, ReadRest, ReadEof, SendLine, SafeSend
<1>10. CASE UNCHANGED vars
  BY <1>10 DEF vars
<1>. QED
  BY <1>1, <1>2, <1>3, <1>4, <1>5, <1>6, <1>7, <1>8, <1>9, <1>10
  DEF Next, Thread, FromClient, FromChild

\* The child count follows the application's life.
LEMMA CountKept ==
  ASSUME TypeOK, CountTracksApp, [Next]_vars
  PROVE  CountTracksApp'
<1> USE DEF TypeOK, AppTypeOK, ThreadTypeOK, CountTracksApp, client, process, globals
<1>1. CASE Environment
  BY <1>1 DEF Environment, ClientSend, ClientLeave, AppWrite, AppRead, AppClose,
     AppExit, KernelReleasesApp, Running
<1>2. CASE MakeChild \/ Poll \/ ChildExit \/ IdleStop \/ IdleCheck
  <2>1. CASE MakeChild
    BY <2>1 DEF MakeChild
  <2>2. CASE Poll \/ ChildExit
    BY <2>2 DEF Poll, ChildExit
  <2>3. CASE IdleStop \/ IdleCheck
    <3>1. CASE IdleStop
      BY <2>3, <3>1 DEF IdleStop
    <3>2. CASE IdleCheck
      <4>1. SIO_count = 1 /\ pc = "loop" /\ pc' = "loop"
        BY <3>2 DEF IdleCheck, Stopping
      <4>2. \/ app = "reaped" /\ app' = "reaped" /\ SIO_count' = -1
            \/ app # "reaped" /\ app' \in {app, "reaped"} /\ SIO_count' = 1
        BY <4>1, <3>2 DEF IdleCheck
      <4>3. app # "none"
        BY <4>1
      <4>4. app' = "reaped" \/ (app' = app /\ SIO_count' = 1)
        BY <3>2, <4>1 DEF IdleCheck
      <4>. QED  BY <4>1, <4>2, <4>3, <4>4
    <3>. QED  BY <2>3, <3>1, <3>2
  <2>. QED  BY <1>2, <2>1, <2>2, <2>3
<1>3. CASE FromClient
  <2>1. UNCHANGED <<app, SIO_count>> /\ pc' \notin {"start", "exited"}
    BY <1>3 DEF FromClient, Invoke, Recv, RecvEof, RecvError, Reply, SafeSend, WriteStdin
  <2>2. pc # "exited"
    BY <1>3 DEF FromClient, Invoke, Recv, RecvEof, RecvError, Reply, WriteStdin
  <2>. QED  BY <2>1, <2>2
<1>4. ASSUME NEW s \in Streams, FromChild(s) PROVE CountTracksApp'
  BY <1>4 DEF FromChild, Invoke, ReadPiece, ReadAgain, ReadRest, ReadEof,
     SendLine, SafeSend
<1>5. CASE UNCHANGED vars
  BY <1>5 DEF vars
<1>. QED  BY <1>1, <1>2, <1>3, <1>4, <1>5 DEF Next, Thread

\* The first state is of the right type.
LEMMA InitTypes ==
  ASSUME Init
  PROVE  TypeOK /\ CountTracksApp
<1>0. Len(script) \in Nat
  BY ScriptType DEF Init
<1>1. ClientTypeOK
  <2>1. 0 \in {2 * n : n \in 0..Len(script)} /\ 0 \in 0..sent
    BY <1>0 DEF Init
  <2>. QED  BY <2>1 DEF Init, ClientTypeOK
<1>2. AppTypeOK
  <2>1. << >> \in Seq(-1..Len(script)) /\ 0 \in 0..Len(<< >>)
    OBVIOUS
  <2>2. \A s \in Streams : wlog[s] = << >> /\ rd[s] = 0
    BY DEF Init
  <2>3. wlog \in [Streams -> Seq(BOOLEAN)] /\ rd \in [Streams -> Nat]
    BY DEF Init
  <2>4. \A s \in Streams : rd[s] <= Len(wlog[s])
    BY <2>2
  <2>5. app = "none" /\ open = {} /\ fed = << >> /\ taken = 0 /\ sigchld = FALSE
    BY DEF Init
  <2>. QED  BY <2>1, <2>3, <2>4, <2>5 DEF AppTypeOK
<1>3. ThreadTypeOK
  <2>1. /\ pc = "start" /\ pending = {} /\ mark = 0 /\ line = 0
        /\ watch = {} /\ SHUTDOWN = FALSE /\ SIO_count = 0 /\ errno = "0"
    BY DEF Init
  <2>2. 0 \in -1..Len(script) /\ 0 \in Nat /\ 0 \in -1..1
    BY <1>0
  <2>. QED  BY <2>1, <2>2 DEF ThreadTypeOK
<1>4. CountTracksApp
  BY DEF Init, CountTracksApp
<1>. QED  BY <1>1, <1>2, <1>3, <1>4 DEF TypeOK

\* Every variable keeps its type and no counter leaves its range, as the child
\* count follows the application's life.
THEOREM TypeCorrect == Spec => [](TypeOK /\ CountTracksApp)
<1>1. Init => TypeOK /\ CountTracksApp
  BY InitTypes
<1>2. TypeOK /\ CountTracksApp /\ [Next]_vars => (TypeOK /\ CountTracksApp)'
  BY ClientTypes, AppTypes, ThreadTypes, CountKept DEF TypeOK
<1>. QED  BY <1>1, <1>2, PTL DEF Spec

\* Idle's child count is right about the application at every moment.
THEOREM CountIsRight == Spec => []CountTracksApp
  BY TypeCorrect, PTL
-----------------------------------------------------------------------------
\* How sessions end.
EndInv == Ending /\ StoppedDrained /\ DrainedAtExit /\ ExitJustified

\* Every step keeps the end of a session orderly.
LEMMA EndKept ==
  ASSUME TypeOK, CountTracksApp, EndInv, [Next]_vars
  PROVE  EndInv'
<1>0. \A s \in Streams : /\ rd[s] \in Nat /\ Len(wlog[s]) \in Nat /\ rd[s] <= Len(wlog[s])
                         /\ wlog[s] \in Seq(BOOLEAN)
  BY DEF TypeOK, AppTypeOK
<1>a. open \subseteq Streams /\ watch \subseteq Streams /\ SHUTDOWN \in BOOLEAN
      /\ app \in {"none", "running"} \cup Gone /\ SIO_count \in -1..1
  BY DEF TypeOK, AppTypeOK, ThreadTypeOK
<1> USE <1>0, <1>a DEF client, process, globals, EndInv
<1>1. CASE ClientSend \/ ClientLeave \/ \E n \in 1..(Len(fed) - taken) : AppRead(n)
  <2>1. UNCHANGED <<app, open, sigchld, wlog, rd, pc, pending, watch, SHUTDOWN, SIO_count>>
    BY <1>1 DEF ClientSend, ClientLeave, AppRead
  <2>. QED
    BY <2>1 DEF Ending, StoppedDrained, DrainedAtExit, ExitJustified, Stopping, Unread
<1>2. ASSUME NEW s \in Streams, NEW nl \in BOOLEAN, AppWrite(s, nl) PROVE EndInv'
  <2>1. \A t \in Streams : t # s => wlog'[t] = wlog[t]
    BY <1>2 DEF AppWrite, TypeOK, AppTypeOK
  <2>2. "idle" \in pending /\ Stopping /\ EarlyClose = {} => FALSE
    BY <1>2 DEF AppWrite, Ending
  <2>3. s \in watch
    BY <1>2 DEF AppWrite, StoppedDrained
  <2>4. Ending'
    BY <1>2, <2>2 DEF AppWrite, Ending, Stopping
  <2>5. StoppedDrained'
    BY <1>2, <2>1, <2>3 DEF AppWrite, StoppedDrained, Unread
  <2>6. DrainedAtExit' /\ ExitJustified'
    BY <1>2 DEF AppWrite, Running, DrainedAtExit, ExitJustified
  <2>. QED  BY <2>4, <2>5, <2>6
<1>3. ASSUME NEW s \in Streams, AppClose(s) PROVE EndInv'
  <2>1. /\ app = "running" /\ pc \notin Ended /\ s \in EarlyClose
        /\ open' = open \ {s}
        /\ UNCHANGED <<app, sigchld, wlog, rd, pc, pending, watch, SHUTDOWN, SIO_count>>
    BY <1>3 DEF AppClose, Running
  <2>2. Ending'
    BY <2>1 DEF Ending, Stopping, Unread
  <2>. QED
    BY <2>1, <2>2 DEF StoppedDrained, DrainedAtExit, ExitJustified, Unread
<1>4. CASE AppExit \/ KernelReleasesApp
  <2>1. /\ app \in {"running", "closing", "closed"} /\ pc \notin Ended
        /\ UNCHANGED <<wlog, rd, pc, pending, watch, SHUTDOWN, SIO_count>>
        /\ app' \in {"closing", "closed", "zombie"} /\ open' \subseteq open
        /\ sigchld' \in BOOLEAN
    BY <1>4 DEF AppExit, KernelReleasesApp, Running, Ending, TypeOK, AppTypeOK
  <2>2. /\ app' = "closing" => open' = open \ {"out"}
        /\ app' \in {"closed", "zombie", "reaped"} => open' = {}
    BY <1>4 DEF AppExit, KernelReleasesApp, Ending
  <2>3. app' = "closing" => app = "running"
    BY <1>4 DEF AppExit, KernelReleasesApp
  <2>4. Ending'
    BY <2>1, <2>2, <2>3 DEF Ending, Stopping, Unread
  <2>. QED
    BY <2>1, <2>4 DEF StoppedDrained, DrainedAtExit, ExitJustified, Unread
<1>5. CASE MakeChild
  <2>1. app = "none" /\ ~SHUTDOWN /\ pending \subseteq {"idle"}
        /\ "idle" \notin pending /\ \A s \in Streams : Unread(s) = 0
    BY <1>5 DEF MakeChild, CountTracksApp, Ending
  <2>2. /\ \/ app' = "running" /\ open' = Streams /\ watch' = Streams
           \/ UNCHANGED <<app, open, watch>>
        /\ UNCHANGED <<sigchld, wlog, rd, pending, SHUTDOWN>> /\ pc' = "loop"
    BY <1>5 DEF MakeChild
  <2>3. \A s \in Streams : Unread(s)' = 0
    BY <2>1, <2>2 DEF Unread
  <2>. QED
    BY <2>1, <2>2, <2>3 DEF Ending, StoppedDrained, DrainedAtExit, ExitJustified, Stopping
<1>6. CASE Poll
  <2>1. Ready = {} /\ Stopping /\ EarlyClose = {} /\ app # "none" =>
          "out" \notin open /\ \A s \in Streams : Unread(s) = 0
    <3> SUFFICES ASSUME Ready = {}, Stopping, EarlyClose = {}, app # "none"
                 PROVE  "out" \notin open /\ \A s \in Streams : Unread(s) = 0
      OBVIOUS
    <3>1. \A s \in watch : ~(Unread(s) > 0) /\ s \in open
      BY DEF Ready
    <3>2. \A s \in Streams : Unread(s) = 0
      BY <3>1 DEF StoppedDrained, Unread
    <3>3. PICK s \in Streams : s \notin open
      <4>1. CASE SHUTDOWN
        BY <3>1, <4>1 DEF Ending, StoppedDrained
      <4>2. CASE SIO_count <= 0
        <5>1. app = "reaped"
          BY <1>6, <4>2 DEF Poll, CountTracksApp
        <5>. QED  BY <5>1 DEF Ending
      <4>. QED  BY <4>1, <4>2 DEF Stopping
    <3>4. "out" \notin open
      BY <3>3 DEF Ending
    <3>. QED  BY <3>2, <3>4
  <2>2. Ending'
    BY <1>6, <2>1 DEF Poll, Ready, Ending, Stopping, Unread
  <2>. QED
    BY <1>6, <2>2 DEF Poll, StoppedDrained, DrainedAtExit, ExitJustified, Unread
<1>7. ASSUME NEW e \in {"sock", "out", "err"}, NEW at \in {"recv", "out", "err"},
             Invoke(e, at)
      PROVE  EndInv'
  BY <1>7 DEF Invoke, Ending, StoppedDrained, DrainedAtExit, ExitJustified, Unread
<1>8. CASE ChildExit
  BY <1>8 DEF ChildExit, Ending, StoppedDrained, DrainedAtExit, ExitJustified, Unread
<1>9. CASE IdleStop
  <2>1. app = "running" => open # Streams
    <3>1. CASE SHUTDOWN
      BY <3>1 DEF Ending, StoppedDrained
    <3>2. CASE SIO_count <= 0
      BY <1>9, <3>2 DEF IdleStop, CountTracksApp
    <3>. QED  BY <1>9, <3>1, <3>2 DEF IdleStop, Stopping
  <2>2. EarlyClose = {} => \A s \in Streams : Unread(s) = 0
    BY <1>9 DEF IdleStop, Ending
  <2>3. Ending' /\ StoppedDrained'
    BY <1>9 DEF IdleStop, Ending, StoppedDrained, Unread
  <2>. QED
    BY <1>9, <2>1, <2>2, <2>3 DEF IdleStop, DrainedAtExit, ExitJustified, Unread
<1>10. CASE IdleCheck
  BY <1>10 DEF IdleCheck, Ending, StoppedDrained, DrainedAtExit, ExitJustified, Unread
<1>11. CASE FromClient /\ pc # "loop"
  <2>1. UNCHANGED <<process, wlog, rd, watch, SHUTDOWN, SIO_count, pending>>
    BY <1>11 DEF FromClient, Invoke, Recv, RecvEof, RecvError, Reply, SafeSend, WriteStdin
  <2>2. pc \in {"recv", "reply", "write"} /\ pc' \notin {"start", "exited"}
    BY <1>11 DEF FromClient, Invoke, Recv, RecvEof, RecvError, Reply, SafeSend, WriteStdin
  <2>3. "idle" \notin pending /\ app # "none"
    BY <2>2 DEF Ending
  <2>. QED
    BY <2>1, <2>2, <2>3 DEF Ending, StoppedDrained, DrainedAtExit, ExitJustified,
       Unread, Stopping
<1>12. ASSUME NEW s \in Streams, ReadPiece(s) \/ ReadAgain(s) \/ ReadRest(s)
       PROVE  EndInv'
  <2>1. /\ UNCHANGED <<process, wlog, watch, SHUTDOWN, SIO_count, pending>>
        /\ pc = s /\ pc' \notin {"start", "exited"}
    BY <1>12 DEF ReadPiece, ReadAgain, ReadRest, SendLine, SafeSend
  <2>2. "idle" \notin pending /\ app # "none"
    BY <2>1 DEF Ending
  <2>3. \A t \in Streams \ watch : rd'[t] = rd[t]
    BY <1>12, <2>2 DEF ReadPiece, ReadAgain, ReadRest, StoppedDrained, TypeOK, AppTypeOK
  <2>. QED
    BY <2>1, <2>2, <2>3 DEF Ending, StoppedDrained, DrainedAtExit, ExitJustified,
       Unread, Stopping
<1>13. ASSUME NEW s \in Streams, ReadEof(s) PROVE EndInv'
  <2>1. "idle" \notin pending /\ app # "none"
    BY <1>13 DEF ReadEof, Ending
  <2>. QED
    BY <1>13, <2>1 DEF ReadEof, Ending, StoppedDrained, DrainedAtExit, ExitJustified,
       Unread, Stopping
<1>14. CASE UNCHANGED vars
  BY <1>14 DEF vars, Ending, StoppedDrained, DrainedAtExit, ExitJustified, Unread, Stopping
<1>. QED
  BY <1>1, <1>2, <1>3, <1>4, <1>5, <1>6, <1>7, <1>8, <1>9, <1>10, <1>11, <1>12,
     <1>13, <1>14
  DEF Next, Thread, Environment, FromClient, FromChild, Invoke, Recv, RecvEof,
      RecvError, Reply, WriteStdin

\* Ending and the safety properties it carries hold of every session.
THEOREM EndsInOrder == Spec => []EndInv
<1>1. Init => EndInv
  <2> SUFFICES ASSUME Init PROVE EndInv
    OBVIOUS
  <2>1. \A s \in Streams : Unread(s) = 0
    BY DEF Init, Unread
  <2>. QED
    BY <2>1 DEF Init, EndInv, Ending, StoppedDrained, DrainedAtExit, ExitJustified
<1>. QED  BY <1>1, EndKept, TypeCorrect, PTL DEF Spec

\* A session comes to its end in order: stdout closes first, SIGCHLD comes last,
\* and a session about to stop has nothing left to read.
THEOREM EndsProperly == Spec => []Ending
  BY EndsInOrder, PTL DEF EndInv

\* A stream's watcher is stopped only at the true end of the stream.
THEOREM StoppedIsDrained == Spec => []StoppedDrained
  BY EndsInOrder, PTL DEF EndInv

\* A session that exits has read all that an application which closes its
\* streams by exiting wrote.
THEOREM ExitIsDrained == Spec => []DrainedAtExit
  BY EndsInOrder, PTL DEF EndInv

\* No session exits under an application that kept both streams open.
THEOREM ExitIsJustified == Spec => []ExitJustified
  BY EndsInOrder, PTL DEF EndInv
-----------------------------------------------------------------------------
\* What the application is given.
InputInv == InHand /\ InputOrder /\ CloseAnswered

Answered == \E i \in DOMAIN toClient : toClient[i] = CloseFrame

\* Nothing is ever taken out of toClient.
LEMMA AnsweredStays ==
  ASSUME TypeOK, Answered, NEW f \in [from : Nat, to : Nat],
         toClient' \in {toClient, Append(toClient, f)}
  PROVE  Answered'
<1>1. PICK i \in DOMAIN toClient : toClient[i] = CloseFrame
  BY DEF Answered
<1>2. CASE toClient' = Append(toClient, f)
  <2>1. i \in DOMAIN toClient' /\ toClient'[i] = toClient[i]
    BY <1>2, AppendType DEF TypeOK, ClientTypeOK
  <2>. QED  BY <1>1, <2>1 DEF Answered
<1>. QED  BY <1>2 DEF Answered

\* A reply that was accepted is in toClient.
LEMMA AnswerGiven ==
  ASSUME TypeOK, toClient' = Append(toClient, CloseFrame)
  PROVE  Answered'
<1>1. CloseFrame \in [from : Nat, to : Nat]
  OBVIOUS
<1>2. Len(toClient) + 1 \in DOMAIN toClient' /\ toClient'[Len(toClient) + 1] = CloseFrame
  BY <1>1, AppendType DEF TypeOK, ClientTypeOK
<1>. QED  BY <1>2 DEF Answered

\* Steps that neither write to the application nor take a line in hand.
LEMMA InputFrame ==
  ASSUME TypeOK, InputInv, UNCHANGED <<script, fed, got>>, sockOpen' => sockOpen,
         Answered => Answered',
         \/ pc' \notin {"write", "reply"}
         \/ UNCHANGED <<pc, line>>
  PROVE  InputInv'
<1>1. InputOrder'
  BY DEF InputInv, InputOrder, Arrived
<1>2. CloseAnswered'
  BY DEF InputInv, CloseAnswered, Answered
<1>3. InHand'
  BY DEF InputInv, InHand, Arrived, Answered
<1>. QED  BY <1>1, <1>2, <1>3 DEF InputInv

\* Every step keeps the input in order.
LEMMA InputKeptInOrder ==
  ASSUME TypeOK, InputInv, [Next]_vars
  PROVE  InputInv'
<1>0. /\ got \in Nat /\ sent \in Int /\ Len(script) \in Nat
      /\ fed \in Seq(-1..Len(script)) /\ line \in -1..Len(script)
      /\ \A i \in DOMAIN fed : fed[i] \in Int
  <2>1. Len(script) \in Nat
    BY ScriptType DEF TypeOK, ClientTypeOK
  <2>. QED  BY <2>1 DEF TypeOK, ClientTypeOK, AppTypeOK, ThreadTypeOK
<1> USE <1>0 DEF client, process, globals
<1>1. CASE Environment
  <2>1. UNCHANGED <<script, fed, got, toClient, sockOpen, pc, line>>
    BY <1>1 DEF Environment, ClientSend, ClientLeave, AppWrite, AppRead,
       AppClose, AppExit, KernelReleasesApp
  <2>. QED  BY <2>1, InputFrame DEF Answered
<1>2. CASE MakeChild \/ Poll \/ ChildExit \/ IdleStop \/ IdleCheck
  <2>1. UNCHANGED <<script, fed, got, toClient, sockOpen>>
    BY <1>2 DEF MakeChild, Poll, ChildExit, IdleStop, IdleCheck
  <2>2. pc' \notin {"write", "reply"}
    BY <1>2 DEF MakeChild, Poll, ChildExit, IdleStop, IdleCheck
  <2>. QED  BY <2>1, <2>2, InputFrame DEF Answered
<1>3. ASSUME NEW e, NEW at \in {"recv", "out", "err"}, Invoke(e, at) PROVE InputInv'
  BY <1>3, InputFrame DEF Invoke, Answered
<1>4. ASSUME NEW s \in Streams, ReadAgain(s) \/ ReadEof(s) PROVE InputInv'
  BY <1>4, InputFrame DEF ReadAgain, ReadEof, Answered
<1>5. ASSUME NEW s \in Streams, ReadPiece(s) \/ ReadRest(s) PROVE InputInv'
  <2>1. /\ UNCHANGED <<script, fed, got>> /\ pc' \notin {"write", "reply"}
        /\ sockOpen' => sockOpen
    BY <1>5 DEF ReadPiece, ReadRest, SendLine, SafeSend
  <2>2. PICK f \in [from : Nat, to : Nat] : toClient' \in {toClient, Append(toClient, f)}
    <3>1. rd[s] \in Nat /\ mark \in Nat
      BY DEF TypeOK, AppTypeOK, ThreadTypeOK
    <3>2. [from |-> mark + 1, to |-> rd[s] + 1] \in [from : Nat, to : Nat]
          /\ [from |-> mark + 1, to |-> rd[s]] \in [from : Nat, to : Nat]
      BY <3>1
    <3>. QED  BY <1>5, <3>2 DEF ReadPiece, ReadRest, SendLine, SafeSend
  <2>. QED  BY <2>1, <2>2, AnsweredStays, InputFrame
<1>6. CASE RecvEof
  BY <1>6, InputFrame DEF RecvEof, Answered
<1>7. CASE RecvError
  <2>1. UNCHANGED <<script, fed, got, sockOpen, toClient>> /\ pc' = "reply" /\ line' = 0
    BY <1>7 DEF RecvError
  <2>2. InHand'
    BY <2>1 DEF InHand
  <2>3. InputOrder' /\ CloseAnswered'
    BY <2>1 DEF InputInv, InputOrder, CloseAnswered, Arrived
  <2>. QED  BY <2>2, <2>3 DEF InputInv
<1>8. ASSUME NEW n \in 1..(sent - got), Recv(n) PROVE InputInv'
  <2>1. /\ UNCHANGED <<script, fed, toClient, sockOpen>>
        /\ got' = got + n /\ n \in Nat /\ n > 0 /\ pc = "recv"
    BY <1>8 DEF Recv
  <2>2. InputOrder' /\ CloseAnswered'
    <3>1. ASSUME NEW f \in Int, Arrived(f) PROVE Arrived(f)'
      BY <2>1, <3>1 DEF Arrived
    <3>. QED  BY <2>1, <3>1 DEF InputInv, InputOrder, CloseAnswered
  <2>3. pc' \in {"recv", "write", "reply", "aborted"} /\ (pc' = "reply" => line' <= 0)
        /\ (pc' = "write" => line' # CliExit)
    <3>1. Frame(got + 1) \in 1..Len(script)
      BY <2>1, <1>8, FrameInScript DEF TypeOK, ClientTypeOK, Recv
    <3>. QED  BY <1>8, <2>1, <3>1 DEF Recv
  <2>4. pc' = "write" /\ line' > 0 =>
          Arrived(line)' /\ line' \in Int /\ got < 2 * line' - 1
    <3> SUFFICES ASSUME pc' = "write", line' > 0
                 PROVE  Arrived(line)' /\ line' \in Int /\ got < 2 * line' - 1
      OBVIOUS
    <3>1. line' = Frame(got + 1)
          /\ "text" \in Parse(script[Frame(got + 1)], Shape(n))
      BY <1>8, <2>1 DEF Recv
    <3>2. script[line'] \in Kinds /\ Shape(n) \in Shapes
      <4>1. line' \in 1..Len(script)
        BY <1>8, <2>1, <3>1, FrameInScript DEF TypeOK, ClientTypeOK, Recv
      <4>2. script \in Seq(Kinds) /\ DOMAIN script = 1..Len(script)
        BY ScriptType DEF TypeOK, ClientTypeOK
      <4>. QED  BY <4>1, <4>2 DEF Shape, Shapes
    <3>3. /\ Shape(n) # "mid"
          /\ script[line'] = "empty" \/ (script[line'] = "text" /\ Shape(n) = "whole")
      BY <3>1, <3>2, ParsedText
    <3>4. got % 2 = 0 /\ (script[line'] = "text" => n = 2)
      BY <3>3 DEF Shape
    <3> DEFINE f == line'
    <3>5. f \in Nat /\ 2 * f = got + 2
      BY <3>1, <3>4, FrameOfHalf
    <3>6. script[f] = "empty" \/ (script[f] = "text" /\ n = 2)
      BY <3>3, <3>4
    <3>7. f \in Int /\ got < 2 * f - 1 /\ 2 * f - 1 <= got + n
          /\ (n = 2 => 2 * f <= got + n)
      <4> HIDE DEF f
      <4>. QED  BY <2>1, <3>5
    <3>8. Arrived(line)'
      BY <2>1, <3>6, <3>7 DEF Arrived
    <3>. QED  BY <3>7, <3>8
  <2>5. pc' = "write" /\ line' > 0 => \A i \in DOMAIN fed : fed[i] < line'
    <3> SUFFICES ASSUME pc' = "write", line' > 0, NEW i \in DOMAIN fed
                 PROVE  fed[i] < line'
      OBVIOUS
    <3>1. fed[i] \in Int /\ line' \in Int /\ got < 2 * line' - 1
      BY <2>4
    <3>2. CASE fed[i] > 0
      <4> DEFINE a == fed[i]
                 b == line'
      <4>1. a \in Int /\ b \in Int /\ got < 2 * b - 1
        BY <3>1
      <4>2. 2 * a - 1 <= got \/ 2 * a <= got
        BY <3>2 DEF InputInv, InputOrder, Arrived
      <4>3. a < b
        <5> HIDE DEF a, b
        <5>. QED  BY <4>1, <4>2
      <4>. QED  BY <4>3
    <3>. QED  BY <3>1, <3>2
  <2>6. InHand'
    BY <2>1, <2>3, <2>4, <2>5 DEF InHand
  <2>. QED  BY <2>2, <2>6 DEF InputInv
<1>9. CASE Reply
  <2>1. /\ UNCHANGED <<script, fed, got, line>> /\ pc = "reply"
        /\ sockOpen' => sockOpen
        /\ toClient' = toClient \/ toClient' = Append(toClient, CloseFrame)
        /\ pc' = "write" => line = CliExit
        /\ pc' = "write" /\ sockOpen' => toClient' = Append(toClient, CloseFrame)
        /\ pc' # "reply"
    BY <1>9 DEF Reply, SafeSend
  <2>2. ASSUME Answered PROVE Answered'
    <3>1. CASE toClient' = toClient
      BY <2>2, <3>1 DEF Answered
    <3>2. CASE toClient' = Append(toClient, CloseFrame)
      BY <3>2, AnswerGiven
    <3>. QED  BY <2>1, <3>1, <3>2
  <2>3. InputOrder' /\ CloseAnswered'
    <3>1. InputOrder'
      BY <2>1 DEF InputInv, InputOrder, Arrived
    <3>2. CloseAnswered'
      BY <2>1, <2>2 DEF InputInv, CloseAnswered, Answered
    <3>. QED  BY <3>1, <3>2
  <2>4. pc' = "write" /\ sockOpen' => Answered'
    BY <2>1, AnswerGiven
  <2>5. InHand'
    BY <2>1, <2>4 DEF InHand, Answered
  <2>. QED  BY <2>3, <2>5 DEF InputInv
<1>10. CASE WriteStdin
  <2>1. CASE fed' = fed
    <3>1. UNCHANGED <<script, got, sockOpen, toClient>> /\ pc' = "killed"
      <4>1. Len(fed) \in Nat /\ Len(Append(fed, line)) # Len(fed)
        BY AppendType
      <4>. QED  BY <1>10, <2>1, <4>1 DEF WriteStdin
    <3>. QED  BY <2>1, <3>1, InputFrame DEF Answered
  <2>2. CASE fed' = Append(fed, line)
    <3>1. UNCHANGED <<script, got, sockOpen, toClient, line>> /\ pc = "write"
          /\ pc' \notin {"write", "reply"}
      BY <1>10 DEF WriteStdin
    <3>2. /\ DOMAIN fed = 1..Len(fed) /\ DOMAIN fed' = 1..(Len(fed) + 1) /\ Len(fed) \in Nat
          /\ \A i \in 1..Len(fed) : fed'[i] = fed[i]
          /\ fed'[Len(fed) + 1] = line
      BY <2>2, AppendType
    <3>3. InputOrder'
      <4>1. ASSUME NEW i \in 1..Len(fed), fed'[i] > 0
            PROVE  /\ Arrived(fed[i])'
                   /\ \A j \in 1..(i - 1) : fed'[j] < fed'[i]
        <5>1. fed'[i] = fed[i] /\ \A j \in 1..(i - 1) : fed'[j] = fed[j]
          BY <3>2
        <5>2. /\ Arrived(fed[i])
              /\ \A j \in 1..(i - 1) : fed[j] < fed[i]
          BY <3>2, <4>1, <5>1 DEF InputInv, InputOrder
        <5>. QED  BY <3>1, <5>1, <5>2 DEF Arrived
      <4>2. ASSUME line > 0
            PROVE  /\ Arrived(line)'
                   /\ \A j \in 1..Len(fed) : fed'[j] < line
        BY <3>1, <3>2, <4>2 DEF InputInv, InHand, Arrived
      <4>3. ASSUME NEW i \in 1..(Len(fed) + 1), fed'[i] > 0
            PROVE  /\ Arrived(fed[i])'
                   /\ \A j \in 1..(i - 1) : fed'[j] < fed'[i]
        <5>1. CASE i \in 1..Len(fed)
          BY <4>1, <4>3, <5>1
        <5>2. CASE i = Len(fed) + 1
          <6>1. fed'[i] = line /\ i - 1 = Len(fed)
            BY <3>2, <5>2
          <6>. QED  BY <3>1, <4>2, <4>3, <6>1 DEF Arrived
        <5>. QED  BY <3>2, <5>1, <5>2
      <4>. QED  BY <3>2, <4>3 DEF InputOrder
    <3>4. CloseAnswered'
      BY <3>1, <3>2 DEF InputInv, CloseAnswered, InHand
    <3>5. InHand'
      BY <3>1 DEF InHand
    <3>. QED  BY <3>3, <3>4, <3>5 DEF InputInv
  <2>. QED  BY <1>10, <2>1, <2>2 DEF WriteStdin
<1>11. CASE UNCHANGED vars
  BY <1>11, InputFrame DEF vars, Answered
<1>. QED
  BY <1>1, <1>2, <1>3, <1>4, <1>5, <1>6, <1>7, <1>8, <1>9, <1>10, <1>11
  DEF Next, Thread, FromClient, FromChild

\* However the byte stream is cut, what the application was given and what is
\* in hand for it keep the client's order.
THEOREM InputInOrder == Spec => []InputInv
<1>1. Init => InputInv
  BY DEF Init, InputInv, InHand, InputOrder, CloseAnswered
<1>. QED  BY <1>1, InputKeptInOrder, TypeCorrect, PTL DEF Spec

\* Text frames reach the application in order, whole, each at most once.
THEOREM InputIsOrdered == Spec => []InputOrder
  BY InputInOrder, PTL DEF InputInv

\* cli_exit follows the answer to the closing frame.
THEOREM CloseIsAnswered == Spec => []CloseAnswered
  BY InputInOrder, PTL DEF InputInv

\* The line between recv() and write() is newer than all that were written,
\* and a cli_exit there was answered.
THEOREM LineInHand == Spec => []InHand
  BY InputInOrder, PTL DEF InputInv
-----------------------------------------------------------------------------
\* A client that waits has at most one frame under way, and all of it.
Paced == ~Split /\ ~Pipelined => got % 2 = 0 /\ sent \in {got, got + 2}

\* What is parsed of a frame that came whole fails no assertion.
LEMMA WholeParses ==
  ASSUME NEW k \in Kinds, k # "long"
  PROVE  "abort" \notin Parse(k, "whole")
<1>1. CASE k \in {"empty", "bad"}
  BY <1>1 DEF Parse
<1>2. CASE k \in {"text", "close", "other"}
  BY <1>2 DEF Parse
<1>. QED  BY <1>1, <1>2 DEF Kinds

\* One recv() takes the frame that is under way.
LEMMA PacedRecv ==
  ASSUME TypeOK, Paced, NEW n \in 1..(sent - got), Recv(n), ~Split, ~Pipelined
  PROVE  n = 2 /\ got' = sent /\ Shape(n) = "whole" /\ Frame(got + 1) \in 1..Len(script)
<1>1. /\ sent \in Int /\ got \in Nat /\ Len(script) \in Nat /\ sent <= 2 * Len(script)
  BY ScriptType DEF TypeOK, ClientTypeOK
<1>2. n % 2 = 0 /\ got' = got + n /\ got % 2 = 0 /\ sent \in {got, got + 2}
  BY DEF Recv, Paced
<1>3. n = 2
  BY <1>1, <1>2
<1>. QED  BY <1>1, <1>2, <1>3, FrameInScript DEF Shape

\* Assertions fail for a reason.
LEMMA CauseKept ==
  ASSUME TypeOK, Paced, AbortCause, [Next]_vars
  PROVE  Paced' /\ AbortCause'
<1>0. /\ sent \in Int /\ got \in Nat /\ rd["err"] \in Nat /\ rd \in [Streams -> Nat]
      /\ mark \in Nat
  BY ScriptType DEF TypeOK, ClientTypeOK, AppTypeOK, ThreadTypeOK
<1> USE DEF client, process, globals
<1>1. CASE ClientSend
  <2>1. /\ UNCHANGED <<script, got, pc, rd>> /\ sent' = sent + 2
        /\ ~Pipelined => got = sent
    BY <1>1 DEF ClientSend
  <2>. QED  BY <1>0, <2>1 DEF Paced, AbortCause
<1>2. ASSUME NEW n \in 1..(sent - got), Recv(n) PROVE Paced' /\ AbortCause'
  <2> SUFFICES ASSUME ~Split, ~Pipelined PROVE Paced' /\ AbortCause'
    BY DEF Paced, AbortCause
  <2>1. n = 2 /\ got' = sent /\ Shape(n) = "whole" /\ Frame(got + 1) \in 1..Len(script)
    BY <1>2, PacedRecv
  <2>2. Paced'
    <3>1. sent' = sent /\ got' = got + 2
      BY <1>2, <2>1 DEF Recv
    <3>. QED  BY <1>0, <2>1, <3>1 DEF Paced
  <2>3. ASSUME \A i \in DOMAIN script : script[i] # "long" PROVE pc' # "aborted"
    <3>1. script[Frame(got + 1)] \in Kinds /\ script[Frame(got + 1)] # "long"
      BY <2>1, <2>3, ScriptType DEF TypeOK, ClientTypeOK
    <3>2. "abort" \notin Parse(script[Frame(got + 1)], Shape(n))
      BY <2>1, <3>1, WholeParses
    <3>. QED  BY <1>2, <3>2 DEF Recv
  <2>4. script' = script
    BY <1>2 DEF Recv
  <2>. QED  BY <2>2, <2>3, <2>4 DEF AbortCause
<1>3. ASSUME NEW s \in Streams, ReadPiece(s) \/ ReadRest(s) PROVE Paced' /\ AbortCause'
  <2>1. UNCHANGED <<script, sent, got>>
    BY <1>3 DEF ReadPiece, ReadRest, SendLine, SafeSend
  <2>2. pc' = "aborted" => rd'["err"] > 0
    <3>1. CASE s = "out"
      BY <1>3, <3>1 DEF ReadPiece, ReadRest, SendLine, SafeSend
    <3>2. CASE s = "err"
      BY <1>0, <1>3, <3>2 DEF ReadPiece, ReadRest
    <3>. QED  BY <3>1, <3>2
  <2>. QED  BY <2>1, <2>2 DEF Paced, AbortCause
<1>4. ASSUME UNCHANGED <<script, sent, got, rd>>, pc' = "aborted" => pc = "aborted"
      PROVE  Paced' /\ AbortCause'
  BY <1>4 DEF Paced, AbortCause
<1>5. CASE Environment /\ ~ClientSend
  BY <1>4, <1>5 DEF Environment, ClientLeave, AppWrite, AppRead, AppClose, AppExit, KernelReleasesApp
<1>6. CASE MakeChild \/ Poll \/ ChildExit \/ IdleStop \/ IdleCheck
  BY <1>4, <1>6 DEF MakeChild, Poll, ChildExit, IdleStop, IdleCheck
<1>7. CASE RecvEof \/ RecvError \/ Reply \/ WriteStdin
  BY <1>4, <1>7 DEF RecvEof, RecvError, Reply, SafeSend, WriteStdin
<1>8. ASSUME NEW s \in Streams, ReadAgain(s) \/ ReadEof(s) PROVE Paced' /\ AbortCause'
  BY <1>4, <1>8 DEF ReadAgain, ReadEof
<1>9. ASSUME NEW e, NEW at \in {"recv", "out", "err"}, Invoke(e, at) PROVE Paced' /\ AbortCause'
  BY <1>4, <1>9 DEF Invoke
<1>10. CASE UNCHANGED vars
  BY <1>4, <1>10 DEF vars
<1>. QED
  BY <1>1, <1>2, <1>3, <1>5, <1>6, <1>7, <1>8, <1>9, <1>10
  DEF Next, Thread, FromClient, FromChild

\* A session whose client sends frames one by one, none of them long, fails an
\* assertion only over something that the application wrote to stderr.
THEOREM AbortsOverStderr == Spec => []AbortCause
<1>1. Init => Paced /\ AbortCause
  BY DEF Init, Paced, AbortCause
<1>. QED  BY <1>1, CauseKept, TypeCorrect, PTL DEF Spec
-----------------------------------------------------------------------------
\* The client is one that waits, over a connection that does not cut its
\* frames, and sends no long ones.
Plain == ~Split /\ ~Pipelined /\ \A s \in Scripts : \A i \in DOMAIN s : s[i] # "long"

\* The line that a frame stands for.
LineOf(f) == IF script[f] = "close" THEN CliExit ELSE f

\* The numbers of the first n frames, and those that are lines.
Upto(n) == [i \in 1..n |-> i]
Kept(n) == Without(Upto(n), {i \in DOMAIN script : script[i] \notin {"text", "empty", "close"}})

\* Lines are numbers of frames, or cli_exit.
LEMMA LinesType ==
  ASSUME script \in Seq(Kinds), NEW n \in 0..Len(script)
  PROVE  /\ Lines(0) = << >>
         /\ Kept(n) \in Seq(1..n) /\ Len(Kept(n)) <= n
         /\ Lines(n) = [i \in 1..Len(Kept(n)) |-> LineOf(Kept(n)[i])]
         /\ Lines(n) \in Seq(-1..Len(script)) /\ Len(Lines(n)) = Len(Kept(n))
<1> DEFINE X == 1..n
           k == Kept(n)
<1>1. \A m : Lines(m) = [i \in DOMAIN Kept(m) |-> LineOf(Kept(m)[i])]
  BY DEF Lines, LineOf, Kept, Upto
<1>2. Lines(0) = << >>
  <2>1. Upto(0) = << >>
    BY DEF Upto
  <2>2. Kept(0) = << >>
    BY <2>1, WithoutEmpty DEF Kept
  <2>3. Lines(0) = [i \in DOMAIN Kept(0) |-> LineOf(Kept(0)[i])]
    BY <1>1
  <2>. QED  BY <2>2, <2>3
<1>3. k \in Seq(X) /\ Len(k) <= n
  <2>1. Upto(n) \in Seq(X) /\ Len(Upto(n)) = n
    BY DEF Upto
  <2>. QED  BY <2>1, WithoutLeaves DEF Kept
<1>4. \A i \in X : LineOf(i) \in -1..Len(script)
  BY DEF LineOf
<1>5. Lines(n) = [i \in 1..Len(k) |-> LineOf(k[i])] /\ Len(k) \in Nat
  <2>1. Lines(n) = [i \in DOMAIN k |-> LineOf(k[i])]
    BY <1>1
  <2> HIDE DEF k, X
  <2>. QED  BY <1>3, <2>1
<1>6. Lines(n) \in Seq(-1..Len(script)) /\ Len(Lines(n)) = Len(k)
  <2> HIDE DEF k, X
  <2>1. \A i \in 1..Len(k) : k[i] \in X
    BY <1>3
  <2>. QED  BY <1>4, <1>5, <2>1
<1>. QED  BY <1>2, <1>3, <1>5, <1>6

\* One more frame is one more line, or none.
LEMMA NextLine ==
  ASSUME script \in Seq(Kinds), NEW n \in Nat, n + 1 <= Len(script)
  PROVE  /\ LineOf(n + 1) \in -1..Len(script)
         /\ Kept(n + 1) \in {Kept(n), Append(Kept(n), n + 1)}
         /\ Lines(n + 1) = IF script[n + 1] \in {"text", "empty", "close"}
                             THEN Append(Lines(n), LineOf(n + 1)) ELSE Lines(n)
<1> DEFINE X == 1..Len(script)
           o == {i \in DOMAIN script : script[i] \notin {"text", "empty", "close"}}
           e == n + 1
           k == Kept(n)
           j == Kept(e)
<1>1. Len(script) \in Nat /\ DOMAIN script = X /\ e \in X
  OBVIOUS
<1>2. /\ k \in Seq(1..n) /\ k \in Seq(X) /\ Lines(n) = [i \in 1..Len(k) |-> LineOf(k[i])]
      /\ Lines(n) \in Seq(-1..Len(script)) /\ Len(Lines(n)) = Len(k)
  <2>1. n \in 0..Len(script)
    BY <1>1
  <2>2. \A q \in Seq(1..n) : q \in Seq(X)
    OBVIOUS
  <2> HIDE DEF k, X
  <2>3. k \in Seq(1..n)
    BY <2>1, LinesType DEF k
  <2>. QED  BY <2>1, <2>2, <2>3, LinesType DEF k
<1>3. Lines(e) = [i \in 1..Len(j) |-> LineOf(j[i])]
  <2>1. e \in 0..Len(script)
    BY <1>1
  <2> HIDE DEF e
  <2>. QED  BY <2>1, LinesType
<1>4. j = IF e \in o THEN k ELSE Append(k, e)
  <2> DEFINE u == Upto(n)
  <2>1. u \in Seq(X) /\ Upto(e) = Append(u, e)
    BY <1>1 DEF Upto
  <2>2. k = Without(u, o) /\ j = Without(Append(u, e), o)
    BY <2>1 DEF Kept
  <2> HIDE DEF u, o, k, j, X, e
  <2>. QED  BY <1>1, <2>1, <2>2, WithoutAppend
<1>5. LineOf(e) \in -1..Len(script)
  BY <1>1 DEF LineOf
<1>6. CASE e \in o
  <2> HIDE DEF e, k, j
  <2>1. Lines(e) = Lines(n) /\ j = k
    BY <1>2, <1>3, <1>4, <1>6
  <2>2. Kept(e) = Kept(n)
    BY <2>1 DEF j, k
  <2>. QED  BY <1>5, <1>6, <2>1, <2>2 DEF e
<1>7. CASE e \notin o
  <2>1. /\ Len(j) = Len(k) + 1 /\ j[Len(k) + 1] = e /\ Len(k) \in Nat
        /\ \A i \in 1..Len(k) : j[i] = k[i]
    <3> HIDE DEF k, j, X, e
    <3>. QED  BY <1>1, <1>2, <1>4, <1>7, AppendType
  <2>2. Lines(e) = Append(Lines(n), LineOf(e))
    <3> HIDE DEF k, j, e
    <3>. QED  BY <1>2, <1>3, <1>5, <2>1
  <2>3. Kept(e) = Append(Kept(n), e)
    BY <1>4, <1>7
  <2> HIDE DEF k, j
  <2>. QED  BY <1>1, <1>5, <1>7, <2>2, <2>3
<1>. QED  BY <1>6, <1>7

Begins(p, q) == Len(p) <= Len(q) /\ \A i \in 1..Len(p) : p[i] = q[i]

\* What was received was given to the application, but for the line in hand.
Given ==
  LET lines == Lines(got \div 2)
  IN  /\ pc \in {"start", "loop", "recv"} \cup Streams => fed = lines
      /\ pc = "reply" => lines = IF line = CliExit THEN Append(fed, CliExit) ELSE fed
      /\ pc = "write" => lines = Append(fed, line)
      /\ pc \in Ended => Begins(fed, lines)

\* At every moment the application's input begins the lines received.
LEMMA FedBegins ==
  ASSUME TypeOK, Given
  PROVE  Begins(fed, Lines(got \div 2))
<1>1. fed \in Seq(-1..Len(script)) /\ line \in -1..Len(script) /\ CliExit \in -1..Len(script)
  <2>1. Len(script) \in Nat
    BY ScriptType DEF TypeOK, ClientTypeOK
  <2>. QED  BY <2>1 DEF TypeOK, AppTypeOK, ThreadTypeOK
<1>2. ASSUME NEW l \in -1..Len(script) PROVE Begins(fed, Append(fed, l))
  BY <1>1, AppendType DEF Begins
<1>3. Len(fed) \in Nat
  BY <1>1
<1>4. Begins(fed, fed)
  BY <1>3 DEF Begins
<1>5. \/ Lines(got \div 2) = fed \/ Begins(fed, Lines(got \div 2))
      \/ Lines(got \div 2) \in {Append(fed, CliExit), Append(fed, line)}
  BY DEF Given, TypeOK, ThreadTypeOK
<1>. QED  BY <1>1, <1>2, <1>4, <1>5

\* What becomes of a frame that came whole.
LEMMA WholeFrame ==
  ASSUME NEW k \in Kinds, k # "long", NEW outcome \in Parse(k, "whole")
  PROVE  /\ outcome = "text" <=> k \in {"text", "empty"}
         /\ outcome = "close" <=> k = "close"
         /\ outcome \notin {"garbage", "abort"}
<1>1. CASE k \in {"empty", "bad"}
  BY <1>1 DEF Parse
<1>2. CASE k \in {"text", "close", "other"}
  BY <1>2 DEF Parse
<1>. QED  BY <1>1, <1>2 DEF Kinds

\* Steps that take nothing from the client and give nothing to the application.
LEMMA GivenFrame ==
  ASSUME TypeOK, Given, UNCHANGED <<script, fed, got>>,
         \/ pc' \in Ended
         \/ UNCHANGED <<pc, line>>
         \/ /\ pc \in {"start", "loop", "recv"} \cup Streams
            /\ pc' \in {"start", "loop", "recv"} \cup Streams
  PROVE  Given'
<1>1. Lines(got \div 2)' = Lines(got \div 2)
  BY DEF Lines
<1>2. Begins(fed, Lines(got \div 2)) => Begins(fed, Lines(got \div 2))'
  BY <1>1 DEF Begins
<1>. QED  BY <1>1, <1>2, FedBegins DEF Given

\* Every step keeps the input complete.
LEMMA GivenKept ==
  ASSUME TypeOK, Plain, Paced, Given, [Next]_vars
  PROVE  Given'
<1>0. /\ script \in Seq(Kinds) /\ Len(script) \in Nat /\ DOMAIN script = 1..Len(script)
      /\ got \in Nat /\ sent \in Int /\ sent <= 2 * Len(script)
  <2>1. script \in Seq(Kinds) /\ Len(script) \in Nat /\ DOMAIN script = 1..Len(script)
    BY ScriptType DEF TypeOK, ClientTypeOK
  <2>. QED  BY <2>1 DEF TypeOK, ClientTypeOK
<1> USE DEF client, process, globals
<1>1. CASE Environment
  <2>1. UNCHANGED <<script, fed, got, pc, line>>
    BY <1>1 DEF Environment, ClientSend, ClientLeave, AppWrite, AppRead,
       AppClose, AppExit, KernelReleasesApp
  <2>. QED  BY <2>1, GivenFrame
<1>2. CASE MakeChild \/ Poll \/ ChildExit \/ IdleStop \/ IdleCheck
  BY <1>2, GivenFrame DEF MakeChild, Poll, ChildExit, IdleStop, IdleCheck
<1>3. ASSUME NEW e, NEW at \in {"recv", "out", "err"}, Invoke(e, at) PROVE Given'
  BY <1>3, GivenFrame DEF Invoke
<1>4. ASSUME NEW s \in Streams, ReadPiece(s) \/ ReadAgain(s) \/ ReadRest(s) \/ ReadEof(s)
      PROVE  Given'
  <2>1. UNCHANGED <<script, fed, got>> /\ pc = s
        /\ pc' \in {"loop", "aborted", "killed", "out", "err"}
    BY <1>4 DEF ReadPiece, ReadAgain, ReadRest, ReadEof, SendLine, SafeSend
  <2>. QED  BY <2>1, GivenFrame
<1>5. ASSUME NEW n \in 1..(sent - got), Recv(n) PROVE Given'
  <2> DEFINE f == got \div 2 + 1
             m == got \div 2
  <2>1. n = 2 /\ Shape(n) = "whole" /\ got % 2 = 0 /\ pc = "recv"
        /\ UNCHANGED <<script, fed>> /\ got' = got + 2
    BY <1>5, PacedRecv DEF Plain, Paced, Recv
  <2>2. Frame(got + 1) = f /\ m \in Nat /\ f = m + 1 /\ f <= Len(script) /\ f \in 1..Len(script)
        /\ got' \div 2 = f
    BY <1>0, <1>5, <2>1 DEF Frame
  <2>3. script[f] \in Kinds /\ script[f] # "long"
    BY <1>0, <2>2 DEF Plain, TypeOK, ClientTypeOK
  <2>4. Lines(f) = IF script[f] \in {"text", "empty", "close"}
                   THEN Append(Lines(m), LineOf(f)) ELSE Lines(m)
    BY <1>0, <2>2, NextLine
  <2>5. Lines(got \div 2)' = Lines(f) /\ fed = Lines(m)
    BY <2>1, <2>2 DEF Given, Lines
  <2>6. PICK outcome \in Parse(script[f], "whole") :
          /\ outcome = "skip" => UNCHANGED <<pc, line>>
          /\ outcome = "text" => pc' = "write" /\ line' = f
          /\ outcome = "close" => pc' = "reply" /\ line' = CliExit
          /\ outcome = "error" => pc' = "reply" /\ line' = Garbage
          /\ outcome \in {"skip", "text", "garbage", "close", "error", "abort"}
    BY <1>5, <2>1, <2>2 DEF Recv
  <2>7. /\ outcome = "text" <=> script[f] \in {"text", "empty"}
        /\ outcome = "close" <=> script[f] = "close"
        /\ outcome \notin {"garbage", "abort"}
    BY <2>3, <2>6, WholeFrame
  <2> HIDE DEF f, m
  <2>8. CASE outcome = "text"
    BY <2>4, <2>5, <2>6, <2>7, <2>8, <2>1 DEF Given, LineOf
  <2>9. CASE outcome = "close"
    BY <2>4, <2>5, <2>6, <2>7, <2>9, <2>1 DEF Given, LineOf
  <2>10. CASE outcome \in {"skip", "error"}
    BY <2>4, <2>5, <2>6, <2>7, <2>10, <2>1 DEF Given
  <2>. QED  BY <2>6, <2>7, <2>8, <2>9, <2>10
<1>6. CASE RecvEof
  BY <1>6, GivenFrame DEF RecvEof
<1>7. CASE RecvError
  <2>1. UNCHANGED <<script, fed, got>> /\ pc = "recv" /\ pc' = "reply" /\ line' = Garbage
    BY <1>7 DEF RecvError
  <2>2. Lines(got \div 2)' = Lines(got \div 2)
    BY <2>1 DEF Lines
  <2>. QED  BY <2>1, <2>2 DEF Given
<1>8. CASE Reply
  <2>1. UNCHANGED <<script, fed, got, line>> /\ pc = "reply"
        /\ IF line = CliExit THEN pc' \in {"write", "killed"}
                             ELSE pc' \in {"recv", "loop", "killed"}
    BY <1>8 DEF Reply, SafeSend
  <2>2. Lines(got \div 2)' = Lines(got \div 2)
    <3>1. script' = script /\ got' = got
      BY <2>1
    <3>. QED  BY <3>1 DEF Lines
  <2>3. CASE pc' = "killed"
    BY <2>1, <2>3, GivenFrame
  <2>4. CASE pc' # "killed"
    BY <2>1, <2>2, <2>4 DEF Given
  <2>. QED  BY <2>3, <2>4
<1>9. CASE WriteStdin
  <2>1. UNCHANGED <<script, got, line>> /\ pc = "write"
        /\ ((pc' = "loop" /\ fed' = Append(fed, line)) \/ (pc' = "killed" /\ fed' = fed))
    BY <1>9 DEF WriteStdin
  <2>2. Lines(got \div 2)' = Lines(got \div 2)
    <3>1. script' = script /\ got' = got
      BY <2>1
    <3>. QED  BY <3>1 DEF Lines
  <2>3. CASE pc' = "killed"
    BY <2>1, <2>3, GivenFrame
  <2>4. CASE pc' # "killed"
    BY <2>1, <2>2, <2>4 DEF Given
  <2>. QED  BY <2>3, <2>4
<1>10. CASE UNCHANGED vars
  BY <1>10, GivenFrame DEF vars
<1>. QED
  BY <1>1, <1>2, <1>3, <1>4, <1>5, <1>6, <1>7, <1>8, <1>9, <1>10
  DEF Next, Thread, FromClient, FromChild

\* With a client that waits for its frames to be read and sends no long ones,
\* over a connection that does not cut them, nothing received is lost.
THEOREM NothingLost == ASSUME Plain PROVE Spec => [](Paced /\ Given)
<1>1. Init => Paced /\ AbortCause /\ Given
  <2> SUFFICES ASSUME Init PROVE Paced /\ AbortCause /\ Given
    OBVIOUS
  <2>1. script \in Seq(Kinds) /\ 0 \in 0..Len(script)
    BY ScriptType DEF Init
  <2>2. got \div 2 = 0 /\ fed = << >> /\ pc = "start" /\ Lines(0) = << >>
    BY <2>1, LinesType DEF Init
  <2>. QED  BY <2>2 DEF Init, Given, Paced, AbortCause
<1>2. TypeOK /\ Paced /\ AbortCause /\ Given /\ [Next]_vars => (Paced /\ AbortCause /\ Given)'
  BY GivenKept, CauseKept
<1>. QED  BY <1>1, <1>2, TypeCorrect, PTL DEF Spec

\* So the application is given exactly the lines of the frames received.
THEOREM InputIsKept == ASSUME Plain PROVE Spec => []InputKept
<1>1. Given => InputKept
  BY DEF Given, InputKept
<1>. QED  BY <1>1, NothingLost, PTL
=============================================================================
