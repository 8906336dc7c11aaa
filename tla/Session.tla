------------------------------ MODULE Session ------------------------------
(***************************************************************************)
(* One Slang I/O session: the process slangio_main after the opening       *)
(* handshake.  A libev loop relays WebSocket text frames from the client   *)
(* to the stdin of the application it forked, and the application's        *)
(* stdout (and stderr) lines to the client, until it decides to stop.      *)
(*                                                                         *)
(* The session is one thread: pc says where it is.  The client, the        *)
(* network, the application and the kernel move between its steps.         *)
(*                                                                         *)
(* Data abstraction.  A client frame is its number in `script' and a kind  *)
(* (see Frames).  It is two halves on the wire, so that a recv() may end   *)
(* inside it; `sent' and `got' count halves.  What the application writes  *)
(* is a log of pieces shorter than a read buffer; a piece is TRUE when it  *)
(* ends in a newline.  Pipe contents are the unread ends of the logs.      *)
(***************************************************************************)
EXTENDS Integers, Sequences, Frames, Lists

CONSTANTS
  Scripts,    \* the frame sequences the client may send
  Tokens,     \* bound: pieces the application writes
  PipeCap,    \* bound: pieces or lines a pipe holds
  Pipelined,  \* may the client send a frame before the last one was read?
  Split,      \* may a recv() end inside a frame?
  MayLeave,   \* may the client end the TCP connection by itself?
  MayFail,    \* may fork() fail?
  Writes,     \* <<stream, ends in a newline>>: the writes the application does
  EarlyClose  \* the streams the application may close before it exits

Streams == {"out", "err"}
Ended   == {"exited", "aborted", "killed"}
Gone    == {"closing", "closed", "zombie", "reaped"}

ASSUME ScriptsAssumption ==
  /\ Scripts \subseteq Seq(Kinds)
  /\ \A s \in Scripts : \A i \in DOMAIN s : s[i] = "close" => i = Len(s)
ASSUME BoundsAssumption  == Tokens \in Nat /\ PipeCap \in Nat \ {0}
ASSUME ChoicesAssumption ==
  /\ {Pipelined, Split, MayLeave, MayFail} \subseteq BOOLEAN
  /\ Writes \subseteq Streams \X BOOLEAN
  /\ EarlyClose \subseteq Streams

VARIABLES
  script,     \* the frames of this client
  sent, got,  \* halves of frames the client sent, the session received
  peer,       \* the session's view of the connection
  sockOpen,   \* sockfd has not been closed by safeSend
  toClient,   \* frames the transport accepted, in order
  app,        \* the application process
  open,       \* streams whose write end the application holds
  wlog, rd,   \* pieces written to each stream; how many the session read
  fed, taken, \* lines written to the application's stdin; how many it read
  sigchld,    \* SIGCHLD not yet seen by libev
  pc, pending, mark, line,  \* the session's thread: see TypeOK
  watch,      \* streams whose ev_io watcher is active
  SHUTDOWN, SIO_count, errno

client  == <<script, sent, peer>>
process == <<app, open, sigchld>>
socket  == <<got, sockOpen, toClient>>
pipes   == <<wlog, rd, fed, taken>>
inHand  == <<pending, mark, line>>
globals == <<watch, SHUTDOWN, SIO_count>>
vars == <<client, socket, process, pipes, pc, inHand, globals, errno>>

Garbage == 0     \* a line that is no frame's payload
CliExit == -1    \* the line "ev://cli_exit/"
CloseFrame == [from |-> 0, to |-> 0]

ClientTypeOK ==
  /\ script \in Scripts
  /\ sent \in {2 * n : n \in 0..Len(script)} /\ got \in 0..sent
  /\ peer \in {"open", "fin", "rst", "dead"}   \* dead: the reset was reported
  /\ sockOpen \in BOOLEAN
  /\ toClient \in Seq([from : Nat, to : Nat])

AppTypeOK ==
  /\ app \in {"none", "running"} \cup Gone
  /\ open \subseteq Streams
  /\ wlog \in [Streams -> Seq(BOOLEAN)] /\ rd \in [Streams -> Nat]
  /\ \A s \in Streams : rd[s] <= Len(wlog[s])
  /\ fed \in Seq(-1..Len(script)) /\ taken \in 0..Len(fed)
  /\ sigchld \in BOOLEAN

ThreadTypeOK ==
  /\ pc \in {"start", "loop", "recv", "reply", "write"} \cup Streams \cup Ended
  /\ pending \subseteq {"sock", "out", "err", "chld", "idle"}
  /\ mark \in Nat                  \* pieces read before the line being read
  /\ line \in -1..Len(script)      \* the line to write to the application
  /\ watch \subseteq Streams
  /\ SHUTDOWN \in BOOLEAN /\ SIO_count \in -1..1
  /\ errno \in {"0", "EAGAIN", "other"}

TypeOK == ClientTypeOK /\ AppTypeOK /\ ThreadTypeOK

Init ==
  /\ script \in Scripts
  /\ sent = 0 /\ got = 0 /\ peer = "open" /\ sockOpen = TRUE
  /\ toClient = << >>
  /\ app = "none" /\ open = {} /\ sigchld = FALSE
  /\ wlog = [s \in Streams |-> << >>] /\ rd = [s \in Streams |-> 0]
  /\ fed = << >> /\ taken = 0
  /\ pc = "start" /\ pending = {} /\ mark = 0 /\ line = 0
  /\ watch = {} /\ SHUTDOWN = FALSE /\ SIO_count = 0 /\ errno = "0"

Running == pc \notin Ended      \* the environment of an ended session is not followed
Unread(s) == Len(wlog[s]) - rd[s]
-----------------------------------------------------------------------------
(* The client and the network. *)

ClientSend ==
  /\ Running /\ peer = "open" /\ sockOpen
  /\ sent < 2 * Len(script)
  /\ Pipelined \/ got = sent
  /\ sent' = sent + 2
  /\ UNCHANGED <<script, peer, socket, process, pipes, pc, inHand, globals, errno>>

ClientLeave ==
  /\ Running /\ MayLeave
  /\ \/ peer = "open" /\ peer' = "fin"
     \/ peer \in {"open", "fin"} /\ peer' = "rst"
  /\ UNCHANGED <<script, sent, socket, process, pipes, pc, inHand, globals, errno>>
-----------------------------------------------------------------------------
(* The application: any program that writes to its streams and reads its   *)
(* stdin when it likes.  The kernel closes the descriptors of an exiting   *)
(* process in order, then makes it a zombie and raises SIGCHLD.  A failed  *)
(* execvp() is an application that exits without writing.                  *)

AppWrite(s, nl) ==
  /\ Running /\ app = "running" /\ s \in open /\ <<s, nl>> \in Writes
  /\ Unread(s) < PipeCap
  /\ Len(wlog["out"]) + Len(wlog["err"]) < Tokens
  /\ wlog' = [wlog EXCEPT ![s] = Append(@, nl)]
  /\ UNCHANGED <<client, socket, process, rd, fed, taken, pc, inHand, globals,
                 errno>>

\* A read() returns one or more of the lines in the pipe.
AppRead(n) ==
  /\ Running /\ app = "running" /\ taken + n <= Len(fed)
  /\ taken' = taken + n
  /\ UNCHANGED <<client, socket, process, wlog, rd, fed, pc, inHand, globals,
                 errno>>

AppClose(s) ==
  /\ Running /\ app = "running" /\ s \in EarlyClose \cap open
  /\ open' = open \ {s}
  /\ UNCHANGED <<client, socket, app, sigchld, pipes, pc, inHand, globals, errno>>

AppExit ==
  /\ Running /\ app = "running"
  /\ app' = "closing" /\ open' = open \ {"out"}
  /\ UNCHANGED <<client, socket, sigchld, pipes, pc, inHand, globals, errno>>

\* MakeChild forks first; until its ev_child_start nobody catches SIGCHLD.  A
\* loop that has handled nothing looks like one that has not begun.
MaybeUnwatched == pc = "loop" /\ pending = {} /\ got = 0 /\ \A s \in Streams : rd[s] = 0

KernelReleasesApp ==
  /\ Running
  /\ \/ app = "closing" /\ app' = "closed" /\ open' = {} /\ UNCHANGED sigchld
     \/ /\ app = "closed" /\ app' = "zombie" /\ UNCHANGED open
        /\ sigchld' = TRUE \/ (MaybeUnwatched /\ UNCHANGED sigchld)
  /\ UNCHANGED <<client, socket, pipes, pc, inHand, globals, errno>>
-----------------------------------------------------------------------------
(* MakeChild and the loop. *)

\* The log functions of libslangio end by clearing errno.
LogDebug == errno' = "0"

MakeChild ==
  /\ pc = "start" /\ pc' = "loop"
  /\ \/ /\ app' = "running" /\ open' = Streams /\ watch' = Streams
        /\ SIO_count' = SIO_count + 1
     \/ MayFail /\ UNCHANGED <<app, open, watch, SIO_count>>
  /\ LogDebug
  /\ UNCHANGED <<client, socket, sigchld, pipes, inHand, SHUTDOWN>>

\* MakeChild's EV_DEFAULT_ creates the loop, with the backend libev prefers
\* (epoll); a descriptor closed by safeSend has no events there.
Ready ==
  {s \in watch : Unread(s) > 0 \/ s \notin open}
    \cup {e \in {"sock"} : app # "none" /\ sockOpen /\ (got < sent \/ peer # "open")}
    \cup {e \in {"chld"} : sigchld}

\* Mutant of Poll: a check watcher, which runs on every iteration.
PollEager ==
  /\ pc = "loop" /\ pending = {}
  /\ pending' = Ready \cup {"idle"}
  /\ UNCHANGED <<client, socket, process, pipes, pc, mark, line, globals, errno>>

\* One iteration of ev_loop: idle watchers are queued only when nothing is ready.
Poll ==
  /\ pc = "loop" /\ pending = {}
  /\ pending' = IF Ready = {} THEN {"idle"} ELSE Ready
  /\ UNCHANGED <<client, socket, process, pipes, pc, mark, line, globals, errno>>

\* libev invokes an I/O callback; the stdout one begins with LogDebug.
Invoke(e, at) ==
  /\ pc = "loop" /\ e \in pending
  /\ pending' = pending \ {e} /\ pc' = at
  /\ mark' = IF e \in Streams THEN rd[e] ELSE mark
  /\ errno' = IF e = "out" THEN "0" ELSE errno
  /\ UNCHANGED <<client, socket, process, pipes, line, globals>>

\* libev reaps with waitpid(-1); the callback runs only for a child it reaped.
ChildExit ==
  /\ pc = "loop" /\ "chld" \in pending
  /\ pending' = pending \ {"chld"} /\ sigchld' = FALSE
  /\ \/ /\ app = "zombie" /\ app' = "reaped" /\ LogDebug
        /\ SIO_count' = IF SIO_count # 0 THEN SIO_count - 1 ELSE SIO_count
     \/ app # "zombie" /\ errno' = "other" /\ UNCHANGED <<app, SIO_count>>
  /\ UNCHANGED <<client, socket, open, pipes, pc, mark, line, watch, SHUTDOWN>>

Stopping == SHUTDOWN \/ SIO_count <= 0

IdleStop ==
  /\ pc = "loop" /\ "idle" \in pending /\ Stopping
  /\ SIO_count' = IF SHUTDOWN THEN -1 ELSE SIO_count
  /\ pending' = {} /\ pc' = "exited" /\ LogDebug
  /\ UNCHANGED <<client, socket, process, pipes, mark, line, watch, SHUTDOWN>>

\* Mutant of IdleCheck: 0, "no child has changed state", is taken for an error.
IdleCheckMisreads ==
  /\ pc = "loop" /\ "idle" \in pending /\ ~Stopping
  /\ pending' = {}
  /\ app' = IF app = "zombie" THEN "reaped" ELSE app
  /\ SIO_count' = IF app # "zombie" THEN -1 ELSE SIO_count
  /\ UNCHANGED <<client, socket, open, sigchld, pipes, pc, mark, line, watch,
                 SHUTDOWN, errno>>

\* waitpid(0, WNOHANG) may itself reap the application; only the next
\* call fails with ECHILD.
IdleCheck ==
  /\ pc = "loop" /\ "idle" \in pending /\ ~Stopping
  /\ pending' = {}
  /\ app' = IF app = "zombie" THEN "reaped" ELSE app
  /\ SIO_count' = IF app = "reaped" THEN -1 ELSE SIO_count
  /\ errno' = IF app = "reaped" THEN "0" ELSE errno
  /\ UNCHANGED <<client, socket, open, sigchld, pipes, pc, mark, line, watch,
                 SHUTDOWN>>
-----------------------------------------------------------------------------
(* safeSend: a send() after a reset fails once with ECONNRESET (the socket *)
(* is then closed), or raises SIGPIPE, which nothing in slangio_main       *)
(* catches.                                                                *)

SafeSend(frame, ok, failed) ==
  \/ /\ sockOpen /\ peer \in {"open", "fin"}
     /\ toClient' = Append(toClient, frame) /\ pc' = ok
     /\ UNCHANGED <<peer, sockOpen, errno>>
  \/ /\ ~sockOpen \/ peer = "rst"
     /\ sockOpen' = FALSE /\ peer' = (IF sockOpen THEN "dead" ELSE peer)
     /\ pc' = failed /\ errno' = "other"
     /\ UNCHANGED toClient
  \/ /\ sockOpen /\ peer \in {"rst", "dead"}
     /\ pc' = "killed" /\ UNCHANGED <<peer, sockOpen, toClient, errno>>
-----------------------------------------------------------------------------
(* SOCKET_FromClient_Event: a recv() of n halves, parsed from its first    *)
(* byte; what was read is then discarded, whatever the parser said.        *)

Frame(half) == (half + 1) \div 2

\* Mutant of Shape: a frame counts as whole before its payload is.
ShapeEager(n) ==
  IF got % 2 = 1 THEN "mid" ELSE IF n <= 2 THEN "whole" ELSE "more"

Shape(n) ==
  IF got % 2 = 1 THEN "mid"
  ELSE IF n = 1 THEN "cut" ELSE IF n = 2 THEN "whole" ELSE "more"

\* Mutant of Recv: readedLength is one too large.
RecvOverruns(n) ==
  /\ pc = "recv" /\ sockOpen /\ got + n <= sent
  /\ got' = got + n + 1
  /\ UNCHANGED <<client, sockOpen, toClient, process, pipes, pc, globals, inHand,
                 errno>>

Recv(n) ==
  /\ pc = "recv" /\ sockOpen /\ got + n <= sent
  /\ Split \/ n % 2 = 0
  /\ got' = got + n
  /\ \E outcome \in Parse(script[Frame(got + 1)], Shape(n)) :
       \/ outcome = "skip" /\ UNCHANGED <<pc, line>>
       \/ outcome = "text" /\ pc' = "write" /\ line' = Frame(got + 1)
       \/ outcome = "garbage" /\ pc' = "write" /\ line' = Garbage
       \/ outcome = "close" /\ pc' = "reply" /\ line' = CliExit
       \/ outcome = "error" /\ pc' = "reply" /\ line' = Garbage
       \/ outcome = "abort" /\ pc' = "aborted" /\ UNCHANGED line
  /\ UNCHANGED <<client, sockOpen, toClient, process, pipes, pending, mark, globals,
                 errno>>

\* recv() = 0: the callback returns and leaves the watcher active.
RecvEof ==
  /\ pc = "recv" /\ sockOpen /\ got = sent /\ peer \in {"fin", "dead"}
  /\ pc' = "loop"
  /\ UNCHANGED <<client, socket, process, pipes, inHand, globals, errno>>

\* recv() = -1: readedLength wraps around and the zeroed buffer is parsed.
RecvError ==
  /\ pc = "recv" /\ (~sockOpen \/ (got = sent /\ peer = "rst"))
  /\ peer' = (IF sockOpen THEN "dead" ELSE peer)
  /\ pc' = "reply" /\ line' = Garbage /\ errno' = "other"
  /\ UNCHANGED <<script, sent, socket, process, pipes, pending, mark, globals>>

\* Mutant of Reply: cli_exit is written without the reply.
ReplySilent ==
  /\ pc = "reply"
  /\ IF line = CliExit THEN pc' = "write" /\ UNCHANGED <<peer, sockOpen, toClient, errno>>
                       ELSE SafeSend(CloseFrame, "recv", "loop")
  /\ UNCHANGED <<script, sent, got, process, pipes, inHand, globals>>

\* Mutant of Reply: when it cannot be sent, the callback gives up.
ReplyGivesUp ==
  /\ pc = "reply"
  /\ SafeSend(CloseFrame, IF line = CliExit THEN "write" ELSE "recv", "loop")
  /\ UNCHANGED <<script, sent, got, process, pipes, inHand, globals>>

\* The closing frame: after an error the loop goes back to recv().
Reply ==
  /\ pc = "reply"
  /\ IF line = CliExit THEN SafeSend(CloseFrame, "write", "write")
                       ELSE SafeSend(CloseFrame, "recv", "loop")
  /\ UNCHANGED <<script, sent, got, process, pipes, inHand, globals>>

\* Mutant of WriteStdin: a non-blocking write, its EAGAIN not handled.
WriteStdinNonblocking ==
  /\ pc = "write" /\ pc' = (IF app = "running" THEN "loop" ELSE "killed")
  /\ fed' = IF app = "running" /\ Len(fed) - taken < PipeCap THEN Append(fed, line) ELSE fed
  /\ UNCHANGED <<client, socket, process, wlog, rd, taken, inHand, globals, errno>>

\* SOCKET_to_Appl: one write() of a line, blocking while the pipe is full.
WriteStdin ==
  /\ pc = "write"
  /\ \/ /\ app = "running" /\ Len(fed) - taken < PipeCap
        /\ fed' = Append(fed, line) /\ pc' = "loop" /\ LogDebug
     \/ app # "running" /\ pc' = "killed" /\ UNCHANGED <<fed, errno>>
  /\ UNCHANGED <<client, socket, process, wlog, rd, taken, inHand, globals>>
-----------------------------------------------------------------------------
(* STDOUT_FromChild_Event and STDERR_FromChild_Event: lines until read()   *)
(* would block or the stream ends.  STDERR_to_Socket tells wsMakeFrame     *)
(* that its output buffer has length 0, which its assertion refuses.       *)

\* Mutant of SendLine: the two streams' senders are swapped.
SendLineSwapped(s, to) ==
  IF s = "err" THEN SafeSend([from |-> mark + 1, to |-> to], "err", "err")
  ELSE pc' = "aborted" /\ UNCHANGED <<peer, sockOpen, toClient, errno>>

\* A line (or its unended rest, at end of file) goes to the client.
SendLine(s, to) ==
  IF s = "out" THEN SafeSend([from |-> mark + 1, to |-> to], "out", "out")
  ELSE pc' = "aborted" /\ UNCHANGED <<peer, sockOpen, toClient, errno>>

\* Mutant of ReadPiece: the line buffer is not cleared after a line was sent.
ReadPieceKeepsLine(s) ==
  /\ pc = s /\ Unread(s) > 0
  /\ rd' = [rd EXCEPT ![s] = @ + 1]
  /\ IF wlog[s][rd[s] + 1]
       THEN SendLine(s, rd[s] + 1)
       ELSE UNCHANGED <<peer, sockOpen, toClient, pc, errno>>
  /\ UNCHANGED <<script, sent, got, process, wlog, fed, taken, inHand, globals>>

ReadPiece(s) ==
  /\ pc = s /\ Unread(s) > 0
  /\ rd' = [rd EXCEPT ![s] = @ + 1]
  /\ IF wlog[s][rd[s] + 1]
       THEN SendLine(s, rd[s] + 1) /\ mark' = rd[s] + 1
       ELSE UNCHANGED <<peer, sockOpen, toClient, pc, mark, errno>>
  /\ UNCHANGED <<script, sent, got, process, wlog, fed, taken, pending, line,
                 globals>>

\* Mutant of ReadAgain: EWOULDBLOCK is taken for the end of the stream.
ReadAgainStops(s) ==
  /\ pc = s /\ Unread(s) = 0 /\ s \in open
  /\ pc' = "loop" /\ LogDebug /\ watch' = watch \ {s} /\ SHUTDOWN' = TRUE
  /\ UNCHANGED <<client, socket, process, pipes, inHand, SIO_count>>

\* EWOULDBLOCK: the unended rest in the callback's buffer is forgotten.
\* stdout's LogDebug has cleared errno, stderr's callback leaves it set.
ReadAgain(s) ==
  /\ pc = s /\ Unread(s) = 0 /\ s \in open
  /\ pc' = "loop" /\ errno' = IF s = "out" THEN "0" ELSE "EAGAIN"
  /\ UNCHANGED <<client, socket, process, pipes, inHand, globals>>

ReadRest(s) ==
  /\ pc = s /\ Unread(s) = 0 /\ s \notin open /\ mark < rd[s]
  /\ SendLine(s, rd[s]) /\ mark' = rd[s]
  /\ UNCHANGED <<script, sent, got, process, pipes, pending, line, globals>>

\* Mutant of ReadEof: the watcher of an ended stream stays active.
ReadEofKeepsWatch(s) ==
  /\ pc = s /\ Unread(s) = 0 /\ s \notin open /\ mark = rd[s]
  /\ pc' = "loop"
  /\ IF s = "out" \/ errno # "EAGAIN" THEN SHUTDOWN' = TRUE /\ LogDebug
                                      ELSE UNCHANGED <<SHUTDOWN, errno>>
  /\ UNCHANGED <<client, socket, process, pipes, inHand, watch, SIO_count>>

\* read() = 0 does not set errno: a stale EWOULDBLOCK hides the end of stderr.
ReadEof(s) ==
  /\ pc = s /\ Unread(s) = 0 /\ s \notin open /\ mark = rd[s]
  /\ pc' = "loop"
  /\ IF s = "out" \/ errno # "EAGAIN"
       THEN watch' = watch \ {s} /\ SHUTDOWN' = TRUE /\ LogDebug
       ELSE UNCHANGED <<watch, SHUTDOWN, errno>>
  /\ UNCHANGED <<client, socket, process, pipes, inHand, SIO_count>>
-----------------------------------------------------------------------------
FromClient == \/ Invoke("sock", "recv")
              \/ \E n \in 1..(sent - got) : Recv(n)
              \/ RecvEof \/ RecvError \/ Reply \/ WriteStdin

FromChild(s) == \/ Invoke(s, s)
                \/ ReadPiece(s) \/ ReadAgain(s) \/ ReadRest(s) \/ ReadEof(s)

Thread == \/ MakeChild \/ Poll \/ ChildExit \/ IdleStop \/ IdleCheck
          \/ FromClient \/ FromChild("out") \/ FromChild("err")

Environment == \/ ClientSend \/ ClientLeave
               \/ \E s \in Streams, nl \in BOOLEAN : AppWrite(s, nl)
               \/ \E n \in 1..(Len(fed) - taken) : AppRead(n)
               \/ \E s \in Streams : AppClose(s)
               \/ AppExit \/ KernelReleasesApp

Next == Thread \/ Environment

Spec == Init /\ [][Next]_vars

\* The session's process is scheduled, and the kernel finishes what an
\* exiting process began.  Nothing obliges the client or the application.
FairSpec == Spec /\ WF_vars(Thread) /\ WF_vars(KernelReleasesApp)
-----------------------------------------------------------------------------
(* Safety. *)

\* The lines of the first n frames: texts, and cli_exit for a closing frame.
Lines(n) ==
  LET kept == Without([i \in 1..n |-> i],
                      {i \in DOMAIN script : script[i] \notin {"text", "empty", "close"}})
  IN  [i \in DOMAIN kept |-> IF script[kept[i]] = "close" THEN CliExit ELSE kept[i]]

\* Whenever the session is not handling the client, the application has been
\* given exactly the lines of the frames received: none lost, doubled or
\* swapped, by one recv() per frame (SOCKET_FromClient_Event).
InputKept == pc \in {"loop"} \cup Streams => fed = Lines(got \div 2)

\* All of a text was received; an empty one is complete with its header.
Arrived(f) ==
  \/ script[f] = "text" /\ 2 * f <= got
  \/ script[f] = "empty" /\ 2 * f - 1 <= got

\* However recv() cuts the byte stream, a text frame reaches the application
\* at most once, whole, in the client's order and not before it was received.
InputOrder ==
  \A i \in DOMAIN fed : fed[i] > 0 =>
    /\ Arrived(fed[i])
    /\ \A j \in 1..(i - 1) : fed[j] < fed[i]

\* cli_exit is told to the application only after the client's closing frame
\* was answered, as long as the connection stood.
CloseAnswered ==
  sockOpen /\ (\E i \in DOMAIN fed : fed[i] = CliExit)
    => \E i \in DOMAIN toClient : toClient[i] = CloseFrame

Relayed == {i \in DOMAIN toClient : toClient[i] # CloseFrame}

\* The client gets the application's lines in order, each in a frame of its
\* own: no piece twice, no two lines in a frame, and every line that the
\* session read to its newline is sent while the connection stands.
LineIntegrity ==
  /\ \A i \in Relayed :
       /\ toClient[i].from <= toClient[i].to /\ toClient[i].to <= rd["out"]
       /\ \A k \in toClient[i].from..(toClient[i].to - 1) : ~wlog["out"][k]
       /\ \A j \in Relayed : i < j => toClient[i].to < toClient[j].from
  /\ sockOpen /\ pc # "killed" =>
       \A k \in 1..rd["out"] : wlog["out"][k] => \E i \in Relayed : toClient[i].to = k

\* A stream's watcher is stopped only once the application can write no more
\* to it and everything it wrote was read (the two EOF branches).
StoppedDrained ==
  app # "none" => \A s \in Streams \ watch : s \notin open /\ Unread(s) = 0

\* Idle stops the loop only with nothing of the application's output left in
\* a pipe, if the application closes its streams by exiting.
DrainedAtExit ==
  pc = "exited" /\ EarlyClose = {} => \A s \in Streams : Unread(s) = 0

\* Idle never ends the session under a running application that has kept its
\* stdout and stderr open.
ExitJustified == pc = "exited" /\ app = "running" => open # Streams

\* A session whose client sends frames one by one, none of them long, fails an
\* assertion only over something that the application wrote to stderr.
AbortCause ==
  pc = "aborted" /\ ~Split /\ ~Pipelined /\ (\A i \in DOMAIN script : script[i] # "long")
    => rd["err"] > 0

\* The child count is 1 until the application's end was noticed: by the
\* callback, or by Idle's second waitpid() after its first one reaped it.
CountTracksApp ==
  /\ pc = "start" => app = "none"
  /\ pc # "exited" /\ app = "none" => SIO_count = 0
  /\ pc # "exited" /\ app \in {"running", "closing", "closed", "zombie"} => SIO_count = 1
  /\ pc # "exited" => SIO_count >= 0 \/ app = "reaped"
-----------------------------------------------------------------------------
(* The promise about the application's stdout, which the session keeps. *)

OutRelay == INSTANCE LineRelay WITH
  log    <- wlog["out"],
  closed <- "out" \notin open,
  taken  <- rd["out"],
  start  <- IF pc = "out" THEN mark ELSE rd["out"],
  shown  <- {toClient[i] : i \in DOMAIN toClient} \ {CloseFrame},
  link   <- sockOpen /\ peer \in {"open", "fin"}

\* Through a loop that handles three watchers in any order, and a connection
\* that may break at any moment, stdout is relayed as LineRelay promises: a
\* frame is sent exactly when a line or the rest of an ended stream is read.
RelaysOutput == OutRelay!Spec
-----------------------------------------------------------------------------
(* Inductive strengthenings of the safety properties. *)

\* How a session comes to its end: which streams an application in each state
\* can still hold, and that a Poll which found nothing ready, in a session
\* about to stop, left nothing in the pipes.
Ending ==
  /\ app = "none" => /\ watch = {} /\ open = {} /\ \A s \in Streams : Unread(s) = 0
                      /\ ~sigchld /\ pending \subseteq {"idle"}
                      /\ pc \in {"start", "loop", "exited"}
  /\ \A s \in Streams \ open :
       \/ s \in EarlyClose \/ app \in {"none", "closed", "zombie", "reaped"}
       \/ s = "out" /\ app = "closing"
  /\ app \in {"closed", "zombie", "reaped"} => open = {}
  /\ app = "closing" => "out" \notin open
  /\ SHUTDOWN => app # "none" /\ watch # Streams
  /\ "idle" \in pending => pending = {"idle"} /\ pc = "loop"
  /\ "idle" \in pending /\ Stopping /\ EarlyClose = {} /\ app # "none" =>
       "out" \notin open /\ \A s \in Streams : Unread(s) = 0

\* The line in hand between recv() and write() is newer than all lines given
\* to the application; a cli_exit in hand follows the reply to its frame.
InHand ==
  /\ pc = "write" /\ line > 0 =>
       /\ Arrived(line)
       /\ \A i \in DOMAIN fed : fed[i] < line
  /\ pc = "write" /\ line = CliExit /\ sockOpen =>
       \E i \in DOMAIN toClient : toClient[i] = CloseFrame
  /\ pc = "reply" => line <= 0
-----------------------------------------------------------------------------
(* Liveness, and what the repository says of the program that it does not do. *)

\* Idle is there to stop the program: once the application is gone, or could not
\* be started, the session ends, unless it waits in recv() for a connected client
\* to go on after a frame that was not a line.
SessionEnds ==
  app \in Gone \/ (app = "none" /\ pc # "start")
    ~> pc \in Ended \/ (pc = "recv" /\ got = sent /\ peer = "open")

\* A closing frame is told to the application, also when the reply to it cannot be
\* sent, unless the session ends, stands before a full stdin pipe, or had closed
\* the socket over another send() before it could read the frame.
CloseTold ==
  (sent = 2 * Len(script) /\ script # << >> /\ script[Len(script)] = "close")
    ~> \/ pc \in Ended
       \/ \E i \in DOMAIN fed : fed[i] = CliExit
       \/ pc = "write" /\ Len(fed) - taken = PipeCap
       \/ ~sockOpen /\ got < sent
=============================================================================
