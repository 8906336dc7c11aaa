# Slang I/O: a verification project

Slang I/O lets a program that knows only stdin, stdout and stderr talk to a web
browser: a server accepts connections and starts one process per client, which
answers the WebSocket opening handshake, starts the application and relays
between the two. These modules model that system as the C code in `src/` does
it, check it with TLC, and prove the central safety properties with TLAPS.

## The system

| part | code | state it keeps | what it does |
|---|---|---|---|
| connection server | `slangio_server.c` | the table `NewConns`, its descriptors, one detached thread per connection | `main` scans for a free slot, accepts into it and starts a thread on the slot's address; the thread copies the descriptor, forks a daemon through an intermediate process, closes the server's copy of the socket and zeroes the slot |
| opening handshake | `slangio_main.c` `main`, `websocket.c` | the request buffer, `struct handshake` | receives the HTTP request, answers 101 (or 404 and 101, or 400), sends three greeting frames |
| session relay | `slangio_main.c` from `MakeChild` | three pipes, the line being read, `SIO_count`, `SHUTDOWN`, the active watchers, `errno` | a libev loop with callbacks for stdout, stderr, the client's socket and the child's end, and an idle callback that decides to stop |
| frame codec | `websocket.c` | none | parses an input frame, makes an output frame |
| line readers | `slangio_main.c` `*_Actual_Read`, `*_GetNextLine` | a buffer per stream | cut the application's output into lines |
| example application | `appmain.c` | `SHUTDOWN`, stdio's buffer | echoes its stdin line by line until `ev://cli_exit/` |
| helpers | `libslangio.c`, `sha1.c`, `base64_enc.c` | `errno` | logging, `writen`, the accept key |
| examples and tools | `application.cob`, `security.cob`, `client.html`, `wsclient.html`, `browser.c`, `build_test.sh` | | not part of the running system, or unusable by the repository's own account |

How they interact: the server and its threads share `NewConns` and the
descriptor table without a lock; server and daemon share a socket through
`fork`; the relay and the application share three pipes and `SIGCHLD`; the relay
and the client share a TCP connection; the relay's callbacks share the globals
and, less visibly, `errno`, which every `Log...` call sets to 0.

What is hard: threads and the accepting loop interleave on a table whose free
mark is 0; every `fork` copies every open connection; `recv` returns any part of
a byte stream to code that takes it for one frame; callbacks run in any order
with the application's writes, its exit and the reaping of its process; sends
fail once and then raise SIGPIPE; a write to a full pipe blocks the only thread;
the loop stops only from an *idle* watcher. `PROJECT.json` lists these hazards
at their lines.

What makes each part correct: the server never confuses two clients and closes
what it opened; the handshake answers before anything else, a right request once
and with the right key; the codec's answers are those the relay can live with;
the line readers keep nothing back; the relay loses, doubles and reorders nothing, leaves
no output behind, does not end under a healthy application, and does end after a
finished one; the example application and the session never wait for each other.

## Modules

| module | models | constants |
|---|---|---|
| `SlangServer` | `slangio_server.c`: the accept loop, `Client_Thread`, the intermediate process and the daemon up to `slangio_main`'s exit | slots, descriptors, calls of `accept`, the table's initial contents, what may fail |
| `Handshake` | `slangio_main` up to `MakeChild` | the requests, the buffer's size |
| `Sha1Block` | `sha1_nextBlock`: the 80 rounds, on words of 32 bits | |
| `BlockHash` | the rest of `sha1.c`: how a message is cut into blocks and ended, and the standard's padding; extends `Sha1Block` | |
| `Base64` | `base64_enc.c`, and the standard's decoding | |
| `AcceptKey` | the key of the answer 101; extends `Handshake`, `BlockHash` and `Base64` | |
| `Lists` | a sequence without the elements of a set, used by `Session` and `EchoSession` | |
| `Frames` | the kinds of client frames and what `SOCKET_FromClient_Event` may make of one `recv` | |
| `WsFrame` | `wsParseInputFrame`, `getPayloadLength`, `wsMakeFrame` at the level of bytes | the client's frames, sizes of `recv`, lengths of lines, `BUF_LEN` |
| `LineRelay` | abstract: what a session promises about one output stream | |
| `LineReader` | `STDOUT_Actual_Read`, `STDOUT_GetNextLine` and their callback, character by character | buffer and prefix sizes, the longest line, characters |
| `Session` | `slangio_main` from `MakeChild` to its end, with client, network, application and kernel as environment | what the client may send, what the application may do, bounds |
| `EchoSession` | `appmain.c` composed with `Session` | lines of the banner |
| `MCSlangServer`, `MCHandshake`, `MCWsFrame`, `MCLineReader`, `MCSession`, `MCEchoSession` | values of the constants for TLC | |
| `SlangServerProofs`, `HandshakeProofs`, `WsFrameProofs`, `LineReaderProofs`, `SessionProofs`, `RelayProofs`, `EchoProofs` | theorems | |
| `ListProofs` | induction on numbers, and the facts about `Lists` | |

How they fit: `WsFrame` shows that the operator `Parse` of `Frames` allows every
answer the parser gives to a piece of the byte stream; `Session` uses the same
`Parse` for its coarser pieces. `LineRelay` is the promise about output, and both
`LineReader` (characters, buffers) and `Session` (pieces, three watchers, a
connection that breaks) implement it: `LineReader!RelaysLines` and
`Session!RelaysOutput` instantiate it with a refinement mapping. `EchoSession`
extends `Session` and puts a real application in the place of the free one.

**SlangServer.** `mpc` is the main thread (`scan`, `accept`, `spawn`), `wpc[k]`
the thread of the k-th `accept`, `pid0[k]` and `daemon[k]` the two processes it
leads to. The scan looks at one slot per step because threads zero slots
meanwhile. `fds` is the server's descriptor table, by connection number, so
that a number used again is not the same connection; `held[k]` are the sockets
of a child process, copied from `fds` by `Fork`, cut down by `SetUp`. `returned`
and `overflowed` are history. Not followed: the copies of sockets the
intermediate process still holds as a zombie's ancestor (it exits at once), and
standard descriptors, which are the one entry 0.

**Handshake.** A request is a record of what the code asks of it; the lengths of
field values are numbers because `getUptoLinefeed` keeps them in eight bits
(`Stored`). Versions and keys that would not fit the fixed buffers they are
copied to are excluded by `RequestsAssumption`.

**AcceptKey, BlockHash, Base64, Sha1Block.** Bytes are numbers, 32-bit words
functions from bit positions to bits, the highest first: rotations and bitwise
operations are then plain functions, and only `Plus`, which adds the halves of
two words with the carry and drops the rest as `uint32_t` does, takes words for
numbers (`HalfAt`). `Round` works on the 16 words that the code
overwrites one by one, `LastBlock` keeps the two cases of `sha1_lastBlock`, and
`Char` those of `base64enc`'s last group. The references (`Padded` and `Digest`,
`Decoded`) are the standards' padding and decoding, written without them.
The rounds themselves are anchored by the example of RFC 6455, 1.3
(`ExampleAnswered`).

**WsFrame.** The client's stream is a sequence of frames without an end; `frame`
and `off` are where the next `recv` begins. A byte is its place in its frame; of
its value only the header's fields are kept, and when a `recv` begins inside a
frame the bytes there may look like any header of `Inside`. `last` records the
kind of frame, how the `recv` cut it, and what the callback makes of it.

**LineReader.** A character is its place in the stream. `STDOUT_cnt`,
`STDOUT_ptr` and `STDOUT_buf` are the static variables, `line` is the callback's
buffer, `received - STDOUT_cnt` the characters taken. The readers of stderr are
the same code over other names; those of `SOCKET_` are never called.

**Session.** `pc` is the one thread: in the loop, in a callback for a stream, in
`recv`, about to reply, about to write to the application, or ended (`exited`
normally, `aborted` by an assertion, `killed` by SIGPIPE). The environment moves
between its steps. Data are abstracted to what the properties tell apart: a
client frame is its number and kind, and two halves on the wire, so that a
`recv` can end inside a frame, at its end, or frames later; output is a log of
pieces of which some end in a newline, `rd` how many the session read, `mark`
where the current line began; `toClient` records for each frame sent which
pieces it carries. `Poll` is one iteration of the loop: the ready events, or,
only if there are none, the idle callback. `errno` has three values because the
end of stderr is told from "try again" by it; of the log functions
(`libslangio.c`) only their reset of it is kept. An application is any program:
it writes, reads, closes streams and exits as the constants allow. A failed
`execvp` is one that exits at once. `fork` and `ev_child_start` are one step, but a
SIGCHLD may be lost that comes before the loop has handled anything
(`MaybeUnwatched`): libev catches none before `ev_child_start`, and Idle's
`waitpid` has to find the child.

**EchoSession.** `at` is appmain's place, `hand` the line `fgets` returned, `said`
what each piece of stdout echoes. `ReadStdin` takes everything that is in the
pipe and keeps the first line, because stdio reads all of it and the next
`__fpurge` throws the rest away. A `patient` client sends only when it has seen
the banner and every echo it is owed.

Definitions called "Mutant of ..." are plausible mistakes in the code; each
property of a passing run is violated when its mutant takes the place of the
definition (`PROJECT.json`, "mutants"). They are no part of the model.

## Runs

| run | question | bounds | result |
|---|---|---|---|
| `relay` | With a client that stays and sends one frame at a time: is all input and output relayed, and does the session end after its application, or without one? | three scripts of 2 or 3 frames, with a ping and a refused frame among them; 3 pieces on the two output streams, complete or not; pipes of 2; `fork` may fail | `InputKept`, `DrainedAtExit`, `CountTracksApp`, `Ending`, `AbortCause`, `SessionEnds` hold |
| `wire` | What if frames run together or are cut, the client half-closes or resets, and the application closes stdout early? | scripts with frames of every kind but a ping, any cut at half frames; 2 pieces on both streams; pipes of 1 | `TypeOK`, `InputOrder`, `CloseAnswered`, `InHand`, `LineIntegrity`, `StoppedDrained`, `ExitJustified`, `RelaysOutput` hold |
| `echo` | Do two loops over two pipes work together? | a banner of 5 lines, three scripts of 3 or 4 frames, pipes of 2, a client that types ahead or waits, and may leave; `fork` may fail | `EchoTypeOK`, `EchoKept`, `OneLineAhead`, `EchoReturns`, `CloseEndsBoth`, `CloseTold` hold |
| `reader` | Does a character or a line get stuck in the reader's buffers? | buffers of 5, lines of up to 3, 8 characters, any division into `read`s | `TypeOK`, `NothingHeld`, `Consecutive`, `RelaysLines`, `LineShown` hold |
| `frame` | Which answers does the parser give, wherever a `recv` begins and ends? | frames of 0, 1, 125, 126, 256, 257, 65536 bytes, every opcode; `recv`s of 1 to 12 bytes, of the sizes where long frames end, and of a full buffer of 300; lines of 12 lengths up to 65535 | `ParseSound`, `LineReadable` hold |
| `opening` | Is a request answered before any frame and with the right key, and is the opening over when it should be? | a good request, one longer than the buffer, and every single defect; values of 0, 24, 256, 280 characters, keys of 11 lengths; arrival in up to 3 segments | `Orderly`, `Upgraded`, `AcceptKeyRight`, `ExampleAnswered`, `OpeningEnds` hold |
| `slots` | Do threads and daemons meet only their own socket, and is every socket and slot released and found again? | 2 slots with any contents, 2 connections, 2 descriptors, all failures | `TypeOK`, `SlotExclusive`, `OwnClientOnly`, `SocketsKept`, `SlotReturned`, `Bookkeeping`, `Released` hold until a scan finds no free slot; `FreeSlotFound` holds |
| `eof` | The end of a session when the client ends the TCP connection | no frame, one piece | `SessionEnds` is violated |
| `typeahead` | Input from a client that does not wait | two or three frames | `InputKept` is violated |
| `long` | A whole text frame of 126 bytes or more | lengths 126 and 257 | `LongDelivered` is violated |
| `split` | A good request in two segments | one request of two pieces | `OpeningAsserted` is violated |
| `servitude` | A table with no zero in it | 2 slots, 2 connections | `InServitude` is violated |

Why these bounds are enough to be interesting: two frames in a buffer, a pipe
that is full, a line that needs two pieces, an unended rest before and after a
line, two streams that end in either order and a zombie reaped by either
`waitpid` all occur within `relay` and `wire`;
in `echo` the reply to a closing frame can fail, both pipes can be full
at once (a banner of 5 lines against pipes of 2) and the client can be three
lines ahead; in `reader` a buffer ends inside a line, at its end and before a
newline, and is filled again two times; in `frame` the sizes lie on both sides of
every comparison of the parser, and the payload of 257 bytes is the one whose
16-bit length is the same in either byte order; in `opening` the keys end the
hashed message on both sides of each boundary of SHA-1's last block and of a
block, up to the longest key whose length fits the code's eight bits. On the
server's side two slots and two descriptors already give number reuse between
`close` and the zeroing of the slot. The proofs below remove the bounds for the
safety properties they cover.

Named bounds: `Tokens` (pieces written) and `PipeCap` (pieces or lines in a pipe)
in `Session`; `Characters` in `LineReader`; `Attempts` and `MaxFd` in
`SlangServer`; `RecvSizes`, `Places` and `Inside` in `WsFrame`, whose constraint
`Near` in `MCWsFrame` stops following a frame after its first 24 bytes, since
the parser cannot see how far inside it begins, and sends each line from one
state only.

`CHECK_DEADLOCK FALSE` is in every configuration because the modelled programs
do stop: a session exits, an opening ends, an application writes no more, a
failed assertion ends the parser, the server's main thread waits in `accept`
once the bounded number of connections is used up. The properties of `slots`
say themselves that their promise ends at the first overflow.

### What the violations say

* `eof`: `recv` returning 0 leaves the watcher active, the descriptor stays
  readable, and libev's idle watchers never run again: the process spins, and
  outlives its application (`slangio_main.c:317`).
* `typeahead`: two frames in one `recv` are "incomplete" and both discarded
  (`websocket.c:332`, `slangio_main.c:346`).
* `long`: the 16-bit length is not converted from network order, so no text frame
  of 126 bytes or more is taken for what it is (`websocket.c:279`); the one length
  in 256 that survives gives the application a line that begins two bytes early.
* `split`: the loop that is there to read on asserts after the first `recv`
  that the request is complete (`slangio_main.c:744`).
* `servitude`: `NewConns` is not initialised; with no zero in it all connections
  go through one slot (`slangio_server.c:200`).

Two more disagreements are reached in passing runs, as the one exception that a
property makes:

* a line on stderr aborts the session: `STDERR_to_Socket` announces an output
  buffer of length 0, which `wsMakeFrame` asserts against (`slangio_main.c:117`,
  `websocket.c:224`), while `README.md:21` of the repository counts stderr among
  the streams served. `AbortCause` (`relay`) says that no other assertion ends the
  session of a client that waits and sends short frames;
* a request for another resource than `/echo` is told 404 and then sent the 101
  in the same stream (`slangio_main.c:752`), while the comment at line 747 gives
  the answer to the right resource only. `Orderly` (`opening`) says that no other
  request gets two answers.

Seen while modelling, in the modules, without a run of their own:

* the verdict of the request's check is overwritten by the next statement
  (`websocket.c:180`), so a request without `Upgrade: websocket` is upgraded;
* after a 400 the program goes on to greet the client and start the application;
* a ping or binary frame leaves the callback in a blocking `recv`, so that
  nothing is relayed until the client sends again;
* output without a newline that was read before a pause is forgotten (`Forget` in
  `LineRelay`); appmain's `ev://app_exit/` has no newline, and is shown only when
  appmain's exit is noticed in the same callback;
* a connection whose `pthread_create` failed keeps its socket and slot for ever
  (`slangio_server.c:54`);
* one output stream closed early ends the session of a running application;
* a client of appmain that types ahead loses lines in `__fpurge`
  (`appmain.c:38`); when one of them is `ev://cli_exit/` nothing ends;
* appmain at the end of its stdin goes on echoing nothing (`appmain.c:40`).

## Fairness

`Session!FairSpec` assumes that the session's process is scheduled
(`WF_vars(Thread)`; a blocked `recv` or `write` disables the thread, so weak
fairness asks nothing of a blocked process) and that the kernel finishes the exit
of a process that began it. Nothing obliges the client to send or the application
to read, write or exit. Inside an iteration the pending callbacks are invoked in
any order, each once, before the next `Poll`, so no fairness among callbacks is
needed. `Handshake!FairSpec` assumes the same of its process, `LineReader!FairSpec`
of the reader. `EchoSession!EchoSpec` assumes it of the session's process, of
appmain's and of the kernel; a write to a full pipe disables its process until
the other one reads. `SlangServer!FairSpec` assumes it of the main thread outside
`accept`, of every client thread and of every child process until it runs
`slangio_main`.

## Proofs

All theorems hold for every value of the constants that satisfies the modules'
assumptions; these are the types of the constants, for `Session` that a closing
frame is the last of a script, for `WsFrame` that control frames are short and
the buffer holds a header but not 65536 bytes, and for `LineReader` that a line
with its prefix fits the buffer, for `EchoSession` that there is a banner and
stdout may be written. One hypothesis is stated by the theorems that need it:

* `Plain`: the client waits until its last frame was read, over a connection
  that does not cut frames, and sends none of 126 bytes or more. The runs
  `typeahead` and `long` show that the promises fail without it; the runs
  `relay` and `echo` are instances of it.
* `SessionProofs!TypeCorrect`, `CountIsRight`: `TypeOK` and `CountTracksApp` are
  inductive together: that `SIO_count` stays in -1..1 needs to know that only an
  unreaped application is counted.
* `EndsProperly`, `StoppedIsDrained`, `ExitIsDrained`, `ExitIsJustified`: from
  `EndInv`, in which `Ending` adds to the three properties what makes them
  inductive: which streams an application can still hold in each stage of its
  exit, and that a `Poll` that found nothing ready in a session about to stop
  left nothing unread, so that `Idle` may stop later without looking again. The
  point of the argument is that the exit closes stdout first and raises SIGCHLD
  last, and that nothing can be written in between.
* `InputIsOrdered`, `CloseIsAnswered`, `LineInHand`: from `InputInv`, which adds
  `InHand` to `InputOrder` and `CloseAnswered`: the line between `recv` and
  `write` is newer than all lines given to the application, and a `cli_exit` in
  hand has been answered. It holds however `recv` cuts the stream.
* `AbortsOverStderr`: `AbortCause`, from `Paced`: a client that waits, over a
  connection that does not cut its frames, has at most one frame under way, and
  all of it.
* `NothingLost`, `InputIsKept`: under `Plain`, from `Paced` and `Given`, which says
  for each place of the thread how the application's input differs from the lines
  of the frames received: not at all in the loop, by the line in hand before
  `write`, by an answered `cli_exit` before the reply. It needs what
  `Lines` does when one more frame is received, and so what `Without` does when
  one more element is appended (`ListProofs!WithoutAppend`).
* `RelayProofs!OutputIsRelayed`: `Spec => RelaysOutput`. Each step of the session
  is a step of `LineRelay` or changes nothing it sees: a `SafeSend` shows its
  frame exactly if the link is up and never changes the link (`SendShows`), and
  the application's streams open only while nothing was written (`Fresh`).
* `RelayProofs!LinesStayWhole`: `LineIntegrity`, from `LineInv`: the frames of
  lines lie behind the start of the current line, in order (`RelayedFrames`);
  the current line has no newline yet (`Unended`); every newline read has its
  frame (`NoneMissing`).
* `EchoProofs!EchoIsSession`: `EchoSpec => Spec`. Each step of appmain over its two
  pipes is one that `Session` allows an application, so that every theorem above
  holds of the pair. `EchoTypes`, `EchoIsKept` and `WritesNeverMeet` are built on it:
  `EchoTypeOK`, and under `Plain` `EchoKept` and `OneLineAhead`. The invariant of the
  two last, `EchoInv` (`EchoInvariant`), relates the four places where
  a line can be. `OneByOne`: the frames sent show one piece of stdout each, in turn;
  `Pieces`: every piece is a line but appmain's last word; `Counted`: nothing read is
  unsent while the link stands; `Echoed`: behind the banner come lines appmain was
  given, in their order, with the line in hand behind them; `AllEchoed`: a patient
  client has at most one line on its way, so `__fpurge` throws nothing of it away.
  `OneLineAhead` follows with `Given`: when the session is about to write a line, the
  lines of the frames received are those appmain was given and that one, so
  appmain has taken all others, and the write finds an empty pipe. It is what
  keeps the two loops from waiting for each other in `write`, the session for
  appmain's stdin and appmain for its own stdout, however small the pipes are; a
  client that types ahead can bring them to it.
  `EchoInv` was first checked by TLC, on the instance of the run `echo`.
* `LineReaderProofs!Inductive` and from it `TypeCorrect`, `NothingIsHeld`,
  `CharactersInOrder`, and the refinement `LinesAreRelayed`. `IInv` says that the
  buffer holds the next characters of the stream (`BufferRight`), the line the
  last ones taken, without a newline before its end (`LineRight`), and that no
  line of the log is too long (`LinesFit`); the bound on the callback's buffer
  follows from the two last.
* `WsFrameProofs!TypeCorrect`, `CodecSound`, `FramesAreReadable`: for every length
  and every place where a `recv` begins and ends, by cases on the header's code
  and the shape of the cut. (The types of `WsFrame` and `Handshake` are proved and
  not checked by a run of their own.)
* `HandshakeProofs!TypeCorrect`, `AnswersFirst`, `UpgradeIsEarned`. The strengthening
  `OpeningInv` says what `toClient` holds at each point of `main`.
* `DigestIsPadded`: `Sha1(msg) = Digest(msg)` for every message (only
  below 8192 bytes does it have the two bytes of length that the model has). The
  blocks before
  the last are the same by induction on their number (`SameBlocks`,
  `AfterAgrees`); for the last, or the last two, every byte of what
  `sha1_lastBlock` makes is compared with the byte of the padded message at its
  place (`PaddedBytes`, `LocalBytes`), on both sides of the limit of 448 bits.
* `Base64Decodes`: `Decoded(Base64enc(src)) = src` for all bytes `src` but none. Four
  characters tell the three bytes they were made of (`FourAreThree`), the number
  of `=` how many of them there are (`Tells`).
* `AcceptKeyIsRight`: `AcceptKeyRight`, from the two, the type of the key's length
  and `CompressType`: a block of 64 bytes makes words of words. For it every
  operation on words keeps their type (`PlusType`, `RotlType`, `BitwiseType`,
  `MixType`), hence a round does (`RoundType`), hence by induction all 80
  (`TurnsExist`, `RoundsType`).
* `SlangServerProofs!SlotsAreKept`, `SlotsAreExclusive`, `SocketsAreKept`,
  `DaemonsAreIsolated`: from `IndInv`, in which `Bookkeeping` says what main
  relies on between finding a slot and starting the thread, and a thread between
  reading its argument and closing the socket: the slot main fills is zero and
  no thread's, and each thread's copy is the descriptor its own `accept`
  returned.
* `SlotsAreReturned`: `SlotReturned`, inductive with `IndInv`. A later connection in
  the slot of an ended thread must be told from one whose number only happens to
  be the same (two failed `accept`s are both -1, and a descriptor is used again
  before its slot is zeroed): hence the clause on `slot` and, between `accept` and
  `pthread_create`, on `ncptr`.
* `FreeSlotsAreFound`: the action property `FreeSlotFound`, by cases on the steps:
  the threads only free slots, and main's scan passes none that is free.

Induction: the library's theorems take a predicate, which the provers cannot
instantiate. `ListProofs!Induction` takes a set of numbers instead, and is proved
from the well-foundedness of finite sets under inclusion; `RestExists`,
`ChainExists` and `TurnsExist` build with it the recursive functions that `Without`,
`After` and `Rounds` are defined by.

Only model-checked: `ExampleAnswered`, which computes 160 rounds on given words
(what the rounds compute is proved of no other value than their type); and all
liveness (`SessionEnds`, `CloseTold`, `EchoReturns`, `CloseEndsBoth`, `LineShown`,
`Released`, `OpeningEnds`), as the proof system does not reach fairness.

## Not modelled

* Output lines that with their prefix and the final zero exceed `BUFFSIZE`
  (2048): from 2041 bytes on, the newline included, `sprintf` writes past its
  buffer. Values longer than their fixed buffers.
* A text frame whose payload holds a newline, or is itself `ev://cli_exit/`: the
  application would read two lines, or the word that the session uses for the
  client's closing frame.
* The values of payload bytes, and so the masking itself.
* A client that does not read: `send` is always accepted whole by an open
  connection.
* Failures of `pipe`, `fcntl`, `malloc` and of the server's `socket`, `bind`,
  `listen`; an application that closes its stdin, or goes on after its session.
* A session whose socket was closed by a failed send of the greeting:
  `Session` begins with an open socket.
* `browser.c` (by the repository's own account neither needed nor usable), the
  COBOL and HTML examples (`Session` takes any client and any application), the
  build script, and of `libslangio.c` the formatting, syslog, bit printers and
  account helpers.

## What could come next

1. How many threads may live at once before a scan can find no free slot: with
   `SlotReturned` and `FreeSlotFound` a matter of counting, for a table that is
   zeroed first.
2. A client that stops reading: `send` that blocks, and its effect on the pipes.
