----------------------------- MODULE Handshake -----------------------------
(***************************************************************************)
(* The opening of a session: slangio_main from its first recv() to the     *)
(* greeting that precedes MakeChild.  getSocket has found the one socket   *)
(* that session_init left open (SlangServer!OwnClientOnly).                *)
(*                                                                         *)
(* Data abstraction.  The client's request is a record:                    *)
(*   size     pieces it may arrive in; a recv() returns one or more        *)
(*   get      it begins with "GET "                                        *)
(*   echo     its resource is "/echo"                                      *)
(*   length   the length of the value of each field that is present        *)
(*   wrong    the fields whose value is not the one the protocol asks for  *)
(* toClient lists what the transport accepted: the statuses "101", "400"   *)
(* and "404", and "text" for a frame of the greeting.                      *)
(***************************************************************************)
EXTENDS Integers, Sequences

CONSTANTS
  Requests,   \* the requests a client may send
  BufLen,     \* pieces the buffer of main holds
  MayLeave    \* may the client end the TCP connection?

Fields == {"host", "origin", "protocol", "key", "version", "connection", "upgrade"}
Ended == {"quit", "aborted", "killed"}

\* getUptoLinefeed and copyUptoLinefeed keep the length in a uint8_t.
Stored(length) == length % 256

\* Values that fit the fixed buffers they are copied to: two characters of
\* version, a key that leaves room for the 36 characters of the secret.
Fits(r) ==
  /\ "version" \in DOMAIN r.length => Stored(r.length["version"]) <= 2
  /\ "key" \in DOMAIN r.length => Stored(r.length["key"]) <= 219

ASSUME RequestsAssumption == \A r \in Requests :
  /\ r.size \in Nat \ {0} /\ {r.get, r.echo} \subseteq BOOLEAN
  /\ DOMAIN r.length \subseteq Fields /\ \A f \in DOMAIN r.length : r.length[f] \in Nat
  /\ r.wrong \subseteq Fields /\ Fits(r)
ASSUME BufferAssumption == BufLen \in Nat \ {0} /\ MayLeave \in BOOLEAN

VARIABLES
  request, sent,          \* the client's request; the pieces of it on the wire
  peer, sockOpen,         \* the connection, and sockfd, as in Session
  toClient,
  pc, readedLength, key   \* main: where it is, the buffer, hs.key's length or 0

vars == <<request, sent, peer, sockOpen, toClient, pc, readedLength, key>>

TypeOK ==
  /\ request \in Requests
  /\ sent \in 0..request.size /\ readedLength \in 0..sent
  /\ peer \in {"open", "fin", "rst", "dead"} /\ sockOpen \in BOOLEAN
  /\ toClient \in Seq({"400", "404", "101", "text"})
  /\ pc \in {"recv", "refuse", "missing", "answer", "greet", "greet_client",
             "greet_server", "session"} \cup Ended
  /\ key \in 0..255

Init ==
  /\ request \in Requests /\ sent = 0
  /\ peer = "open" /\ sockOpen = TRUE /\ toClient = << >>
  /\ pc = "recv" /\ readedLength = 0 /\ key = 0

Opening == pc \notin Ended \cup {"session"}
-----------------------------------------------------------------------------
(* The client. *)

ClientSend ==
  /\ Opening /\ peer = "open" /\ sockOpen /\ sent < request.size
  /\ sent' = sent + 1
  /\ UNCHANGED <<request, peer, sockOpen, toClient, pc, readedLength, key>>

ClientLeave ==
  /\ Opening /\ MayLeave
  /\ \/ peer = "open" /\ peer' = "fin"
     \/ peer \in {"open", "fin"} /\ peer' = "rst"
  /\ UNCHANGED <<request, sent, sockOpen, toClient, pc, readedLength, key>>
-----------------------------------------------------------------------------
(* wsParseHandshake. *)

\* The test at its end, whose verdict the next statement overwrites.
Complete(r) ==
  /\ {"host", "key", "connection", "upgrade", "version"} \subseteq DOMAIN r.length
  /\ "protocol" \notin DOMAIN r.length
  /\ {"connection", "upgrade", "version"} \cap r.wrong = {}

\* What it returns for the first n pieces.  An empty value, or one whose
\* length is a multiple of 256, fails an assertion.
Parse(r, n) ==
  IF n < r.size THEN "incomplete"
  ELSE IF ~r.get THEN "error"
  ELSE IF \E f \in DOMAIN r.length : Stored(r.length[f]) = 0 THEN "abort"
  ELSE "opening"
-----------------------------------------------------------------------------
(* main: the loop leaves after its first recv(), by every path.            *)

\* An incomplete request that leaves room in the buffer fails the assertion
\* that its type is WS_OPENING_FRAME.
Verdict(type, full) ==
  CASE type = "error" \/ (type = "incomplete" /\ full) -> "refuse"
    [] type = "opening" -> IF request.echo THEN "answer" ELSE "missing"
    [] OTHER -> "aborted"

Recv(n) ==
  /\ pc = "recv" /\ readedLength + n <= sent /\ readedLength + n <= BufLen
  /\ readedLength' = readedLength + n
  /\ LET type == Parse(request, readedLength')
     IN  /\ pc' = Verdict(type, readedLength' = BufLen)
         /\ key' = IF type = "opening" /\ "key" \in DOMAIN request.length
                     THEN Stored(request.length["key"]) ELSE key
  /\ UNCHANGED <<request, sent, peer, sockOpen, toClient>>

RecvEof ==
  /\ pc = "recv" /\ readedLength = sent /\ peer = "fin"
  /\ pc' = "quit"
  /\ UNCHANGED <<request, sent, peer, sockOpen, toClient, readedLength, key>>

\* recv() = -1: the zeroed buffer holds no request, so the assertion fails.
RecvError ==
  /\ pc = "recv" /\ readedLength = sent /\ peer = "rst"
  /\ pc' = "aborted" /\ peer' = "dead"
  /\ UNCHANGED <<request, sent, sockOpen, toClient, readedLength, key>>

\* safeSend, as in Session: accepted, an error that closes the socket, SIGPIPE.
SafeSend(what, ok, failed) ==
  /\ \/ /\ sockOpen /\ peer \in {"open", "fin"}
        /\ toClient' = Append(toClient, what) /\ pc' = ok
        /\ UNCHANGED <<peer, sockOpen>>
     \/ /\ ~sockOpen \/ peer = "rst"
        /\ sockOpen' = FALSE /\ peer' = (IF sockOpen THEN "dead" ELSE peer)
        /\ pc' = failed /\ UNCHANGED toClient
     \/ /\ sockOpen /\ peer \in {"rst", "dead"}
        /\ pc' = "killed" /\ UNCHANGED <<peer, sockOpen, toClient>>
  /\ UNCHANGED <<request, sent, readedLength, key>>

\* Mutant of Refuse: the client is not told.
RefuseSilently ==
  /\ pc = "refuse" /\ pc' = "greet"
  /\ UNCHANGED <<request, sent, peer, sockOpen, toClient, readedLength, key>>

\* 400, and on to the greeting and the application like everyone else.
Refuse == pc = "refuse"  /\ SafeSend("400", "greet", "greet")
Missing == pc = "missing" /\ SafeSend("404", "answer", "greet")

\* Mutant of Answer: wsGetHandshakeAnswer does not ask for a key.
AnswerKeyless == pc = "answer" /\ SafeSend("101", "greet", "greet")

\* wsGetHandshakeAnswer asserts that the request had a key.
Answer ==
  /\ pc = "answer"
  /\ \/ key # 0 /\ SafeSend("101", "greet", "greet")
     \/ key = 0 /\ pc' = "aborted"
        /\ UNCHANGED <<request, sent, peer, sockOpen, toClient, readedLength, key>>

\* Mutant of Greet: a frame that could not be sent is sent again.
GreetRetries(here, next, known) ==
  /\ pc = here
  /\ \/ known /\ SafeSend("text", next, here)
     \/ ~known /\ pc' = next
        /\ UNCHANGED <<request, sent, peer, sockOpen, toClient, readedLength, key>>

\* Three greeting frames; those with an address only if the system knows it.
Greet(here, next, known) ==
  /\ pc = here
  /\ \/ known /\ SafeSend("text", next, next)
     \/ ~known /\ pc' = next
        /\ UNCHANGED <<request, sent, peer, sockOpen, toClient, readedLength, key>>

Greeting ==
  \/ Greet("greet", "greet_client", TRUE)
  \/ Greet("greet_client", "greet_server", sockOpen /\ peer \in {"open", "fin"})
  \/ Greet("greet_server", "session", sockOpen)
-----------------------------------------------------------------------------
Main == \/ \E n \in 1..(sent - readedLength) : Recv(n)
        \/ RecvEof \/ RecvError \/ Refuse \/ Missing \/ Answer \/ Greeting

Next == Main \/ ClientSend \/ ClientLeave

Spec == Init /\ [][Next]_vars

\* The process is scheduled; the client owes it nothing.
FairSpec == Spec /\ WF_vars(Main)
-----------------------------------------------------------------------------
Sent(what) == {i \in DOMAIN toClient : toClient[i] = what}
Answers == Sent("101") \cup Sent("400") \cup Sent("404")

\* However the request arrives and whenever the client leaves, every answer
\* precedes the first frame and a session whose socket stands has one.  There are
\* two only for a request that named another resource: main tells it 404 and goes on
\* to the 101, where its comment has "if resource is right" before the answer.
Orderly ==
  /\ \A i \in Sent("text") : Answers # {} /\ \A j \in Answers : j < i
  /\ \A i, j \in Answers : i < j =>
       ~request.echo /\ toClient[i] = "404" /\ toClient[j] = "101"
  /\ Sent("404") # {} => ~request.echo
  /\ pc = "session" /\ sockOpen => Answers # {}

\* 101 is the answer to a whole GET request with a key that was stored: the
\* overwritten verdict of Complete leaves that much to the other checks.
Upgraded ==
  Sent("101") # {} =>
    /\ request.get /\ readedLength = request.size
    /\ "key" \in DOMAIN request.length /\ key # 0

\* A client that has sent its whole request, or has left, is not kept waiting: the
\* session begins or the process ends, whatever fails on the way.
OpeningEnds == sent = request.size \/ peer # "open" ~> ~Opening

\* What the repository's assertion says, and the code does not.

\* assert(frameType == WS_OPENING_FRAME): what a successful recv() returned of a
\* request in good order parses as an opening.
OpeningAsserted ==
  pc = "aborted" /\ request.get /\ Complete(request) /\ key = 0 =>
    peer = "dead" \/ readedLength = request.size
=============================================================================
