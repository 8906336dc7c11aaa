---------------------------- MODULE EchoSession ----------------------------
(***************************************************************************)
(* A session whose application is appmain, the echo program that comes     *)
(* with Slang I/O.  Session leaves its application free; here its writes,  *)
(* reads and exit are the steps of appmain, and the two loops talk through *)
(* two pipes.                                                              *)
(*                                                                         *)
(* The client is patient, or it types ahead: a patient one waits until all *)
(* that it is owed was shown to it.                                        *)
(*                                                                         *)
(* Data abstraction.  A line is its frame's number, so that no text of the *)
(* client's holds a newline or reads "ev://cli_exit/" itself.              *)
(***************************************************************************)
EXTENDS Session, SequencesExt

CONSTANT Banner  \* lines that main writes before the loop

ASSUME BannerAssumption == Banner \in Nat \ {0} /\ {"out"} \X BOOLEAN \subseteq Writes

VARIABLES
  patient,  \* which client this is
  at,       \* appmain: "main", "loop", "write", "leaving", "over"
  hand,     \* the line that fgets returned
  said      \* for every piece of stdout: the line it echoes, or Hello

appmain == <<at, hand, said>>
echoVars == <<vars, patient, appmain>>

Hello == -2  \* a line of the banner

EchoInit ==
  /\ Init /\ patient \in BOOLEAN
  /\ at = "main" /\ hand = Garbage /\ said = << >>
-----------------------------------------------------------------------------
\* Mutant of Main: one line too many.
MainGreetsOnceMore ==
  /\ at = "main" /\ AppWrite("out", TRUE)
  /\ said' = Append(said, Hello)
  /\ at' = IF Len(said) = Banner THEN "loop" ELSE "main"
  /\ UNCHANGED <<patient, hand>>

Main ==
  /\ at = "main" /\ AppWrite("out", TRUE)
  /\ said' = Append(said, Hello)
  /\ at' = IF Len(said') = Banner THEN "loop" ELSE "main"
  /\ UNCHANGED <<patient, hand>>

\* fgets() fills stdio's buffer with all that is in the pipe and returns the
\* first line; the next __fpurge() throws the others away.
ReadStdin ==
  /\ at = "loop" /\ AppRead(Len(fed) - taken) /\ taken < Len(fed)
  /\ hand' = fed[taken + 1] /\ at' = "write"
  /\ UNCHANGED <<patient, said>>

\* Mutants of Echo: the newline is not echoed; SHUTDOWN is not set.
EchoUnended ==
  /\ at = "write" /\ AppWrite("out", FALSE)
  /\ said' = Append(said, hand)
  /\ at' = IF hand = CliExit THEN "leaving" ELSE "loop"
  /\ UNCHANGED <<patient, hand>>

EchoStays ==
  /\ at = "write" /\ AppWrite("out", hand # CliExit)
  /\ said' = Append(said, hand) /\ at' = "loop"
  /\ UNCHANGED <<patient, hand>>

\* Writen, blocking while the pipe is full: the line, or after cli_exit
\* "ev://app_exit/", which no newline ends; SHUTDOWN follows.
Echo ==
  /\ at = "write" /\ AppWrite("out", hand # CliExit)
  /\ said' = Append(said, hand)
  /\ at' = IF hand = CliExit THEN "leaving" ELSE "loop"
  /\ UNCHANGED <<patient, hand>>

\* Idle stops the loop and main exits.
Leave ==
  /\ at = "leaving" /\ AppExit /\ at' = "over"
  /\ UNCHANGED <<patient, hand, said>>

AppMain == Main \/ ReadStdin \/ Echo \/ Leave
-----------------------------------------------------------------------------
\* What the client was shown of stdout, by what each line echoes.
Answers ==
  LET frames == Without(toClient, {CloseFrame})
  IN  [i \in DOMAIN frames |-> IF frames[i].from = frames[i].to THEN said[frames[i].to] ELSE Garbage]

\* The banner, and an echo of every line the client sent.
Owed == Banner + Len(Without(Lines(sent \div 2), {CliExit}))

TypeLine ==
  /\ patient => Len(Answers) = Owed
  /\ ClientSend /\ UNCHANGED <<patient, appmain>>

LeaveSession == ClientLeave /\ UNCHANGED <<patient, appmain>>

SessionStep == Thread /\ UNCHANGED <<patient, appmain>>
KernelStep  == KernelReleasesApp /\ UNCHANGED <<patient, appmain>>

EchoNext == AppMain \/ TypeLine \/ LeaveSession \/ SessionStep \/ KernelStep

\* Both processes are scheduled; the client need not send anything.
EchoSpec ==
  /\ EchoInit /\ [][EchoNext]_echoVars
  /\ WF_echoVars(AppMain) /\ WF_echoVars(SessionStep) /\ WF_echoVars(KernelStep)
-----------------------------------------------------------------------------
EchoTypeOK ==
  /\ TypeOK /\ patient \in BOOLEAN
  /\ at \in {"main", "loop", "write", "leaving", "over"}
  /\ hand \in -1..Len(script)
  /\ said \in Seq(-2..Len(script)) /\ Len(said) = Len(wlog["out"])
  /\ at = "main" <=> Len(said) < Banner

\* Through both loops the client sees the banner and then its own lines, in
\* order and none twice; a patient client sees all of them.  (The one that
\* types ahead loses lines in ReadStdin, but never gets them mixed up.)
EchoKept ==
  LET echoes == SubSeq(Answers, Banner + 1, Len(Answers))
  IN  /\ \A i \in DOMAIN Answers : i <= Banner <=> Answers[i] = Hello
      /\ \A i \in DOMAIN echoes : echoes[i] # Garbage
      /\ \A i, j \in DOMAIN echoes : i < j /\ echoes[j] # CliExit => echoes[i] < echoes[j]
      /\ patient => IsPrefix(echoes, Lines(sent \div 2))

\* A patient client has one line on its way to appmain: the next one finds the
\* pipe empty, so that the two loops never wait for each other in write(), and
\* __fpurge() throws none away.
OneLineAhead == patient => Len(fed) - taken <= (IF pc = "write" THEN 0 ELSE 1)

\* A patient client that stays gets what it is owed: no line is stuck in a
\* pipe, a buffer or a callback, whatever the loops' interleaving.
EchoReturns ==
  (patient /\ Len(Answers) < Owed)
    ~> (Len(Answers) >= Owed \/ app = "none" \/ peer # "open")

\* A patient client's closing frame ends both processes: cli_exit reaches
\* appmain, its exit reaches the session.
CloseEndsBoth ==
  (patient /\ sent = 2 * Len(script) /\ script # << >> /\ script[Len(script)] = "close")
    ~> (pc = "exited" /\ at = "over") \/ peer # "open"
=============================================================================
