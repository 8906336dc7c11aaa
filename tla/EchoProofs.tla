----------------------------- MODULE EchoProofs -----------------------------
(***************************************************************************)
(* The session and appmain together: what EchoSession's runs check, for    *)
(* every length of the banner, every script, bound and interleaving.       *)
(***************************************************************************)
EXTENDS EchoSession, RelayProofs, SequenceTheorems

USE DEF socket, pipes, inHand, Streams, Ended, Gone, Garbage, CliExit, CloseFrame, LogDebug, Hello

\* A step of the two loops is a step of the session or none: appmain is one
\* of the applications that Session allows.
LEMMA EchoSteps ==
  ASSUME TypeOK, [EchoNext]_echoVars
  PROVE  [Next]_vars
<1>1. CASE Main \/ Echo
  <2>1. \E nl \in BOOLEAN : AppWrite("out", nl)
    <3>1. CASE Main
      BY <3>1 DEF Main
    <3>2. CASE Echo
      <4>1. (hand # CliExit) \in BOOLEAN
        OBVIOUS
      <4>. QED  BY <3>2, <4>1 DEF Echo
    <3>. QED  BY <1>1, <3>1, <3>2
  <2>. QED  BY <2>1 DEF Next, Environment
<1>2. CASE ReadStdin
  <2>1. Len(fed) - taken \in 1..(Len(fed) - taken)
    <3>1. fed \in Seq(-1..Len(script)) /\ taken \in 0..Len(fed) /\ taken < Len(fed)
      BY <1>2 DEF ReadStdin, TypeOK, AppTypeOK
    <3>2. Len(fed) \in Nat
      BY <3>1
    <3>. QED  BY <3>1, <3>2
  <2>. QED  BY <1>2, <2>1 DEF ReadStdin, Next, Environment
<1>3. CASE Leave \/ TypeLine \/ LeaveSession \/ KernelStep
  BY <1>3 DEF Leave, TypeLine, LeaveSession, KernelStep, Next, Environment
<1>4. CASE SessionStep
  BY <1>4 DEF SessionStep, Next
<1>5. CASE UNCHANGED echoVars
  BY <1>5 DEF echoVars
<1>. QED  BY <1>1, <1>2, <1>3, <1>4, <1>5 DEF EchoNext, AppMain

\* Every property of a session holds of one whose application is appmain.
THEOREM EchoIsSession == EchoSpec => Spec
<1>1. EchoInit => Init
  BY DEF EchoInit
<1>2. TypeOK /\ [EchoNext]_echoVars => [Next]_vars
  BY EchoSteps
<1>3. Init => TypeOK /\ CountTracksApp
  BY InitTypes
<1>4. TypeOK /\ CountTracksApp /\ [Next]_vars => (TypeOK /\ CountTracksApp)'
  BY ClientTypes, AppTypes, ThreadTypes, CountKept DEF TypeOK
<1>. QED  BY <1>1, <1>2, <1>3, <1>4, PTL DEF EchoSpec, Spec
\* The variables of appmain keep their types.
LEMMA EchoTypesKept ==
  ASSUME TypeOK, TypeOK', EchoTypeOK, [EchoNext]_echoVars
  PROVE  EchoTypeOK'
<1>0. /\ wlog["out"] \in Seq(BOOLEAN) /\ wlog \in [Streams -> Seq(BOOLEAN)]
      /\ fed \in Seq(-1..Len(script)) /\ Len(fed) \in Nat /\ taken \in 0..Len(fed)
      /\ said \in Seq(-2..Len(script)) /\ Len(script) \in Nat /\ Len(said) \in Nat
      /\ Banner \in Nat \ {0}
  <2>1. Len(script) \in Nat
    BY ScriptType DEF TypeOK, ClientTypeOK
  <2>2. wlog \in [Streams -> Seq(BOOLEAN)] /\ fed \in Seq(-1..Len(script)) /\ taken \in 0..Len(fed)
    BY DEF TypeOK, AppTypeOK
  <2>3. said \in Seq(-2..Len(script)) /\ Len(said) \in Nat /\ Len(fed) \in Nat
    BY <2>2, EntryType DEF EchoTypeOK
  <2>. QED  BY <2>1, <2>2, <2>3, BannerAssumption
<1>1. ASSUME NEW nl \in BOOLEAN, NEW l \in -2..Len(script), AppWrite("out", nl),
             said' = Append(said, l), UNCHANGED patient,
             at' \in {"main", "loop", "leaving"}, hand' = hand,
             at' = "main" <=> Len(said') < Banner
      PROVE  EchoTypeOK'
  <2>1. wlog'["out"] = Append(wlog["out"], nl) /\ UNCHANGED script
    BY <1>0, <1>1 DEF AppWrite, client
  <2>2. said' \in Seq(-2..Len(script)) /\ Len(said') = Len(wlog'["out"])
    BY <1>0, <1>1, <2>1 DEF EchoTypeOK
  <2>. QED  BY <1>1, <2>1, <2>2 DEF EchoTypeOK
<1>2. ASSUME UNCHANGED <<script, patient, said>>, wlog'["out"] = wlog["out"],
             hand' \in -1..Len(script), at' \in {"main", "loop", "write", "leaving", "over"},
             at' = "main" <=> at = "main"
      PROVE  EchoTypeOK'
  BY <1>2 DEF EchoTypeOK
<1>3. CASE Main
  <2>1. Hello \in -2..Len(script) /\ TRUE \in BOOLEAN
    BY <1>0
  <2>2. Len(Append(said, Hello)) = Len(said) + 1
    BY <1>0, <2>1, AppendType
  <2>3. Len(said) < Banner /\ at' = IF Len(said') = Banner THEN "loop" ELSE "main"
    BY <1>3 DEF Main, EchoTypeOK
  <2>4. AppWrite("out", TRUE) /\ said' = Append(said, Hello) /\ UNCHANGED <<patient, hand>>
    BY <1>3 DEF Main
  <2>5. at' \in {"main", "loop", "leaving"} /\ (at' = "main" <=> Len(said') < Banner)
    BY <1>0, <2>2, <2>3, <2>4
  <2>. QED  BY <1>1, <2>1, <2>4, <2>5
<1>4. CASE Echo
  <2>1. hand \in -2..Len(script) /\ (hand # CliExit) \in BOOLEAN
    BY <1>0 DEF EchoTypeOK
  <2>2. Len(Append(said, hand)) = Len(said) + 1
    BY <1>0, <2>1, AppendType
  <2>3. /\ AppWrite("out", hand # CliExit) /\ said' = Append(said, hand)
        /\ UNCHANGED <<patient, hand>> /\ at = "write" /\ at' \in {"leaving", "loop"}
    BY <1>4 DEF Echo
  <2>4. Len(said) >= Banner
    BY <1>0, <2>3 DEF EchoTypeOK
  <2>5. at' \in {"main", "loop", "leaving"} /\ (at' = "main" <=> Len(said') < Banner)
    BY <1>0, <2>2, <2>3, <2>4
  <2>. QED  BY <1>1, <2>1, <2>3, <2>5
<1>5. CASE ReadStdin
  <2>1. UNCHANGED <<script, wlog>> /\ taken < Len(fed)
    BY <1>5 DEF ReadStdin, AppRead, client
  <2>2. hand' \in -1..Len(script)
    BY <1>0, <1>5, <2>1 DEF ReadStdin
  <2>. QED  BY <1>2, <1>5, <2>1, <2>2 DEF ReadStdin
<1>6. CASE Leave
  BY <1>2, <1>6 DEF Leave, AppExit, client, EchoTypeOK
<1>7. CASE TypeLine \/ LeaveSession \/ KernelStep
  BY <1>2, <1>7 DEF TypeLine, LeaveSession, KernelStep, ClientSend, ClientLeave,
     KernelReleasesApp, client, appmain, EchoTypeOK
<1>8. CASE SessionStep
  <2>1. UNCHANGED <<script, wlog>>
    BY <1>8 DEF SessionStep, Thread, FromClient, FromChild, MakeChild, Poll, Invoke, ChildExit,
       IdleStop, IdleCheck, Recv, RecvEof, RecvError, Reply, WriteStdin, ReadPiece, ReadAgain,
       ReadRest, ReadEof, client
  <2>. QED  BY <1>2, <1>8, <2>1 DEF SessionStep, appmain, EchoTypeOK
<1>9. CASE UNCHANGED echoVars
  BY <1>2, <1>9 DEF echoVars, vars, client, appmain, EchoTypeOK
<1>. QED  BY <1>3, <1>4, <1>5, <1>6, <1>7, <1>8, <1>9 DEF EchoNext, AppMain

\* What appmain wrote, what it holds and where it is fit together.
THEOREM EchoTypes == EchoSpec => []EchoTypeOK
<1>1. EchoInit => EchoTypeOK
  <2> SUFFICES ASSUME EchoInit PROVE EchoTypeOK
    OBVIOUS
  <2>1. TypeOK /\ script \in Scripts /\ wlog["out"] = << >>
    BY InitTypes DEF EchoInit, Init
  <2>2. Len(script) \in Nat
    BY <2>1, ScriptType
  <2>. QED  BY <2>1, <2>2, BannerAssumption DEF EchoInit, EchoTypeOK
<1>2. TypeOK /\ TypeOK' /\ EchoTypeOK /\ [EchoNext]_echoVars => EchoTypeOK'
  BY EchoTypesKept
<1>. QED  BY <1>1, <1>2, EchoIsSession, TypeCorrect, PTL DEF EchoSpec
-----------------------------------------------------------------------------
(* The inductive invariant behind EchoKept and OneLineAhead. *)

\* What the client was sent of stdout.
OutFrames == Without(toClient, {CloseFrame})

\* A frame shows one piece, the frames all of them in turn.
OneByOne == \A i \in 1..Len(OutFrames) : OutFrames[i] = [from |-> i, to |-> i]

\* Every piece is a line, but for the last one: cli_exit.
Pieces ==
  \A k \in 1..Len(said) :
    /\ wlog["out"][k] <=> said[k] # CliExit
    /\ said[k] = CliExit => k = Len(said) /\ at \in {"leaving", "over"}

\* All that was read was sent, as long as the link stands; the session may
\* have read cli_exit and given it up for want of a newline.
Counted ==
  /\ Len(OutFrames) <= Start
  /\ Link => \/ Len(OutFrames) = Start
             \/ Len(OutFrames) = Start - 1 /\ Start = Len(said) /\ said[Start] = CliExit

\* The banner, and lines that appmain was given, in their order.
Before(k, l) == l # CliExit => k < l

Echoed ==
  /\ \A k \in 1..Len(said) : k <= Banner => said[k] = Hello
  /\ \A k \in (Banner + 1)..Len(said) :
       /\ \E i \in 1..taken : said[k] = fed[i]
       /\ \A j \in (Banner + 1)..(k - 1) : Before(said[j], said[k])
       /\ at = "write" => Before(said[k], hand)
  /\ at = "write" => \E i \in 1..taken : hand = fed[i]

\* To a patient client, an echo for every line that appmain took.
AllEchoed ==
  patient =>
    /\ Len(Lines(sent \div 2)) <= taken + 1
    /\ IF at = "main" THEN taken = 0
       ELSE Len(said) - Banner = IF at = "write" THEN taken - 1 ELSE taken
    /\ \A k \in (Banner + 1)..Len(said) : said[k] = fed[k - Banner]
    /\ at = "write" => hand = fed[taken]

EchoInv == OneByOne /\ Pieces /\ Counted /\ Echoed /\ AllEchoed
-----------------------------------------------------------------------------
(* What the session shows of stdout, step by step. *)

\* A frame that the transport accepts comes after the others.
LEMMA FrameOut ==
  ASSUME TypeOK, NEW f \in [from : Nat, to : Nat], NEW ok, NEW failed,
         SafeSend(f, ok, failed)
  PROVE  /\ Link' = Link
         /\ OutFrames' = IF Link /\ f # CloseFrame THEN Append(OutFrames, f) ELSE OutFrames
<1>1. CASE Link /\ toClient' = Append(toClient, f)
  <2>1. OutFrames' = Without(Append(toClient, f), {CloseFrame})
    BY <1>1 DEF OutFrames
  <2> DEFINE X == [from : Nat, to : Nat]
  <2>2. toClient \in Seq(X) /\ f \in X
    BY DEF TypeOK, ClientTypeOK
  <2>3. OutFrames' = IF f \in {CloseFrame} THEN OutFrames ELSE Append(OutFrames, f)
    <3> HIDE DEF X
    <3>1. Without(Append(toClient, f), {CloseFrame}) =
            IF f \in {CloseFrame} THEN Without(toClient, {CloseFrame})
                                  ELSE Append(Without(toClient, {CloseFrame}), f)
      BY <2>2, WithoutAppend
    <3>. QED  BY <2>1, <3>1 DEF OutFrames
  <2>. QED  BY <1>1, <2>3, SendShows
<1>2. CASE ~Link /\ UNCHANGED toClient
  BY <1>2, SendShows DEF OutFrames
<1>. QED  BY <1>1, <1>2 DEF SafeSend, Link

\* Nothing is sent, and the line that is being read is the same.
Quiet == OutFrames' = OutFrames /\ Start' = Start /\ (Link' => Link)

\* The session gives up what it has of a line, having read all there is.
GivesUp ==
  /\ rd["out"] = Len(wlog["out"]) /\ Start' = Len(wlog["out"])
  /\ OutFrames' = OutFrames /\ (Link' => Link)

\* The line that ends with this piece, or the last piece, is sent.
Sends(to) ==
  /\ to <= rd["out"] + 1 /\ Start' = to /\ Link' = Link
  /\ wlog["out"][to] \/ to = Len(wlog["out"])
  /\ OutFrames' = IF Link THEN Append(OutFrames, [from |-> Start + 1, to |-> to]) ELSE OutFrames

\* A session does one of these with stdout.
LEMMA OutSteps ==
  ASSUME TypeOK, LineInv, [Next]_vars
  PROVE  Quiet \/ GivesUp \/ \E to \in (Start + 1)..Len(wlog["out"]) : Sends(to)
<1>0. /\ wlog["out"] \in Seq(BOOLEAN) /\ Len(wlog["out"]) \in Nat
      /\ rd["out"] \in Nat /\ rd["out"] <= Len(wlog["out"]) /\ mark \in Nat
      /\ rd \in [Streams -> Nat] /\ Start \in Nat
  BY LineTypes DEF TypeOK, AppTypeOK
<1>a. ASSUME UNCHANGED <<toClient, sockOpen>>, peer' = peer \/ peer' \in {"rst", "dead"} \/ peer = "open",
             Start' = Start
      PROVE  Quiet
  BY <1>a DEF Quiet, OutFrames, Link
<1> USE DEF client, process, globals
<1>1. CASE Environment
  <2>1. UNCHANGED <<rd, pc, mark, toClient, sockOpen>>
        /\ (peer' = peer \/ peer' \in {"rst", "dead"} \/ peer = "open")
    BY <1>1 DEF Environment, ClientSend, ClientLeave, AppWrite, AppRead, AppClose, AppExit,
       KernelReleasesApp
  <2>. QED  BY <2>1, <1>a DEF Start
<1>2. CASE MakeChild \/ Poll \/ ChildExit \/ IdleStop \/ IdleCheck
  <2>1. /\ UNCHANGED <<rd, mark, toClient, sockOpen, peer>>
        /\ pc \in {"start", "loop"} /\ pc' \in {"loop", "exited"}
    BY <1>2 DEF MakeChild, Poll, ChildExit, IdleStop, IdleCheck
  <2>. QED  BY <2>1, <1>a DEF Start
<1>3. ASSUME NEW e \in {"sock", "out", "err"}, NEW at_ \in {"recv", "out", "err"},
             at_ = "out" <=> e = "out", Invoke(e, at_)
      PROVE  Quiet
  <2>1. /\ UNCHANGED <<rd, toClient, sockOpen, peer>>
        /\ pc = "loop" /\ pc' = at_ /\ (e = "out" => mark' = rd["out"])
    BY <1>3 DEF Invoke
  <2>2. Start' = Start
    BY <1>3, <2>1 DEF Start
  <2>. QED  BY <2>1, <2>2, <1>a
<1>4. CASE (\E n \in 1..(sent - got) : Recv(n)) \/ RecvEof \/ RecvError \/ WriteStdin
  <2>1. /\ UNCHANGED <<rd, mark, toClient, sockOpen>>
        /\ pc \in {"recv", "write"} /\ pc' # "out"
        /\ (peer' = peer \/ peer' \in {"rst", "dead"} \/ peer = "open")
    BY <1>4 DEF Recv, RecvEof, RecvError, WriteStdin
  <2>. QED  BY <2>1, <1>a DEF Start
<1>5. CASE Reply
  <2>1. UNCHANGED <<rd, mark>> /\ pc = "reply"
    BY <1>5 DEF Reply
  <2>2. PICK ok \in {"write", "recv"}, failed \in {"write", "loop"} : SafeSend(CloseFrame, ok, failed)
    BY <1>5 DEF Reply
  <2>3. CloseFrame \in [from : Nat, to : Nat] /\ pc' # "out"
    BY <2>2 DEF SafeSend
  <2>4. OutFrames' = OutFrames /\ Link' = Link
    BY <2>2, <2>3, FrameOut
  <2>. QED  BY <2>1, <2>3, <2>4 DEF Quiet, Start
<1>6. CASE ReadPiece("out")
  <2>1. pc = "out" /\ rd'["out"] = rd["out"] + 1 /\ rd["out"] < Len(wlog["out"])
    BY <1>0, <1>6 DEF ReadPiece, Unread
  <2>2. Start = mark /\ mark <= rd["out"]
    BY <2>1 DEF Start, LineInv, Unended
  <2>3. CASE wlog["out"][rd["out"] + 1]
    <3>1. SafeSend([from |-> mark + 1, to |-> rd["out"] + 1], "out", "out") /\ mark' = rd["out"] + 1
      BY <1>6, <2>3 DEF ReadPiece, SendLine
    <3>2. /\ [from |-> mark + 1, to |-> rd["out"] + 1] \in [from : Nat, to : Nat]
          /\ [from |-> mark + 1, to |-> rd["out"] + 1] # CloseFrame
      BY <1>0
    <3>3. Start' = rd["out"] + 1
      BY <2>1, <3>1 DEF Start
    <3>4. Sends(rd["out"] + 1)
      BY <1>0, <2>2, <2>3, <3>1, <3>2, <3>3, FrameOut DEF Sends
    <3>. QED  BY <1>0, <2>1, <2>2, <3>4
  <2>4. CASE ~wlog["out"][rd["out"] + 1]
    <3>1. UNCHANGED <<sockOpen, toClient, peer, pc, mark>>
      BY <1>6, <2>4 DEF ReadPiece
    <3>. QED  BY <2>1, <3>1, <1>a DEF Start
  <2>. QED  BY <2>3, <2>4
<1>7. CASE ReadRest("out")
  <2>1. /\ pc = "out" /\ mark < rd["out"] /\ UNCHANGED rd /\ mark' = rd["out"]
        /\ rd["out"] = Len(wlog["out"])
        /\ SafeSend([from |-> mark + 1, to |-> rd["out"]], "out", "out")
    BY <1>0, <1>7 DEF ReadRest, SendLine, Unread
  <2>2. /\ [from |-> mark + 1, to |-> rd["out"]] \in [from : Nat, to : Nat]
        /\ [from |-> mark + 1, to |-> rd["out"]] # CloseFrame
    BY <1>0
  <2>3. Start = mark /\ Start' = rd["out"]
    BY <2>1 DEF Start
  <2>4. Sends(rd["out"])
    BY <1>0, <2>1, <2>2, <2>3, FrameOut DEF Sends
  <2>. QED  BY <1>0, <2>1, <2>3, <2>4
<1>8. CASE ReadAgain("out")
  <2>1. /\ pc = "out" /\ pc' = "loop" /\ UNCHANGED <<rd, toClient, sockOpen, peer>>
        /\ rd["out"] = Len(wlog["out"])
    BY <1>0, <1>8 DEF ReadAgain, Unread
  <2>2. Start' = Len(wlog["out"])
    BY <2>1 DEF Start
  <2>. QED  BY <2>1, <2>2 DEF GivesUp, OutFrames, Link
<1>9. CASE ReadEof("out")
  <2>1. /\ pc = "out" /\ pc' = "loop" /\ UNCHANGED <<rd, toClient, sockOpen, peer>>
        /\ mark = rd["out"]
    BY <1>9 DEF ReadEof
  <2>. QED  BY <2>1, <1>a DEF Start
<1>10. CASE ReadPiece("err") \/ ReadAgain("err") \/ ReadRest("err") \/ ReadEof("err")
  <2>1. /\ pc = "err" /\ pc' # "out" /\ rd'["out"] = rd["out"]
        /\ UNCHANGED <<toClient, sockOpen, peer>>
    BY <1>0, <1>10 DEF ReadPiece, ReadAgain, ReadRest, ReadEof, SendLine
  <2>. QED  BY <2>1, <1>a DEF Start
<1>11. CASE UNCHANGED vars
  BY <1>11, <1>a DEF vars, Start
<1>. QED
  BY <1>1, <1>2, <1>3, <1>4, <1>5, <1>6, <1>7, <1>8, <1>9, <1>10, <1>11
  DEF Next, Thread, FromClient, FromChild

\* The numbers that Counted is about.
LEMMA EchoNumbers ==
  ASSUME EchoTypeOK, LineInv
  PROVE  /\ OutFrames \in Seq([from : Nat, to : Nat]) /\ Len(OutFrames) \in Nat
         /\ Len(said) \in Nat /\ Len(said) = Len(wlog["out"]) /\ Start \in Nat
         /\ rd["out"] \in Nat /\ Start <= rd["out"] /\ rd["out"] <= Len(said)
         /\ \A k \in (Start + 1)..rd["out"] : ~wlog["out"][k]
         /\ Banner \in Nat \ {0}
<1>1. OutFrames \in Seq([from : Nat, to : Nat])
  BY WithoutLeaves DEF OutFrames, EchoTypeOK, TypeOK, ClientTypeOK
<1>2. Len(OutFrames) \in Nat
  BY <1>1, EntryType
<1>3. Len(said) = Len(wlog["out"]) /\ TypeOK
  BY DEF EchoTypeOK
<1>. QED  BY <1>1, <1>2, <1>3, LineTypes, BannerAssumption DEF LineInv, Unended

\* A piece that is read but not shown is the last one.
LEMMA OnlyLast ==
  ASSUME EchoTypeOK, LineInv, Pieces, Start < rd["out"]
  PROVE  rd["out"] = Start + 1 /\ rd["out"] = Len(said) /\ said[Start + 1] = CliExit
<1>1. Start + 1 \in (Start + 1)..rd["out"] /\ Start + 1 \in 1..Len(said)
  BY EchoNumbers
<1>2. said[Start + 1] = CliExit
  BY <1>1, EchoNumbers DEF Pieces
<1>. QED  BY <1>1, <1>2, EchoNumbers DEF Pieces

\* While appmain writes nothing, the session shows its pieces one by one.
LEMMA ShownInTurn ==
  ASSUME EchoTypeOK, LineInv, OneByOne, Pieces, Counted, [Next]_vars, said' = said
  PROVE  OneByOne' /\ Counted'
<1>0. TypeOK
  BY DEF EchoTypeOK
<1>1. CASE Quiet
  BY <1>1 DEF Quiet, OneByOne, Counted
<1>2. CASE GivesUp
  <2>1. CASE Start = rd["out"]
    <3>1. Start' = Start
      BY <1>2, <2>1, EchoNumbers DEF GivesUp
    <3>. QED  BY <1>2, <3>1 DEF GivesUp, OneByOne, Counted
  <2>2. CASE Start < rd["out"]
    <3>1. Start' = Start + 1 /\ Start' = Len(said) /\ said[Start'] = CliExit
      BY <1>2, <2>2, OnlyLast, EchoNumbers DEF GivesUp
    <3>2. Link => Len(OutFrames) = Start
      BY <2>2, EchoNumbers DEF Counted
    <3>3. OutFrames' = OutFrames /\ (Link' => Link)
      BY <1>2 DEF GivesUp
    <3>. QED  BY <3>1, <3>2, <3>3, EchoNumbers DEF OneByOne, Counted
  <2>. QED  BY <2>1, <2>2, EchoNumbers
<1>3. ASSUME NEW to \in (Start + 1)..Len(wlog["out"]), Sends(to) PROVE OneByOne' /\ Counted'
  <2>1. to = Start + 1
    <3>1. CASE Start < rd["out"]
      BY <1>3, <3>1, OnlyLast, EchoNumbers
    <3>2. CASE Start = rd["out"]
      BY <1>3, <3>2, EchoNumbers DEF Sends
    <3>. QED  BY <3>1, <3>2, EchoNumbers
  <2>2. Link => Len(OutFrames) = Start
    BY <1>3, EchoNumbers DEF Counted
  <2> DEFINE f == [from |-> Start + 1, to |-> Start + 1]
  <2>3. Start' = Start + 1 /\ Link' = Link /\ OutFrames' = IF Link THEN Append(OutFrames, f) ELSE OutFrames
    BY <1>3, <2>1 DEF Sends
  <2>4. f \in [from : Nat, to : Nat]
    BY EchoNumbers
  <2> HIDE DEF f
  <2>5. CASE Link
    <3>1. /\ Len(OutFrames') = Start + 1 /\ OutFrames'[Start + 1] = f
          /\ \A i \in 1..Start : OutFrames'[i] = OutFrames[i]
      BY <2>2, <2>3, <2>4, <2>5, EchoNumbers, AppendType
    <3>2. Counted'
      BY <2>3, <3>1, EchoNumbers DEF Counted
    <3>3. ASSUME NEW i \in 1..(Start + 1) PROVE OutFrames'[i] = [from |-> i, to |-> i]
      <4>1. CASE i = Start + 1
        BY <3>1, <4>1 DEF f
      <4>2. CASE i \in 1..Start
        BY <2>2, <2>5, <3>1, <4>2 DEF OneByOne
      <4>. QED  BY <4>1, <4>2, EchoNumbers
    <3>. QED  BY <3>1, <3>2, <3>3 DEF OneByOne
  <2>6. CASE ~Link
    BY <2>3, <2>6, EchoNumbers DEF OneByOne, Counted
  <2>. QED  BY <2>5, <2>6
<1>. QED  BY <1>0, <1>1, <1>2, <1>3, OutSteps

\* A write by appmain, which is not about to leave, shows nothing by itself.
LEMMA WrittenInTurn ==
  ASSUME EchoTypeOK, LineInv, OneByOne, Pieces, Counted, at \in {"main", "write"},
         NEW l \in -2..Len(script), said' = Append(said, l),
         NEW nl \in BOOLEAN, nl <=> l # CliExit, AppWrite("out", nl),
         l = CliExit => at' = "leaving"
  PROVE  OneByOne' /\ Pieces' /\ Counted'
<1>1. /\ OutFrames' = OutFrames /\ Start' = Start /\ Link' = Link
      /\ wlog'["out"] = Append(wlog["out"], nl)
  BY DEF AppWrite, client, OutFrames, Start, Link, EchoTypeOK, TypeOK, AppTypeOK
<1>2. /\ Len(said') = Len(said) + 1 /\ said'[Len(said) + 1] = l
      /\ \A k \in 1..Len(said) : said'[k] = said[k]
  BY AppendType DEF EchoTypeOK
<1>3. /\ wlog'["out"][Len(said) + 1] = nl
      /\ \A k \in 1..Len(said) : wlog'["out"][k] = wlog["out"][k]
  BY <1>1, AppendType, LineTypes DEF EchoTypeOK
<1>4. \A k \in 1..Len(said) : wlog["out"][k] /\ said[k] # CliExit
  BY DEF Pieces
<1>5. Pieces'
  <2>1. ASSUME NEW k \in 1..(Len(said) + 1)
        PROVE  /\ wlog'["out"][k] <=> said'[k] # CliExit
               /\ said'[k] = CliExit => k = Len(said) + 1 /\ at' = "leaving"
    <3>1. CASE k = Len(said) + 1
      BY <1>2, <1>3, <3>1
    <3>2. CASE k \in 1..Len(said)
      BY <1>2, <1>3, <1>4, <3>2
    <3>. QED  BY <3>1, <3>2, EchoNumbers
  <2>. QED  BY <1>2, <2>1 DEF Pieces
<1>6. Counted'
  <2>1. Link => Len(OutFrames) = Start
    BY <1>4, EchoNumbers DEF Counted
  <2>. QED  BY <1>1, <2>1 DEF Counted
<1>. QED  BY <1>1, <1>5, <1>6 DEF OneByOne
-----------------------------------------------------------------------------
(* The lines that the application is given. *)

\* No line is garbage, and only the last frame's is cli_exit.
LEMMA LinesAreGood ==
  ASSUME TypeOK, NEW n \in 0..Len(script)
  PROVE  /\ Lines(n) \in Seq(-1..Len(script)) /\ Len(Lines(n)) \in Nat
         /\ \A i \in 1..Len(Lines(n)) : Lines(n)[i] # Garbage
         /\ n < Len(script) => Without(Lines(n), {CliExit}) = Lines(n)
<1> DEFINE k == Kept(n)
           l == Lines(n)
<1>1. script \in Scripts /\ script \in Seq(Kinds) /\ Len(script) \in Nat
      /\ DOMAIN script = 1..Len(script)
  BY ScriptType DEF TypeOK, ClientTypeOK
<1>2. /\ k \in Seq(1..n) /\ l = [i \in 1..Len(k) |-> LineOf(k[i])]
      /\ l \in Seq(-1..Len(script)) /\ Len(l) = Len(k)
  <2> HIDE DEF k, l
  <2>. QED  BY <1>1, LinesType DEF k, l
<1> HIDE DEF k, l
<1>3. Len(l) \in Nat /\ Len(k) \in Nat /\ \A i \in 1..Len(k) : k[i] \in 1..n
  BY <1>2, EntryType
<1>4. ASSUME NEW i \in 1..Len(l)
      PROVE  l[i] # Garbage /\ (n < Len(script) => l[i] # CliExit)
  <2>1. k[i] \in 1..n /\ l[i] = LineOf(k[i]) /\ k[i] \in DOMAIN script
    BY <1>1, <1>2, <1>3, <1>4
  <2>2. script[k[i]] = "close" => k[i] = Len(script)
    BY <1>1, <2>1, ScriptsAssumption
  <2>. QED  BY <1>1, <2>1, <2>2 DEF LineOf
<1>5. n < Len(script) => Without(l, {CliExit}) = l
  BY <1>2, <1>4, WithoutLeaves
<1>. QED  BY <1>2, <1>3, <1>4, <1>5 DEF l

\* A client that waits has at most one line more on the way.
LEMMA LinesOnTheWay ==
  ASSUME TypeOK, Given, Paced, Plain
  PROVE  /\ fed \in Seq(-1..Len(script)) /\ Len(fed) \in Nat /\ taken \in 0..Len(fed)
         /\ Begins(fed, Lines(sent \div 2))
         /\ \A i \in 1..Len(fed) : fed[i] \in -1..Len(script) /\ fed[i] # Garbage
         /\ Len(Lines(sent \div 2)) \in Nat
         /\ pc = "write" => Len(fed) < Len(Lines(sent \div 2))
<1>1. script \in Seq(Kinds) /\ Len(script) \in Nat
  BY ScriptType DEF TypeOK, ClientTypeOK
<1>2. /\ got \in Nat /\ got % 2 = 0 /\ sent \in {got, got + 2} /\ sent <= 2 * Len(script)
      /\ fed \in Seq(-1..Len(script)) /\ taken \in 0..Len(fed)
  BY <1>1 DEF TypeOK, ClientTypeOK, AppTypeOK, Paced, Plain
<1>3. Len(fed) \in Nat /\ \A i \in 1..Len(fed) : fed[i] \in -1..Len(script)
  BY <1>2, EntryType
<1> DEFINE m == got \div 2
           n == sent \div 2
<1>4. m \in 0..Len(script) /\ n \in {m, m + 1} /\ n <= Len(script)
  BY <1>1, <1>2
<1>5. Begins(fed, Lines(m))
  BY FedBegins
<1> HIDE DEF m, n
<1>6. Lines(m) \in Seq(-1..Len(script)) /\ Len(Lines(m)) \in Nat
  BY <1>4, LinesAreGood
<1>60. pc = "write" => Len(Lines(m)) = Len(fed) + 1
  <2>1. line \in -1..Len(script)
    BY DEF TypeOK, ThreadTypeOK
  <2>2. pc = "write" => Lines(m) = Append(fed, line)
    BY DEF Given, m
  <2>. QED  BY <1>2, <2>1, <2>2, AppendType
<1>7. Begins(fed, Lines(n)) /\ Len(Lines(n)) \in Nat /\ Len(Lines(m)) <= Len(Lines(n))
  <2>1. CASE n = m + 1
    <3>1. /\ LineOf(m + 1) \in -1..Len(script)
          /\ Lines(n) \in {Lines(m), Append(Lines(m), LineOf(m + 1))}
      <4>1. m \in Nat /\ m + 1 <= Len(script)
        BY <1>1, <1>4, <2>1
      <4>2. /\ LineOf(m + 1) \in -1..Len(script)
            /\ Lines(m + 1) \in {Lines(m), Append(Lines(m), LineOf(m + 1))}
        BY <1>1, <4>1, NextLine
      <4>. QED  BY <2>1, <4>2
    <3>2. Len(Lines(m)) <= Len(Lines(n)) /\ \A i \in 1..Len(Lines(m)) : Lines(n)[i] = Lines(m)[i]
      BY <1>6, <3>1, AppendType
    <3>. QED  BY <1>3, <1>5, <1>6, <3>1, <3>2, AppendType DEF Begins
  <2>. QED  BY <1>4, <1>5, <1>6, <2>1
<1>8. \A i \in 1..Len(fed) : fed[i] # Garbage
  <2>1. \A i \in 1..Len(fed) : i \in 1..Len(Lines(m)) /\ fed[i] = Lines(m)[i]
    BY <1>3, <1>5, <1>6 DEF Begins
  <2>. QED  BY <1>4, <2>1, LinesAreGood
<1>. QED  BY <1>2, <1>3, <1>6, <1>60, <1>7, <1>8 DEF n

\* A session only adds to what the application was given.
LEMMA FedGrows ==
  ASSUME TypeOK, [Next]_vars
  PROVE  \A i \in 1..Len(fed) : fed'[i] = fed[i]
<1>1. fed \in Seq(-1..Len(script)) /\ line \in -1..Len(script)
  BY DEF TypeOK, AppTypeOK, ThreadTypeOK
<1>2. fed' \in {fed, Append(fed, line)}
  BY DEF Next, Thread, Environment, FromClient, FromChild, client, process, globals, vars,
     ClientSend, ClientLeave, AppWrite, AppRead, AppClose, AppExit, KernelReleasesApp,
     MakeChild, Poll, Invoke, ChildExit, IdleStop, IdleCheck, Recv, RecvEof, RecvError,
     Reply, WriteStdin, ReadPiece, ReadAgain, ReadRest, ReadEof
<1>. QED  BY <1>1, <1>2, AppendType
-----------------------------------------------------------------------------
(* What is echoed. *)

\* Steps of the session, the client and the kernel; appmain's exit.
LEMMA OthersEcho ==
  ASSUME EchoTypeOK, Echoed, AllEchoed, [Next]_vars,
         UNCHANGED <<script, sent, taken, patient, hand, said>>,
         at' = at \/ (at = "leaving" /\ at' = "over")
  PROVE  Echoed' /\ AllEchoed'
<1>1. /\ \A i \in 1..taken : i \in 1..Len(fed)
      /\ \A i \in 1..Len(fed) : fed'[i] = fed[i]
  BY FedGrows DEF EchoTypeOK, TypeOK, AppTypeOK
<1>2. \A i \in 1..taken : fed'[i] = fed[i]
  BY <1>1
<1>3. Echoed'
  BY <1>2 DEF Echoed, Before
<1>4. Lines(sent \div 2)' = Lines(sent \div 2)
  BY DEF Lines
<1>5. ASSUME patient, NEW k \in (Banner + 1)..Len(said)
      PROVE  said[k] = fed'[k - Banner]
  <2>1. k - Banner \in 1..taken
    <3>1. Len(said) \in Nat /\ Banner \in Nat /\ taken \in Int
      BY EntryType, BannerAssumption DEF EchoTypeOK, TypeOK, AppTypeOK
    <3>2. at # "main"
      BY <3>1 DEF EchoTypeOK
    <3>3. Len(said) - Banner \in {taken, taken - 1}
      BY <1>5, <3>2 DEF AllEchoed
    <3>. QED  BY <3>1, <3>3
  <2>. QED  BY <1>2, <1>5, <2>1 DEF AllEchoed
<1>6. patient /\ at = "write" => hand = fed'[taken]
  <2>1. patient /\ at = "write" => taken \in 1..taken
    BY BannerAssumption DEF AllEchoed, EchoTypeOK, TypeOK, AppTypeOK
  <2>. QED  BY <1>2, <2>1 DEF AllEchoed
<1>7. AllEchoed'
  BY <1>4, <1>5, <1>6 DEF AllEchoed
<1>. QED  BY <1>3, <1>7

\* The client sends a frame; a patient one was shown all it is owed.
LEMMA TypingEchoes ==
  ASSUME EchoTypeOK, LineInv, Counted, Echoed, AllEchoed, Paced, Plain, TypeLine
  PROVE  Echoed' /\ AllEchoed'
<1>1. /\ UNCHANGED <<script, fed, taken, patient, hand, said, at>>
      /\ sent' = sent + 2 /\ sent < 2 * Len(script)
      /\ patient => Len(Answers) = Owed
  BY DEF TypeLine, ClientSend, appmain
<1>2. Echoed'
  BY <1>1 DEF Echoed, Before
<1> DEFINE n == sent \div 2
<1>3. /\ script \in Seq(Kinds) /\ Len(script) \in Nat /\ TypeOK
      /\ n \in Nat /\ n + 1 <= Len(script) /\ (sent + 2) \div 2 = n + 1
  <2>1. script \in Seq(Kinds) /\ Len(script) \in Nat /\ TypeOK /\ sent \in {2 * i : i \in 0..Len(script)}
    BY ScriptType DEF EchoTypeOK, TypeOK, ClientTypeOK
  <2>. QED  BY <1>1, <2>1
<1> HIDE DEF n
<1>4. ASSUME patient PROVE Len(Lines(n)) <= taken
  <2>1. Len(Answers) = Len(OutFrames)
    BY EchoNumbers DEF Answers, OutFrames
  <2>2. n \in 0..Len(script) /\ n < Len(script)
    BY <1>3
  <2>3. Owed = Banner + Len(Lines(n)) /\ Len(Lines(n)) \in Nat
    BY <2>2, <1>3, LinesAreGood DEF Owed, n
  <2>4. Len(OutFrames) = Banner + Len(Lines(n)) /\ Len(OutFrames) <= Len(said)
    BY <1>1, <1>4, <2>1, <2>3, EchoNumbers DEF Counted
  <2>5. at # "main" /\ taken \in Int
    BY <2>3, <2>4, EchoNumbers DEF EchoTypeOK, TypeOK, AppTypeOK
  <2>. QED  BY <1>4, <2>3, <2>4, <2>5, EchoNumbers DEF AllEchoed
<1>5. Len(Lines(n + 1)) <= Len(Lines(n)) + 1 /\ Len(Lines(n)) \in Nat
  <2>1. Lines(n) \in Seq(-1..Len(script)) /\ Len(Lines(n)) \in Nat
    BY <1>3, LinesAreGood
  <2>2. /\ LineOf(n + 1) \in -1..Len(script)
        /\ Lines(n + 1) \in {Lines(n), Append(Lines(n), LineOf(n + 1))}
    BY <1>3, NextLine
  <2>. QED  BY <2>1, <2>2, AppendType
<1>6. Lines(sent \div 2)' = Lines(n + 1)
  <2>1. sent' \div 2 = n + 1 /\ script' = script
    BY <1>1, <1>3
  <2>. QED  BY <2>1 DEF Lines
<1>7. patient => Len(Lines(n + 1)) <= taken + 1
  <2>1. taken \in Int
    BY DEF EchoTypeOK, TypeOK, AppTypeOK
  <2>2. Len(Lines(n + 1)) \in Int
    BY <1>3, LinesAreGood
  <2>. QED  BY <1>4, <1>5, <2>1, <2>2
<1>8. AllEchoed'
  BY <1>1, <1>6, <1>7 DEF AllEchoed
<1>. QED  BY <1>2, <1>8

\* appmain takes the next line and throws the others away.
LEMMA ReadingEchoes ==
  ASSUME EchoTypeOK, InputOrder, Given, Echoed, AllEchoed, Paced, Plain, ReadStdin
  PROVE  Echoed' /\ AllEchoed'
<1>0. /\ fed \in Seq(-1..Len(script)) /\ Len(fed) \in Nat /\ taken \in Nat
      /\ Begins(fed, Lines(sent \div 2)) /\ Banner \in Nat /\ TypeOK
      /\ \A i \in 1..Len(fed) : fed[i] \in -1..Len(script) /\ fed[i] # Garbage
  <2>1. TypeOK /\ Banner \in Nat
    BY BannerAssumption DEF EchoTypeOK
  <2>2. /\ fed \in Seq(-1..Len(script)) /\ Len(fed) \in Nat /\ taken \in 0..Len(fed)
        /\ Begins(fed, Lines(sent \div 2))
        /\ \A i \in 1..Len(fed) : fed[i] \in -1..Len(script) /\ fed[i] # Garbage
    BY <2>1, LinesOnTheWay
  <2>. QED  BY <2>1, <2>2
<1> DEFINE t == taken + 1
<1>1. /\ UNCHANGED <<script, sent, fed, patient, said>> /\ at = "loop" /\ at' = "write"
      /\ taken < Len(fed) /\ taken' = Len(fed) /\ hand' = fed[t]
  BY <1>0 DEF ReadStdin, AppRead, client
<1>2. t \in 1..Len(fed) /\ \A i \in 1..taken : i \in 1..Len(fed) /\ i \in 1..(t - 1)
  BY <1>0, <1>1
<1>3. \A i \in 1..taken : Before(fed[i], fed[t])
  <2>1. fed[t] # CliExit => fed[t] > 0
    <3>1. fed[t] \in -1..Len(script) /\ fed[t] # Garbage
      BY <1>0, <1>2
    <3>. QED  BY <3>1
  <2>2. fed[t] > 0 => \A i \in 1..(t - 1) : fed[i] < fed[t]
    <3>1. DOMAIN fed = 1..Len(fed)
      BY <1>0
    <3>. QED  BY <1>2, <3>1 DEF InputOrder
  <2>. QED  BY <1>2, <2>1, <2>2 DEF Before
<1> HIDE DEF t
<1>4. Echoed'
  <2>1. ASSUME NEW k \in (Banner + 1)..Len(said)
        PROVE  Before(said[k], fed[t]) /\ \E i \in 1..Len(fed) : said[k] = fed[i]
    <3>1. PICK i \in 1..taken : said[k] = fed[i]
      BY DEF Echoed
    <3>. QED  BY <1>2, <1>3, <3>1
  <2>2. \E i \in 1..Len(fed) : hand' = fed[i]
    BY <1>1, <1>2
  <2>3. \A k \in (Banner + 1)..Len(said) : \A j \in (Banner + 1)..(k - 1) : Before(said[j], said[k])
    BY DEF Echoed
  <2>4. \A k \in 1..Len(said) : k <= Banner => said[k] = Hello
    BY DEF Echoed
  <2>. QED  BY <1>1, <2>1, <2>2, <2>3, <2>4 DEF Echoed, Before
<1>5. AllEchoed'
  <2> SUFFICES ASSUME patient PROVE AllEchoed'
    BY <1>1 DEF AllEchoed
  <2>1. Lines(sent \div 2)' = Lines(sent \div 2)
    BY <1>1 DEF Lines
  <2>2. Len(fed) <= Len(Lines(sent \div 2)) /\ Len(Lines(sent \div 2)) <= taken + 1
    BY <1>0 DEF Begins, AllEchoed
  <2>3. Len(Lines(sent \div 2)) \in Nat
    <3>1. sent \div 2 \in 0..Len(script)
      <4>1. Len(script) \in Nat
        BY <1>0, ScriptType DEF TypeOK, ClientTypeOK
      <4>. QED  BY <1>0, <4>1 DEF TypeOK, ClientTypeOK
    <3>. QED  BY <1>0, <3>1, LinesAreGood
  <2>4. Len(fed) = taken + 1 /\ t = taken'
    BY <1>0, <1>1, <2>2, <2>3 DEF t
  <2>5. Len(said) - Banner = taken
    BY <1>1 DEF AllEchoed
  <2>6. \A k \in (Banner + 1)..Len(said) : said[k] = fed[k - Banner]
    BY DEF AllEchoed
  <2>7. /\ Len(Lines(sent \div 2)') <= taken' + 1
        /\ Len(said') - Banner = taken' - 1
        /\ hand' = fed'[taken']
    BY <1>0, <1>1, <2>1, <2>2, <2>3, <2>4, <2>5
  <2>. QED  BY <1>1, <2>6, <2>7 DEF AllEchoed
<1>. QED  BY <1>4, <1>5

\* A piece is written: a line of the banner.
LEMMA MainEchoes ==
  ASSUME EchoTypeOK, Echoed, AllEchoed, Main
  PROVE  Echoed' /\ AllEchoed'
<1>1. /\ UNCHANGED <<script, sent, fed, taken, patient, hand>> /\ at = "main"
      /\ said' = Append(said, Hello)
      /\ at' = IF Len(said') = Banner THEN "loop" ELSE "main"
  BY DEF Main, AppWrite, client
<1>2. said \in Seq(-2..Len(script)) /\ Len(said) \in Nat /\ Hello \in -2..Len(script)
      /\ Banner \in Nat /\ Len(said) < Banner /\ taken \in Int
  <2>1. Len(script) \in Nat
    BY ScriptType DEF EchoTypeOK, TypeOK, ClientTypeOK
  <2>. QED  BY <1>1, <2>1, EntryType, BannerAssumption DEF EchoTypeOK, TypeOK, AppTypeOK
<1>3. /\ Len(said') = Len(said) + 1 /\ said'[Len(said) + 1] = Hello
      /\ \A k \in 1..Len(said) : said'[k] = said[k]
  BY <1>1, <1>2, AppendType
<1>4. Echoed'
  <2>1. \A k \in 1..Len(said') : said'[k] = Hello
    BY <1>2, <1>3 DEF Echoed
  <2>2. (Banner + 1)..Len(said') = {}
    BY <1>2, <1>3
  <2>. QED  BY <1>1, <2>1, <2>2 DEF Echoed
<1>5. AllEchoed'
  <2>1. Lines(sent \div 2)' = Lines(sent \div 2)
    BY <1>1 DEF Lines
  <2>2. (Banner + 1)..Len(said') = {}
    BY <1>2, <1>3
  <2>3. patient => taken = 0 /\ Len(Lines(sent \div 2)) <= taken + 1
    BY <1>1 DEF AllEchoed
  <2>4. IF at' = "main" THEN TRUE ELSE Len(said') - Banner = 0
    BY <1>1, <1>2
  <2>. QED  BY <1>1, <2>1, <2>2, <2>3, <2>4 DEF AllEchoed
<1>. QED  BY <1>4, <1>5

\* A piece is written: the line in hand.
LEMMA EchoEchoes ==
  ASSUME EchoTypeOK, Echoed, AllEchoed, Echo
  PROVE  Echoed' /\ AllEchoed'
<1>1. /\ UNCHANGED <<script, sent, fed, taken, patient, hand>> /\ at = "write"
      /\ said' = Append(said, hand) /\ at' \in {"leaving", "loop"}
  BY DEF Echo, AppWrite, client
<1>2. said \in Seq(-2..Len(script)) /\ Len(said) \in Nat /\ hand \in -2..Len(script)
      /\ Banner \in Nat /\ Len(said) >= Banner /\ taken \in Nat
  <2>1. Len(script) \in Nat
    BY ScriptType DEF EchoTypeOK, TypeOK, ClientTypeOK
  <2>. QED  BY <1>1, <2>1, EntryType, BannerAssumption DEF EchoTypeOK, TypeOK, AppTypeOK
<1>3. /\ Len(said') = Len(said) + 1 /\ said'[Len(said) + 1] = hand
      /\ \A k \in 1..Len(said) : said'[k] = said[k]
  <2>1. said' = Append(said, hand)
    BY <1>1
  <2>2. said \in Seq(-2..Len(script)) /\ hand \in -2..Len(script)
    BY <1>2
  <2>. QED  BY <2>1, <2>2, AppendType
<1>4. Echoed'
  <2>1. ASSUME NEW k \in 1..Len(said'), k <= Banner PROVE said'[k] = Hello
    <3>1. k \in 1..Len(said)
      BY <1>2, <2>1
    <3>. QED  BY <1>3, <2>1, <3>1 DEF Echoed
  <2>2. ASSUME NEW k \in (Banner + 1)..Len(said')
        PROVE  /\ \E i \in 1..taken : said'[k] = fed[i]
               /\ \A j \in (Banner + 1)..(k - 1) : Before(said'[j], said'[k])
    <3>1. CASE k = Len(said) + 1
      <4>1. \A j \in (Banner + 1)..(k - 1) : j \in 1..Len(said) /\ j \in (Banner + 1)..Len(said)
        BY <1>2, <3>1
      <4>. QED  BY <1>1, <1>3, <3>1, <4>1 DEF Echoed
    <3>2. CASE k \in (Banner + 1)..Len(said)
      <4>1. \A j \in (Banner + 1)..k : j \in 1..Len(said)
        BY <1>2, <3>2
      <4>2. \A j \in (Banner + 1)..(k - 1) : j \in (Banner + 1)..k
        BY <1>2, <3>2
      <4>3. k \in (Banner + 1)..k
        BY <1>2, <3>2
      <4>. QED  BY <1>3, <3>2, <4>1, <4>2, <4>3 DEF Echoed
    <3>. QED  BY <1>2, <1>3, <3>1, <3>2
  <2>. QED  BY <1>1, <2>1, <2>2 DEF Echoed
<1>5. AllEchoed'
  <2> SUFFICES ASSUME patient PROVE AllEchoed'
    BY <1>1 DEF AllEchoed
  <2>1. Lines(sent \div 2)' = Lines(sent \div 2)
    BY <1>1 DEF Lines
  <2>2. Len(said) - Banner = taken - 1 /\ hand = fed[taken]
    BY <1>1 DEF AllEchoed
  <2>3. \A k \in (Banner + 1)..Len(said') : said'[k] = fed[k - Banner]
    <3>1. \A k \in (Banner + 1)..Len(said) : k \in 1..Len(said) /\ said[k] = fed[k - Banner]
      BY <1>2 DEF AllEchoed
    <3>2. (Len(said) + 1) - Banner = taken
      BY <1>2, <2>2
    <3>3. \A k \in (Banner + 1)..Len(said') : k \in (Banner + 1)..Len(said) \/ k = Len(said) + 1
      BY <1>2, <1>3
    <3>. QED  BY <1>3, <2>2, <3>1, <3>2, <3>3
  <2>4. Len(said') - Banner = taken
    BY <1>2, <1>3, <2>2
  <2>5. Len(Lines(sent \div 2)) <= taken + 1
    BY DEF AllEchoed
  <2>. QED  BY <1>1, <2>1, <2>3, <2>4, <2>5 DEF AllEchoed
<1>. QED  BY <1>4, <1>5
-----------------------------------------------------------------------------
\* Every step of the two loops keeps the echoes in order and complete.
LEMMA EchoInvKept ==
  ASSUME EchoTypeOK, EchoTypeOK', LineInv, InputOrder, Given, Paced, Plain, EchoInv,
         [EchoNext]_echoVars
  PROVE  EchoInv'
<1>0. TypeOK /\ [Next]_vars
  BY EchoSteps DEF EchoTypeOK
<1>1. ASSUME said' = said, at \in {"leaving", "over"} => at' \in {"leaving", "over"}, wlog' = wlog
      PROVE  OneByOne' /\ Pieces' /\ Counted'
  <2>1. Pieces'
    BY <1>1 DEF EchoInv, Pieces
  <2>. QED  BY <1>0, <1>1, <2>1, ShownInTurn DEF EchoInv
<1>2. CASE Main
  <2>1. Echoed' /\ AllEchoed'
    BY <1>2, MainEchoes DEF EchoInv
  <2>2. Hello \in -2..Len(script)
    BY ScriptType DEF EchoTypeOK, TypeOK, ClientTypeOK
  <2>3. at = "main" /\ said' = Append(said, Hello) /\ AppWrite("out", TRUE)
    BY <1>2 DEF Main
  <2>4. Hello # CliExit
    OBVIOUS
  <2>5. OneByOne' /\ Pieces' /\ Counted'
    BY <2>2, <2>3, <2>4, WrittenInTurn DEF EchoInv
  <2>. QED  BY <2>1, <2>5 DEF EchoInv
<1>3. CASE Echo
  <2>1. Echoed' /\ AllEchoed'
    BY <1>3, EchoEchoes DEF EchoInv
  <2>2. hand \in -2..Len(script) /\ (hand # CliExit) \in BOOLEAN
    BY ScriptType DEF EchoTypeOK, TypeOK, ClientTypeOK
  <2>3. /\ at = "write" /\ said' = Append(said, hand) /\ AppWrite("out", hand # CliExit)
        /\ (hand = CliExit => at' = "leaving")
    BY <1>3 DEF Echo
  <2>4. OneByOne' /\ Pieces' /\ Counted'
    BY <2>2, <2>3, WrittenInTurn DEF EchoInv
  <2>. QED  BY <2>1, <2>4 DEF EchoInv
<1>4. CASE ReadStdin
  <2>1. Echoed' /\ AllEchoed'
    BY <1>4, ReadingEchoes DEF EchoInv
  <2>2. UNCHANGED <<said, wlog>> /\ at = "loop"
    BY <1>4 DEF ReadStdin, AppRead
  <2>. QED  BY <1>1, <2>1, <2>2 DEF EchoInv
<1>5. CASE TypeLine
  <2>1. Echoed' /\ AllEchoed'
    BY <1>5, TypingEchoes DEF EchoInv
  <2>2. UNCHANGED <<said, wlog, at>>
    BY <1>5 DEF TypeLine, ClientSend, appmain
  <2>. QED  BY <1>1, <2>1, <2>2 DEF EchoInv
<1>6. ASSUME UNCHANGED <<script, sent, taken, wlog, patient, hand, said>>,
             at' = at \/ (at = "leaving" /\ at' = "over")
      PROVE  EchoInv'
  <2>1. Echoed' /\ AllEchoed'
    BY <1>0, <1>6, OthersEcho DEF EchoInv
  <2>2. at \in {"leaving", "over"} => at' \in {"leaving", "over"}
    BY <1>6
  <2>. QED  BY <1>1, <1>6, <2>1, <2>2 DEF EchoInv
<1>7. CASE Leave \/ LeaveSession \/ KernelStep
  <2>1. CASE Leave
    BY <1>6, <2>1 DEF Leave, AppExit, client
  <2>2. CASE LeaveSession
    BY <1>6, <2>2 DEF LeaveSession, ClientLeave, appmain
  <2>3. CASE KernelStep
    BY <1>6, <2>3 DEF KernelStep, KernelReleasesApp, client, appmain
  <2>. QED  BY <1>7, <2>1, <2>2, <2>3
<1>8. CASE SessionStep
  <2>1. UNCHANGED <<script, sent, taken, wlog>>
    BY <1>8 DEF SessionStep, Thread, FromClient, FromChild, MakeChild, Poll, Invoke, ChildExit,
       IdleStop, IdleCheck, Recv, RecvEof, RecvError, Reply, WriteStdin, ReadPiece, ReadAgain,
       ReadRest, ReadEof, client
  <2>. QED  BY <1>6, <1>8, <2>1 DEF SessionStep, appmain
<1>9. CASE UNCHANGED echoVars
  BY <1>6, <1>9 DEF echoVars, vars, client, appmain
<1>. QED  BY <1>2, <1>3, <1>4, <1>5, <1>7, <1>8, <1>9 DEF EchoNext, AppMain

\* Answers that are in order are what the client was promised.
LEMMA EchoInvSuffices ==
  ASSUME EchoTypeOK, LineInv, Given, Paced, Plain, EchoInv
  PROVE  EchoKept
<1> DEFINE m == Len(OutFrames)
           B == Banner
           echoes == SubSeq(Answers, B + 1, Len(Answers))
           lines == Lines(sent \div 2)
<1>0. /\ m \in Nat /\ Len(said) \in Nat /\ m <= Len(said) /\ B \in Nat
      /\ OutFrames \in Seq([from : Nat, to : Nat]) /\ DOMAIN OutFrames = 1..m
      /\ said \in Seq(-2..Len(script)) /\ Len(script) \in Nat
  <2>1. Len(script) \in Nat
    BY ScriptType DEF EchoTypeOK, TypeOK, ClientTypeOK
  <2>. QED  BY <2>1, EchoNumbers, EntryType DEF EchoInv, Counted, EchoTypeOK
<1>a. /\ fed \in Seq(-1..Len(script)) /\ Len(fed) \in Nat /\ taken \in 0..Len(fed)
      /\ Begins(fed, lines) /\ \A i \in 1..Len(fed) : fed[i] \in -1..Len(script) /\ fed[i] # Garbage
  BY LinesOnTheWay DEF EchoTypeOK
<1> HIDE DEF m
<1>1. /\ Answers \in Seq(-2..Len(script)) /\ Len(Answers) = m /\ DOMAIN Answers = 1..m
      /\ \A i \in 1..m : Answers[i] = said[i]
  <2>1. Answers = [i \in 1..m |->
                     IF OutFrames[i].from = OutFrames[i].to THEN said[OutFrames[i].to] ELSE Garbage]
    BY <1>0 DEF Answers, OutFrames
  <2>2. ASSUME NEW i \in 1..m PROVE OutFrames[i].from = i /\ OutFrames[i].to = i
    <3>1. OutFrames[i] = [from |-> i, to |-> i]
      BY DEF EchoInv, OneByOne, m
    <3>2. [from |-> i, to |-> i].from = i /\ [from |-> i, to |-> i].to = i
      OBVIOUS
    <3>. QED  BY <3>1, <3>2
  <2>3. Answers = [i \in 1..m |-> said[i]]
    BY <2>1, <2>2
  <2>4. \A i \in 1..m : said[i] \in -2..Len(script)
    BY <1>0
  <2>. QED  BY <1>0, <2>3, <2>4
<1>2. ASSUME NEW k \in (B + 1)..Len(said)
      PROVE  /\ said[k] \in -1..Len(script) /\ said[k] # Garbage
             /\ \A j \in (B + 1)..(k - 1) : Before(said[j], said[k])
  <2>1. PICK i \in 1..taken : said[k] = fed[i]
    BY DEF EchoInv, Echoed
  <2>2. i \in 1..Len(fed)
    BY <1>a
  <2>. QED  BY <1>a, <2>1, <2>2 DEF EchoInv, Echoed
<1>3. \A i \in DOMAIN Answers : i <= Banner <=> Answers[i] = Hello
  <2> SUFFICES ASSUME NEW i \in 1..m PROVE i <= B <=> said[i] = Hello
    BY <1>1
  <2>1. i \in 1..Len(said)
    BY <1>0
  <2>2. i <= B => said[i] = Hello
    BY <2>1 DEF EchoInv, Echoed
  <2>3. ~(i <= B) => said[i] # Hello
    <3>1. ~(i <= B) => i \in (B + 1)..Len(said)
      BY <1>0, <2>1
    <3>. QED  BY <1>0, <1>2, <3>1
  <2>. QED  BY <2>2, <2>3
<1>4. /\ echoes \in Seq(-2..Len(script)) /\ Len(echoes) = (IF B + 1 <= m THEN m - B ELSE 0)
      /\ \A i \in 1..Len(echoes) : echoes[i] = said[B + i]
  <2> DEFINE X == -2..Len(script)
             a == B + 1
  <2>1. a \in Int /\ m \in Int /\ \A i \in a..m : Answers[i] \in X
    <3>1. \A i \in a..m : i \in 1..m /\ i \in 1..Len(said)
      BY <1>0
    <3>2. \A i \in 1..Len(said) : said[i] \in X
      BY <1>0
    <3>. QED  BY <1>0, <1>1, <3>1, <3>2
  <2>2. /\ SubSeq(Answers, a, m) \in Seq(X)
        /\ Len(SubSeq(Answers, a, m)) = IF a <= m THEN (m - a) + 1 ELSE 0
        /\ \A i \in 1..((m - a) + 1) : SubSeq(Answers, a, m)[i] = Answers[(a + i) - 1]
    <3> HIDE DEF X, a
    <3>. QED  BY <2>1, SubSeqProperties
  <2>3. echoes = SubSeq(Answers, a, m)
    BY <1>1
  <2> HIDE DEF echoes, X
  <2>4. Len(echoes) = (IF B + 1 <= m THEN m - B ELSE 0) /\ (m - a) + 1 = m - B
    BY <1>0, <2>2, <2>3
  <2>5. ASSUME NEW i \in 1..Len(echoes) PROVE echoes[i] = said[B + i]
    <3>1. i \in 1..(m - B) /\ (a + i) - 1 = B + i /\ B + i \in 1..m
      BY <1>0, <2>4, <2>5
    <3>. QED  BY <1>1, <2>2, <2>3, <2>4, <3>1
  <2>. QED  BY <2>2, <2>3, <2>4, <2>5 DEF X
<1> HIDE DEF echoes, lines, B
<1>5. Len(echoes) \in Nat /\ DOMAIN echoes = 1..Len(echoes)
      /\ \A i \in 1..Len(echoes) : B + i \in (B + 1)..Len(said)
  <2>1. Len(echoes) \in Nat /\ DOMAIN echoes = 1..Len(echoes)
    BY <1>4, EntryType
  <2>2. Len(echoes) > 0 => Len(echoes) = m - B
    BY <1>4
  <2>. QED  BY <1>0, <2>1, <2>2
<1>6. \A i \in DOMAIN echoes : echoes[i] # Garbage
  BY <1>2, <1>4, <1>5
<1>7. \A i, j \in DOMAIN echoes : i < j /\ echoes[j] # CliExit => echoes[i] < echoes[j]
  <2> SUFFICES ASSUME NEW i \in 1..Len(echoes), NEW j \in 1..Len(echoes), i < j,
                      echoes[j] # CliExit
               PROVE  echoes[i] < echoes[j]
    BY <1>5
  <2>1. B + i \in (B + 1)..((B + j) - 1) /\ B + j \in (B + 1)..Len(said)
    BY <1>0, <1>5
  <2>. QED  BY <1>2, <1>4, <2>1 DEF Before
<1>8. patient => IsPrefix(echoes, lines)
  <2> SUFFICES ASSUME patient PROVE IsPrefix(echoes, lines)
    OBVIOUS
  <2>1. Len(echoes) <= taken
    <3>1. Len(echoes) \in {0, m - B} /\ taken \in Nat
      BY <1>4, <1>a
    <3>2. CASE at = "main"
      <4>1. Len(said) < B
        BY <3>2 DEF EchoTypeOK, B
      <4>2. Len(echoes) = 0
        BY <1>0, <1>4, <4>1
      <4>. QED  BY <3>1, <4>2
    <3>3. CASE at # "main"
      <4>1. Len(said) - B \in {taken, taken - 1}
        BY <3>3 DEF EchoInv, AllEchoed, B
      <4>2. m \in Nat /\ Len(said) \in Nat /\ m <= Len(said) /\ B \in Nat
        BY <1>0
      <4>. QED  BY <3>1, <4>1, <4>2
    <3>. QED  BY <3>2, <3>3
  <2>2. \A i \in 1..Len(echoes) : echoes[i] = lines[i]
    <3>1. ASSUME NEW i \in 1..Len(echoes) PROVE echoes[i] = fed[i]
      <4>1. (B + i) - B = i
        BY <1>0
      <4>2. said[B + i] = fed[(B + i) - B]
        BY <1>5 DEF EchoInv, AllEchoed, B
      <4>. QED  BY <1>4, <4>1, <4>2
    <3>2. \A i \in 1..Len(echoes) : i \in 1..Len(fed)
      BY <1>5, <1>a, <2>1
    <3>. QED  BY <1>a, <3>1, <3>2 DEF Begins
  <2>3. lines \in Seq(-1..Len(script)) /\ Len(lines) \in Nat
    <3>1. sent \div 2 \in 0..Len(script) /\ TypeOK
      BY <1>0 DEF EchoTypeOK, TypeOK, ClientTypeOK
    <3>. QED  BY <3>1, LinesAreGood DEF lines
  <2>4. Len(echoes) <= Len(lines)
    BY <1>5, <1>a, <2>1, <2>3 DEF Begins
  <2>5. SubSeq(echoes, 1, Len(echoes)) = SubSeq(lines, 1, Len(echoes))
    BY <1>4, <1>5, <2>2, <2>3, <2>4
  <2>. QED  BY <2>4, <2>5 DEF IsPrefix
<1>. QED  BY <1>3, <1>6, <1>7, <1>8 DEF EchoKept, echoes, lines, B

\* Nothing is in the pipe when a line for appmain comes.
LEMMA OneLineSuffices ==
  ASSUME EchoTypeOK, Given, Paced, Plain, EchoInv
  PROVE  OneLineAhead
<1> SUFFICES ASSUME patient PROVE Len(fed) - taken <= IF pc = "write" THEN 0 ELSE 1
  BY DEF OneLineAhead
<1> DEFINE n == Len(Lines(sent \div 2))
<1>1. /\ Len(fed) \in Nat /\ taken \in 0..Len(fed) /\ n \in Nat
      /\ Len(fed) <= n /\ (pc = "write" => Len(fed) < n)
  BY LinesOnTheWay DEF EchoTypeOK, Begins
<1>2. n <= taken + 1
  BY DEF EchoInv, AllEchoed
<1> HIDE DEF n
<1>. QED  BY <1>1, <1>2

\* What the two loops keep, step by step.
THEOREM EchoInvariant == ASSUME Plain PROVE EchoSpec => []EchoInv
<1>1. EchoInit => EchoInv
  <2> SUFFICES ASSUME EchoInit PROVE EchoInv
    OBVIOUS
  <2>1. /\ toClient = << >> /\ said = << >> /\ at = "main" /\ taken = 0 /\ sent = 0
        /\ pc = "start" /\ rd["out"] = 0 /\ script \in Seq(Kinds)
    BY ScriptType DEF EchoInit, Init
  <2>2. OutFrames = << >> /\ Len(OutFrames) = 0
    BY <2>1, WithoutEmpty DEF OutFrames
  <2>3. Lines(sent \div 2) = << >>
    <3>1. sent \div 2 = 0 /\ 0 \in 0..Len(script)
      BY <2>1
    <3>. QED  BY <2>1, <3>1, LinesType
  <2>4. (Banner + 1)..Len(said) = {} /\ Len(said) = 0
    BY <2>1, BannerAssumption
  <2>5. OneByOne /\ Pieces /\ Counted
    BY <2>1, <2>2 DEF OneByOne, Pieces, Counted, Start
  <2>6. Echoed /\ AllEchoed
    BY <2>1, <2>3, <2>4 DEF Echoed, AllEchoed
  <2>. QED  BY <2>5, <2>6 DEF EchoInv
<1>2. EchoTypeOK /\ EchoTypeOK' /\ LineInv /\ InputOrder /\ Paced /\ Given /\ EchoInv
        /\ [EchoNext]_echoVars => EchoInv'
  BY EchoInvKept
<1>3. Spec => [](Paced /\ Given)
  BY NothingLost
<1>. QED
  BY <1>1, <1>2, <1>3, EchoTypes, EchoIsSession, LinesHold, InputIsOrdered, PTL DEF EchoSpec

\* Through both loops the client that does not cut its frames, types ahead of
\* the network or sends long ones sees the banner and its lines, in order and
\* none twice; if it waits for the echoes it sees them all.
THEOREM EchoIsKept == ASSUME Plain PROVE EchoSpec => []EchoKept
<1>1. EchoTypeOK /\ LineInv /\ Paced /\ Given /\ EchoInv => EchoKept
  BY EchoInvSuffices
<1>2. Spec => [](Paced /\ Given)
  BY NothingLost
<1>. QED
  BY <1>1, <1>2, EchoInvariant, EchoTypes, EchoIsSession, LinesHold, PTL

\* The client that waits for its echoes never has two lines in appmain's
\* stdin: the session's write() does not wait there, while appmain's may wait
\* for the session, and no line is thrown away, however small the pipes are.
THEOREM WritesNeverMeet == ASSUME Plain PROVE EchoSpec => []OneLineAhead
<1>1. EchoTypeOK /\ Paced /\ Given /\ EchoInv => OneLineAhead
  BY OneLineSuffices
<1>2. Spec => [](Paced /\ Given)
  BY NothingLost
<1>. QED
  BY <1>1, <1>2, EchoInvariant, EchoTypes, EchoIsSession, PTL
=============================================================================
