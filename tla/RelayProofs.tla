---------------------------- MODULE RelayProofs ----------------------------
(***************************************************************************)
(* Session implements LineRelay for the application's stdout, for every    *)
(* value of the constants: however the loop interleaves its callbacks and  *)
(* wherever the connection breaks.                                         *)
(***************************************************************************)
EXTENDS SessionProofs

USE DEF socket, pipes, inHand, Streams, Ended, Gone, Garbage, CliExit, CloseFrame, LogDebug

Shown == {toClient[i] : i \in DOMAIN toClient} \ {CloseFrame}
Start == IF pc = "out" THEN mark ELSE rd["out"]
Link  == sockOpen /\ peer \in {"open", "fin"}

\* All that LineRelay sees of a session.
relayed == <<wlog["out"], "out" \notin open, rd["out"], Start, Shown, Link>>

\* Nothing is written before MakeChild.
Fresh == pc = "start" => wlog["out"] = << >>

\* A frame that the transport accepts is shown; the closing frame is not.
LEMMA ShownGrows ==
  ASSUME TypeOK, NEW f \in [from : Nat, to : Nat], toClient' = Append(toClient, f)
  PROVE  Shown' = IF f = CloseFrame THEN Shown ELSE Shown \cup {f}
<1>1. /\ DOMAIN toClient = 1..Len(toClient) /\ Len(toClient) \in Nat
      /\ DOMAIN toClient' = 1..(Len(toClient) + 1)
      /\ \A i \in 1..Len(toClient) : toClient'[i] = toClient[i]
      /\ toClient'[Len(toClient) + 1] = f
  BY AppendType DEF TypeOK, ClientTypeOK
<1>2. {toClient'[i] : i \in DOMAIN toClient'} = {toClient[i] : i \in DOMAIN toClient} \cup {f}
  BY <1>1
<1>. QED  BY <1>2 DEF Shown

\* safeSend shows the frame if the link is up, and never changes the link.
LEMMA SendShows ==
  ASSUME TypeOK, NEW f \in [from : Nat, to : Nat], NEW ok, NEW failed,
         SafeSend(f, ok, failed)
  PROVE  /\ Link' = Link
         /\ Shown' = IF Link /\ f # CloseFrame THEN Shown \cup {f} ELSE Shown
<1>1. CASE sockOpen /\ peer \in {"open", "fin"} /\ toClient' = Append(toClient, f)
             /\ UNCHANGED <<peer, sockOpen>>
  BY <1>1, ShownGrows DEF Link
<1>2. CASE ~Link /\ ~Link' /\ UNCHANGED toClient
  BY <1>2 DEF Shown, Link
<1>. QED  BY <1>1, <1>2 DEF SafeSend, Link

\* Steps of the session that LineRelay does not see.
LEMMA UnseenSteps ==
  ASSUME TypeOK, UNCHANGED <<wlog, rd, open>>, Link' = Link, Shown' = Shown, Start' = Start
  PROVE  UNCHANGED relayed
  BY DEF relayed

\* Every step of a session is a step of LineRelay or none.
LEMMA StepRelays ==
  ASSUME TypeOK, CountTracksApp, Fresh, [Next]_vars
  PROVE  [OutRelay!Next]_(OutRelay!vars)
<1>0. /\ wlog["out"] \in Seq(BOOLEAN) /\ Len(wlog["out"]) \in Nat
      /\ rd \in [Streams -> Nat] /\ rd["out"] \in Nat /\ rd["out"] <= Len(wlog["out"])
      /\ mark \in Nat /\ wlog \in [Streams -> Seq(BOOLEAN)] /\ open \subseteq Streams
  BY DEF TypeOK, AppTypeOK, ThreadTypeOK
<1>a. ASSUME UNCHANGED relayed PROVE [OutRelay!Next]_(OutRelay!vars)
  BY <1>a DEF relayed, Start, Shown, Link, OutRelay!vars
<1> USE <1>0 DEF client, process, globals
<1>1. ASSUME NEW s \in Streams, NEW nl \in BOOLEAN, AppWrite(s, nl)
      PROVE  [OutRelay!Next]_(OutRelay!vars)
  <2>1. UNCHANGED <<rd, open, pc, mark, toClient, sockOpen, peer>> /\ s \in open
    BY <1>1 DEF AppWrite
  <2>2. CASE s = "out"
    <3>1. wlog'["out"] = Append(wlog["out"], nl)
      BY <1>1, <2>2 DEF AppWrite
    <3>. QED  BY <2>1, <2>2, <3>1 DEF OutRelay!Next, OutRelay!Write
  <2>3. CASE s = "err"
    <3>1. wlog'["out"] = wlog["out"]
      BY <1>1, <2>3 DEF AppWrite
    <3>. QED  BY <2>1, <3>1, <1>a DEF relayed, Start, Shown, Link
  <2>. QED  BY <2>2, <2>3
<1>2. CASE AppExit \/ KernelReleasesApp \/ \E s \in Streams : AppClose(s)
  <2>1. UNCHANGED <<wlog, rd, pc, mark, toClient, sockOpen, peer>> /\ open' \subseteq open
    BY <1>2 DEF AppExit, KernelReleasesApp, AppClose
  <2>2. CASE "out" \in open /\ "out" \notin open'
    BY <2>1, <2>2 DEF OutRelay!Next, OutRelay!Close
  <2>3. CASE ("out" \in open) <=> ("out" \in open')
    BY <2>1, <2>3, <1>a DEF relayed, Start, Shown, Link
  <2>. QED  BY <2>1, <2>2, <2>3
<1>3. CASE ClientLeave
  <2>1. UNCHANGED <<wlog, rd, open, pc, mark, toClient, sockOpen>>
    BY <1>3 DEF ClientLeave
  <2>2. Link' => Link
    BY <1>3, <2>1 DEF ClientLeave, Link
  <2>3. CASE Link /\ ~Link'
    BY <2>1, <2>3 DEF OutRelay!Next, OutRelay!LinkDown, Link
  <2>4. CASE Link <=> Link'
    BY <2>1, <2>4, <1>a DEF relayed, Start, Shown
  <2>. QED  BY <2>2, <2>3, <2>4
<1>4. CASE MakeChild
  <2>1. wlog["out"] = << >> /\ "out" \notin Ended
    BY <1>4 DEF MakeChild, Fresh
  <2>2. UNCHANGED <<wlog, rd, toClient, sockOpen, peer, mark>> /\ pc = "start" /\ pc' = "loop"
    BY <1>4 DEF MakeChild
  <2>3. CASE "out" \in open'
    BY <2>1, <2>2, <2>3 DEF OutRelay!Next, OutRelay!Open
  <2>4. CASE open' = open
    BY <2>2, <2>4, <1>a DEF relayed, Start, Shown, Link
  <2>. QED  BY <1>4, <2>3, <2>4 DEF MakeChild
<1>5. CASE Poll \/ ChildExit \/ IdleStop \/ IdleCheck \/ ClientSend
             \/ \E n \in 1..(Len(fed) - taken) : AppRead(n)
  <2>1. /\ UNCHANGED <<wlog, rd, open, mark, toClient, sockOpen, peer>>
        /\ pc' = pc \/ (pc = "loop" /\ pc' = "exited")
    BY <1>5 DEF Poll, ChildExit, IdleStop, IdleCheck, ClientSend, AppRead
  <2>. QED  BY <2>1, <1>a DEF relayed, Start, Shown, Link
<1>6. ASSUME NEW e \in {"sock", "out", "err"}, NEW at \in {"recv", "out", "err"},
             at = "out" <=> e = "out", Invoke(e, at)
      PROVE  [OutRelay!Next]_(OutRelay!vars)
  <2>1. /\ UNCHANGED <<wlog, rd, open, toClient, sockOpen, peer>>
        /\ pc = "loop" /\ pc' = at /\ (e = "out" => mark' = rd["out"])
    BY <1>6 DEF Invoke
  <2>2. Start' = Start
    BY <1>6, <2>1 DEF Start
  <2>. QED  BY <2>1, <2>2, <1>a DEF relayed, Shown, Link
<1>7. CASE (\E n \in 1..(sent - got) : Recv(n)) \/ RecvEof \/ RecvError \/ WriteStdin
  <2>1. /\ UNCHANGED <<wlog, rd, open, mark, toClient, sockOpen>>
        /\ pc # "out" /\ pc' # "out" /\ Link' = Link
    BY <1>7 DEF Recv, RecvEof, RecvError, WriteStdin, Link
  <2>. QED  BY <2>1, <1>a DEF relayed, Start, Shown
<1>8. CASE Reply
  <2>1. UNCHANGED <<wlog, rd, open, mark>> /\ pc = "reply"
    BY <1>8 DEF Reply
  <2>2. PICK ok \in {"write", "recv"}, failed \in {"write", "loop"} : SafeSend(CloseFrame, ok, failed)
    BY <1>8 DEF Reply
  <2>3. Link' = Link /\ Shown' = Shown /\ pc' # "out"
    <3>1. CloseFrame \in [from : Nat, to : Nat]
      OBVIOUS
    <3>2. Link' = Link /\ Shown' = Shown
      BY <2>2, <3>1, SendShows
    <3>. QED  BY <2>2, <3>2 DEF SafeSend
  <2>. QED  BY <2>1, <2>3, <1>a DEF relayed, Start
<1>9. CASE ReadPiece("out")
  <2>1. /\ pc = "out" /\ rd["out"] < Len(wlog["out"])
        /\ rd'["out"] = rd["out"] + 1 /\ UNCHANGED <<wlog, open>>
    BY <1>9 DEF ReadPiece, Unread
  <2>2. CASE wlog["out"][rd["out"] + 1]
    <3>1. /\ SafeSend([from |-> mark + 1, to |-> rd["out"] + 1], "out", "out")
          /\ mark' = rd["out"] + 1
      BY <1>9, <2>2 DEF ReadPiece, SendLine
    <3>2. /\ [from |-> mark + 1, to |-> rd["out"] + 1] \in [from : Nat, to : Nat]
          /\ [from |-> mark + 1, to |-> rd["out"] + 1] # CloseFrame
      OBVIOUS
    <3>3. /\ Link' = Link
          /\ Shown' = IF Link THEN Shown \cup {[from |-> mark + 1, to |-> rd["out"] + 1]} ELSE Shown
      BY <3>1, <3>2, SendShows
    <3>4. Start = mark /\ Start' = rd["out"] + 1
      BY <2>1, <3>1 DEF Start
    <3>. QED  BY <2>1, <2>2, <3>3, <3>4
           DEF OutRelay!Next, OutRelay!Take, OutRelay!Show, Start, Shown, Link
  <2>3. CASE ~wlog["out"][rd["out"] + 1]
    <3>1. UNCHANGED <<peer, sockOpen, toClient, pc, mark>>
      BY <1>9, <2>3 DEF ReadPiece
    <3>. QED  BY <2>1, <2>3, <3>1 DEF OutRelay!Next, OutRelay!Take
  <2>. QED  BY <2>2, <2>3
<1>10. CASE ReadRest("out")
  <2>1. /\ pc = "out" /\ rd["out"] = Len(wlog["out"]) /\ "out" \notin open /\ mark < rd["out"]
        /\ SafeSend([from |-> mark + 1, to |-> rd["out"]], "out", "out")
        /\ mark' = rd["out"] /\ UNCHANGED <<wlog, rd, open>>
    BY <1>10 DEF ReadRest, SendLine, Unread
  <2>2. /\ [from |-> mark + 1, to |-> rd["out"]] \in [from : Nat, to : Nat]
        /\ [from |-> mark + 1, to |-> rd["out"]] # CloseFrame
    OBVIOUS
  <2>3. /\ Link' = Link
        /\ Shown' = IF Link THEN Shown \cup {[from |-> mark + 1, to |-> rd["out"]]} ELSE Shown
    BY <2>1, <2>2, SendShows
  <2>4. Start = mark /\ Start' = rd["out"]
    BY <2>1 DEF Start
  <2>. QED  BY <2>1, <2>3, <2>4
         DEF OutRelay!Next, OutRelay!Rest, OutRelay!Show, Start, Shown, Link
<1>11. CASE ReadAgain("out")
  <2>1. /\ pc = "out" /\ pc' = "loop" /\ rd["out"] = Len(wlog["out"]) /\ "out" \in open
        /\ UNCHANGED <<wlog, rd, open, toClient, sockOpen, peer>>
    BY <1>11 DEF ReadAgain, Unread
  <2>. QED  BY <2>1 DEF OutRelay!Next, OutRelay!Forget
<1>12. CASE ReadEof("out")
  <2>1. /\ pc = "out" /\ pc' = "loop" /\ mark = rd["out"]
        /\ UNCHANGED <<wlog, rd, open, toClient, sockOpen, peer>>
    BY <1>12 DEF ReadEof
  <2>. QED  BY <2>1, <1>a DEF relayed, Start, Shown, Link
<1>13. CASE ReadPiece("err") \/ ReadAgain("err") \/ ReadRest("err") \/ ReadEof("err")
  <2>1. /\ pc = "err" /\ pc' # "out" /\ rd'["out"] = rd["out"]
        /\ UNCHANGED <<wlog, open, toClient, sockOpen, peer>>
    BY <1>13 DEF ReadPiece, ReadAgain, ReadRest, ReadEof, SendLine
  <2>. QED  BY <2>1, <1>a DEF relayed, Start, Shown, Link
<1>14. CASE UNCHANGED vars
  BY <1>14, <1>a DEF vars, relayed, Start, Shown, Link
<1>. QED
  BY <1>1, <1>2, <1>3, <1>4, <1>5, <1>6, <1>7, <1>8, <1>9, <1>10, <1>11, <1>12,
     <1>13, <1>14
  DEF Next, Thread, Environment, FromClient, FromChild

\* The application writes after MakeChild only.
LEMMA FreshKept ==
  ASSUME TypeOK, CountTracksApp, Fresh, [Next]_vars
  PROVE  Fresh'
<1>1. ASSUME pc' = "start" PROVE pc = "start" /\ wlog' = wlog
  <2>1. \/ pc' # "start"
        \/ UNCHANGED <<pc, wlog>>
        \/ pc' = pc /\ app = "running"
    BY DEF Next, Thread, Environment, FromClient, FromChild, client, process, globals, vars,
       ClientSend, ClientLeave, AppWrite, AppRead, AppClose, AppExit, KernelReleasesApp,
       MakeChild, Poll, Invoke, ChildExit, IdleStop, IdleCheck, Recv, RecvEof, RecvError,
       Reply, WriteStdin, ReadPiece, ReadAgain, ReadRest, ReadEof, SendLine, SafeSend
  <2>. QED  BY <1>1, <2>1 DEF CountTracksApp
<1>. QED  BY <1>1 DEF Fresh

\* A session relays its application's stdout as LineRelay promises.
THEOREM OutputIsRelayed == Spec => RelaysOutput
<1>1. Init => OutRelay!Init /\ Fresh
  <2>1. ASSUME Init PROVE OutRelay!Init
    BY <2>1 DEF Init, OutRelay!Init
  <2>2. Init => Fresh
    BY DEF Init, Fresh
  <2>. QED  BY <2>1, <2>2
<1>. QED
  BY <1>1, StepRelays, FreshKept, TypeCorrect, PTL DEF Spec, RelaysOutput, OutRelay!Spec
-----------------------------------------------------------------------------
(* LineIntegrity. *)

\* The frames of lines lie behind the start of the current line, in order.
RelayedFrames ==
  \A i \in Relayed :
    /\ 1 <= toClient[i].from /\ toClient[i].from <= toClient[i].to /\ toClient[i].to <= Start
    /\ \A k \in toClient[i].from..(toClient[i].to - 1) : ~wlog["out"][k]
    /\ \A j \in Relayed : i < j => toClient[i].to < toClient[j].from

\* The current line has no newline yet.
Unended == Start <= rd["out"] /\ \A k \in (Start + 1)..rd["out"] : ~wlog["out"][k]

\* Every line that was read to its newline is sent.
NoneMissing ==
  sockOpen /\ pc # "killed" =>
    \A k \in 1..rd["out"] : wlog["out"][k] => \E i \in Relayed : toClient[i].to = k

LineInv == RelayedFrames /\ Unended /\ NoneMissing

\* The entries of a sequence.
LEMMA EntryType ==
  ASSUME NEW S, NEW q \in Seq(S)
  PROVE  Len(q) \in Nat /\ DOMAIN q = 1..Len(q) /\ \A i \in 1..Len(q) : q[i] \in S
  OBVIOUS

\* The numbers and the frames that LineInv is about.
LEMMA LineTypes ==
  ASSUME TypeOK
  PROVE  /\ wlog["out"] \in Seq(BOOLEAN) /\ Len(wlog["out"]) \in Nat
         /\ rd["out"] \in Nat /\ rd["out"] <= Len(wlog["out"]) /\ mark \in Nat /\ Start \in Nat
         /\ Relayed \subseteq 1..Len(toClient) /\ Len(toClient) \in Nat
         /\ toClient \in Seq([from : Nat, to : Nat])
         /\ \A i \in Relayed : toClient[i].from \in Nat /\ toClient[i].to \in Nat
<1>1. toClient \in Seq([from : Nat, to : Nat])
  BY DEF TypeOK, ClientTypeOK
<1>2. /\ Relayed \subseteq 1..Len(toClient) /\ Len(toClient) \in Nat
      /\ \A i \in 1..Len(toClient) : toClient[i] \in [from : Nat, to : Nat]
  BY <1>1, EntryType DEF Relayed
<1>3. \A i \in Relayed : toClient[i].from \in Nat /\ toClient[i].to \in Nat
  BY <1>2
<1>4. /\ wlog["out"] \in Seq(BOOLEAN) /\ rd["out"] \in Nat /\ rd["out"] <= Len(wlog["out"])
      /\ mark \in Nat
  BY DEF TypeOK, AppTypeOK, ThreadTypeOK
<1>5. Start \in Nat /\ Len(wlog["out"]) \in Nat
  BY <1>4 DEF Start
<1>. QED  BY <1>1, <1>2, <1>3, <1>4, <1>5

\* A step that reads and sends nothing of stdout; it may begin a line, or
\* give one up that has no newline.
LEMMA NothingRead ==
  ASSUME TypeOK, LineInv, Relayed' = Relayed,
         \A i \in Relayed : toClient'[i] = toClient[i],
         rd'["out"] = rd["out"], Start' \in {Start, rd["out"]},
         \A k \in 1..Len(wlog["out"]) : wlog'["out"][k] = wlog["out"][k],
         sockOpen' /\ pc' # "killed" => sockOpen /\ pc # "killed"
  PROVE  LineInv'
<1>0. /\ Len(wlog["out"]) \in Nat /\ rd["out"] \in Nat /\ rd["out"] <= Len(wlog["out"])
      /\ Start \in Nat
      /\ \A i \in Relayed : toClient[i].from \in Nat /\ toClient[i].to \in Nat
  BY LineTypes
<1>1. Start <= Start' /\ Start' <= rd["out"] /\ Start' \in Nat
  BY <1>0 DEF LineInv, Unended
<1>2. Unended'
  <2>1. ASSUME NEW k \in (Start' + 1)..rd["out"] PROVE ~wlog'["out"][k]
    <3>1. \A n \in Nat : Start <= n => \A l \in (n + 1)..rd["out"] :
            l \in (Start + 1)..rd["out"] /\ l \in 1..Len(wlog["out"])
      BY <1>0
    <3>2. k \in (Start + 1)..rd["out"] /\ k \in 1..Len(wlog["out"])
      BY <1>1, <3>1
    <3>. QED  BY <3>2 DEF LineInv, Unended
  <2>. QED  BY <1>1, <2>1 DEF Unended
<1>3. RelayedFrames'
  <2>1. ASSUME NEW i \in Relayed
        PROVE  /\ 1 <= toClient[i].from /\ toClient[i].from <= toClient[i].to
               /\ toClient[i].to <= Start'
               /\ \A k \in toClient[i].from..(toClient[i].to - 1) : ~wlog'["out"][k]
    <3>1. /\ 1 <= toClient[i].from /\ toClient[i].from <= toClient[i].to
          /\ toClient[i].to <= Start
          /\ \A k \in toClient[i].from..(toClient[i].to - 1) : ~wlog["out"][k]
      BY DEF LineInv, RelayedFrames
    <3>2. \A k \in toClient[i].from..(toClient[i].to - 1) : k \in 1..Len(wlog["out"])
      BY <1>0, <1>1, <3>1
    <3>. QED  BY <1>0, <1>1, <3>1, <3>2
  <2>2. \A i, j \in Relayed : i < j => toClient[i].to < toClient[j].from
    BY DEF LineInv, RelayedFrames
  <2>. QED  BY <2>1, <2>2 DEF RelayedFrames
<1>4. NoneMissing'
  <2>1. \A k \in 1..rd["out"] : k \in 1..Len(wlog["out"])
    BY <1>0
  <2>. QED  BY <2>1 DEF LineInv, NoneMissing
<1>. QED  BY <1>2, <1>3, <1>4 DEF LineInv

\* The closing frame is not a line.
LEMMA ClosingSent ==
  ASSUME TypeOK, toClient' \in {toClient, Append(toClient, CloseFrame)}
  PROVE  Relayed' = Relayed /\ \A i \in Relayed : toClient'[i] = toClient[i]
<1>1. CASE toClient' = toClient
  BY <1>1 DEF Relayed
<1>2. CASE toClient' = Append(toClient, CloseFrame)
  <2>1. CloseFrame \in [from : Nat, to : Nat]
    OBVIOUS
  <2>2. /\ DOMAIN toClient = 1..Len(toClient) /\ Len(toClient) \in Nat
        /\ DOMAIN toClient' = 1..(Len(toClient) + 1)
        /\ \A i \in 1..Len(toClient) : toClient'[i] = toClient[i]
        /\ toClient'[Len(toClient) + 1] = CloseFrame
    BY <1>2, <2>1, AppendType DEF TypeOK, ClientTypeOK
  <2>. QED  BY <2>2 DEF Relayed
<1>. QED  BY <1>1, <1>2

\* A line, or the rest of an ended stream, was read to its end and sent.
LEMMA LineSent ==
  ASSUME TypeOK, LineInv, pc = "out", sockOpen, NEW to \in Nat, mark < to,
         to \in {rd["out"], rd["out"] + 1}, wlog' = wlog,
         rd'["out"] = to, Start' = to,
         toClient' = Append(toClient, [from |-> mark + 1, to |-> to])
  PROVE  LineInv'
<1> DEFINE f == [from |-> mark + 1, to |-> to]
           n == Len(toClient)
<1>0. /\ rd["out"] \in Nat /\ mark \in Nat /\ n \in Nat
      /\ \A i \in Relayed : toClient[i].from \in Nat /\ toClient[i].to \in Nat
      /\ Relayed \subseteq 1..n
  BY LineTypes
<1>1. /\ Start = mark /\ mark <= rd["out"]
      /\ \A k \in (mark + 1)..rd["out"] : ~wlog["out"][k]
  BY DEF LineInv, Unended, Start
<1>2. f \in [from : Nat, to : Nat] /\ f # CloseFrame /\ f.from = mark + 1 /\ f.to = to
  BY <1>0
<1>3. /\ DOMAIN toClient = 1..n /\ DOMAIN toClient' = 1..(n + 1)
      /\ \A i \in 1..n : toClient'[i] = toClient[i]
      /\ toClient'[n + 1] = f
  BY <1>2, AppendType DEF TypeOK, ClientTypeOK
<1> HIDE DEF f, n
<1>4. Relayed' = Relayed \cup {n + 1} /\ n + 1 \notin Relayed
  BY <1>0, <1>2, <1>3 DEF Relayed
<1>5. Unended'
  BY <1>0 DEF Unended
<1>6. RelayedFrames'
  <2>1. ASSUME NEW i \in Relayed
        PROVE  /\ 1 <= toClient'[i].from /\ toClient'[i].from <= toClient'[i].to
               /\ toClient'[i].to <= mark
               /\ \A k \in toClient'[i].from..(toClient'[i].to - 1) : ~wlog["out"][k]
               /\ \A j \in Relayed : i < j => toClient'[i].to < toClient'[j].from
    BY <1>0, <1>1, <1>3 DEF LineInv, RelayedFrames
  <2>2. \A k \in (mark + 1)..(to - 1) : ~wlog["out"][k]
    BY <1>0, <1>1
  <2>3. ASSUME NEW i \in Relayed'
        PROVE  /\ 1 <= toClient'[i].from /\ toClient'[i].from <= toClient'[i].to
               /\ toClient'[i].to <= to
               /\ \A k \in toClient'[i].from..(toClient'[i].to - 1) : ~wlog["out"][k]
    <3>1. CASE i \in Relayed
      BY <1>0, <1>1, <1>3, <2>1, <3>1
    <3>2. CASE i = n + 1
      BY <1>0, <1>2, <1>3, <2>2, <3>2
    <3>. QED  BY <1>4, <3>1, <3>2
  <2>4. ASSUME NEW i \in Relayed', NEW j \in Relayed', i < j
        PROVE  toClient'[i].to < toClient'[j].from
    <3>1. CASE j \in Relayed
      <4>1. j \in 1..n
        BY <1>0, <3>1
      <4>2. i \in Relayed
        BY <1>0, <1>4, <2>4, <4>1
      <4>. QED  BY <2>1, <2>4, <3>1, <4>2
    <3>2. CASE j = n + 1
      <4>1. i \in Relayed
        BY <1>0, <1>4, <2>4, <3>2
      <4>. QED  BY <1>0, <1>2, <1>3, <2>1, <3>2, <4>1
    <3>. QED  BY <1>4, <3>1, <3>2
  <2>. QED  BY <2>3, <2>4 DEF RelayedFrames
<1>7. NoneMissing'
  <2> SUFFICES ASSUME NEW k \in 1..to, wlog["out"][k]
               PROVE  \E i \in Relayed' : toClient'[i].to = k
    BY DEF NoneMissing
  <2>1. CASE k = to
    BY <1>2, <1>3, <1>4, <2>1
  <2>2. CASE k # to
    <3>1. k \in 1..rd["out"]
      BY <1>0, <2>2
    <3>2. PICK i \in Relayed : toClient[i].to = k
      BY <3>1 DEF LineInv, NoneMissing
    <3>. QED  BY <1>0, <1>3, <1>4, <3>2
  <2>. QED  BY <2>1, <2>2
<1>. QED  BY <1>5, <1>6, <1>7 DEF LineInv

\* The line was read to its end and could not be sent.
LEMMA LineLost ==
  ASSUME TypeOK, LineInv, NEW to \in Nat, rd["out"] <= to, wlog' = wlog,
         rd'["out"] = to, Start' = to, UNCHANGED toClient,
         ~sockOpen' \/ pc' = "killed"
  PROVE  LineInv'
<1>0. /\ rd["out"] \in Nat /\ Start \in Nat
      /\ \A i \in Relayed : toClient[i].from \in Nat /\ toClient[i].to \in Nat
  BY LineTypes
<1>1. Start <= to /\ Relayed' = Relayed
  BY <1>0 DEF LineInv, Unended, Relayed
<1>2. Unended' /\ NoneMissing'
  BY <1>0 DEF Unended, NoneMissing
<1>3. RelayedFrames'
  <2>1. ASSUME NEW i \in Relayed
        PROVE  /\ 1 <= toClient[i].from /\ toClient[i].from <= toClient[i].to
               /\ toClient[i].to <= to
               /\ \A k \in toClient[i].from..(toClient[i].to - 1) : ~wlog["out"][k]
               /\ \A j \in Relayed : i < j => toClient[i].to < toClient[j].from
    BY <1>0, <1>1 DEF LineInv, RelayedFrames
  <2>. QED  BY <1>1, <2>1 DEF RelayedFrames
<1>. QED  BY <1>2, <1>3 DEF LineInv

\* What safeSend makes of the line.
LEMMA LineGone ==
  ASSUME TypeOK, LineInv, pc = "out", NEW to \in Nat, mark < to,
         to \in {rd["out"], rd["out"] + 1}, wlog' = wlog, rd'["out"] = to, mark' = to,
         SafeSend([from |-> mark + 1, to |-> to], "out", "out")
  PROVE  LineInv'
<1>0. rd["out"] \in Nat /\ rd["out"] <= to
  BY LineTypes
<1>1. Start' = to
  BY DEF Start
<1>2. CASE sockOpen /\ toClient' = Append(toClient, [from |-> mark + 1, to |-> to])
  BY <1>1, <1>2, LineSent
<1>3. CASE UNCHANGED toClient /\ (~sockOpen' \/ pc' = "killed")
  BY <1>0, <1>1, <1>3, LineLost
<1>. QED  BY <1>2, <1>3 DEF SafeSend

-----------------------------------------------------------------------------
\* Every step keeps the lines whole and in order.
LEMMA LinesKept ==
  ASSUME TypeOK, LineInv, [Next]_vars
  PROVE  LineInv'
<1>0. /\ wlog["out"] \in Seq(BOOLEAN) /\ Len(wlog["out"]) \in Nat
      /\ rd["out"] \in Nat /\ rd["out"] <= Len(wlog["out"]) /\ mark \in Nat
      /\ rd \in [Streams -> Nat] /\ wlog \in [Streams -> Seq(BOOLEAN)]
  BY LineTypes DEF TypeOK, AppTypeOK
<1>a. ASSUME toClient' = toClient, wlog' = wlog, rd' = rd, Start' \in {Start, rd["out"]},
             sockOpen' /\ pc' # "killed" => sockOpen /\ pc # "killed"
      PROVE  LineInv'
  <2>1. Relayed' = Relayed
    BY <1>a DEF Relayed
  <2>. QED  BY <1>a, <2>1, NothingRead
<1> USE DEF client, process, globals
<1>1. ASSUME NEW s \in Streams, NEW nl \in BOOLEAN, AppWrite(s, nl) PROVE LineInv'
  <2>1. /\ UNCHANGED <<rd, pc, mark, toClient, sockOpen>>
        /\ wlog'["out"] \in {wlog["out"], Append(wlog["out"], nl)}
    BY <1>0, <1>1 DEF AppWrite
  <2>2. \A k \in 1..Len(wlog["out"]) : wlog'["out"][k] = wlog["out"][k]
    BY <1>0, <2>1, AppendType
  <2>3. Start' = Start /\ Relayed' = Relayed
    BY <2>1 DEF Start, Relayed
  <2>. QED  BY <2>1, <2>2, <2>3, NothingRead
<1>2. CASE AppExit \/ KernelReleasesApp \/ ClientLeave \/ ClientSend
             \/ (\E s \in Streams : AppClose(s)) \/ \E n \in 1..(Len(fed) - taken) : AppRead(n)
  <2>1. UNCHANGED <<wlog, rd, pc, mark, toClient, sockOpen>>
    BY <1>2 DEF AppExit, KernelReleasesApp, ClientLeave, ClientSend, AppClose, AppRead
  <2>. QED  BY <2>1, <1>a DEF Start
<1>3. CASE MakeChild \/ Poll \/ ChildExit \/ IdleStop \/ IdleCheck
  <2>1. /\ UNCHANGED <<wlog, rd, mark, toClient, sockOpen>>
        /\ pc \in {"start", "loop"} /\ pc' \in {"loop", "exited"}
    BY <1>3 DEF MakeChild, Poll, ChildExit, IdleStop, IdleCheck
  <2>. QED  BY <2>1, <1>a DEF Start
<1>4. ASSUME NEW e \in {"sock", "out", "err"}, NEW at \in {"recv", "out", "err"},
             at = "out" <=> e = "out", Invoke(e, at)
      PROVE  LineInv'
  <2>1. /\ UNCHANGED <<wlog, rd, toClient, sockOpen>>
        /\ pc = "loop" /\ pc' = at /\ (e = "out" => mark' = rd["out"])
    BY <1>4 DEF Invoke
  <2>2. Start' = rd["out"] /\ pc # "killed"
    BY <1>4, <2>1 DEF Start
  <2>. QED  BY <2>1, <2>2, <1>a
<1>5. CASE (\E n \in 1..(sent - got) : Recv(n)) \/ RecvEof \/ RecvError \/ WriteStdin
  <2>1. /\ UNCHANGED <<wlog, rd, mark, toClient, sockOpen>>
        /\ pc \in {"recv", "write"} /\ pc' # "out"
    BY <1>5 DEF Recv, RecvEof, RecvError, WriteStdin
  <2>. QED  BY <2>1, <1>a DEF Start
<1>6. CASE Reply
  <2>1. UNCHANGED <<wlog, rd, mark>> /\ pc = "reply"
    BY <1>6 DEF Reply
  <2>2. PICK ok \in {"write", "recv"}, failed \in {"write", "loop"} : SafeSend(CloseFrame, ok, failed)
    BY <1>6 DEF Reply
  <2>3. /\ toClient' \in {toClient, Append(toClient, CloseFrame)}
        /\ pc' # "out" /\ (sockOpen' => sockOpen)
    BY <2>2 DEF SafeSend
  <2>4. Relayed' = Relayed /\ \A i \in Relayed : toClient'[i] = toClient[i]
    BY <2>3, ClosingSent
  <2>5. Start' = rd["out"]
    BY <2>1, <2>3 DEF Start
  <2>. QED  BY <2>1, <2>3, <2>4, <2>5, NothingRead
<1>7. CASE ReadPiece("out")
  <2>1. pc = "out" /\ rd'["out"] = rd["out"] + 1 /\ wlog' = wlog
    BY <1>0, <1>7 DEF ReadPiece
  <2>2. Start = mark /\ mark <= rd["out"]
    BY <2>1 DEF Start, LineInv, Unended
  <2>3. CASE wlog["out"][rd["out"] + 1]
    <3>1. /\ SafeSend([from |-> mark + 1, to |-> rd["out"] + 1], "out", "out")
          /\ mark' = rd["out"] + 1
      BY <1>7, <2>3 DEF ReadPiece, SendLine
    <3>. QED  BY <1>0, <2>1, <2>2, <3>1, LineGone
  <2>4. CASE ~wlog["out"][rd["out"] + 1]
    <3>1. UNCHANGED <<sockOpen, toClient, pc, mark>>
      BY <1>7, <2>4 DEF ReadPiece
    <3>2. Start' = mark /\ Relayed' = Relayed
      BY <2>1, <3>1 DEF Start, Relayed
    <3>3. Unended'
      BY <1>0, <2>1, <2>2, <2>4, <3>2 DEF LineInv, Unended
    <3>4. RelayedFrames'
      BY <2>1, <2>2, <3>1, <3>2 DEF LineInv, RelayedFrames
    <3>5. NoneMissing'
      BY <1>0, <2>1, <2>4, <3>1, <3>2 DEF LineInv, NoneMissing
    <3>. QED  BY <3>3, <3>4, <3>5 DEF LineInv
  <2>. QED  BY <2>3, <2>4
<1>8. CASE ReadRest("out")
  <2>1. /\ pc = "out" /\ mark < rd["out"] /\ UNCHANGED <<wlog, rd>> /\ mark' = rd["out"]
        /\ SafeSend([from |-> mark + 1, to |-> rd["out"]], "out", "out")
    BY <1>8 DEF ReadRest, SendLine
  <2>. QED  BY <1>0, <2>1, LineGone
<1>9. CASE ReadAgain("out") \/ ReadEof("out")
  <2>1. /\ pc = "out" /\ pc' = "loop" /\ UNCHANGED <<wlog, rd, toClient, sockOpen>>
    BY <1>9 DEF ReadAgain, ReadEof
  <2>. QED  BY <2>1, <1>a DEF Start
<1>10. CASE ReadPiece("err") \/ ReadAgain("err") \/ ReadRest("err") \/ ReadEof("err")
  <2>1. /\ pc = "err" /\ pc' # "out" /\ rd'["out"] = rd["out"]
        /\ UNCHANGED <<wlog, toClient, sockOpen>>
    BY <1>0, <1>10 DEF ReadPiece, ReadAgain, ReadRest, ReadEof, SendLine
  <2>2. Start' = rd["out"] /\ Relayed' = Relayed
    BY <2>1 DEF Start, Relayed
  <2>. QED  BY <2>1, <2>2, NothingRead
<1>11. CASE UNCHANGED vars
  BY <1>11, <1>a DEF vars, Start
<1>. QED
  BY <1>1, <1>2, <1>3, <1>4, <1>5, <1>6, <1>7, <1>8, <1>9, <1>10, <1>11
  DEF Next, Thread, Environment, FromClient, FromChild

\* Frames, the current line and what was read fit together.
THEOREM LinesHold == Spec => []LineInv
<1>1. Init => LineInv
  <2> SUFFICES ASSUME Init PROVE LineInv
    OBVIOUS
  <2>1. toClient = << >> /\ rd["out"] = 0 /\ pc = "start"
    BY DEF Init
  <2>2. Relayed = {} /\ Start = 0
    BY <2>1 DEF Relayed, Start
  <2>. QED  BY <2>1, <2>2 DEF LineInv, RelayedFrames, Unended, NoneMissing
<1>. QED  BY <1>1, LinesKept, TypeCorrect, PTL DEF Spec

\* The client gets the application's lines whole, in order and once, however
\* the callbacks interleave and wherever the connection breaks.
THEOREM LinesStayWhole == Spec => []LineIntegrity
<1>1. TypeOK /\ LineInv => LineIntegrity
  <2> SUFFICES ASSUME TypeOK, LineInv PROVE LineIntegrity
    OBVIOUS
  <2>1. Start \in Nat /\ rd["out"] \in Nat
        /\ \A i \in Relayed : toClient[i].from \in Nat /\ toClient[i].to \in Nat
    BY LineTypes
  <2>. QED
    BY <2>1 DEF LineInv, RelayedFrames, Unended, NoneMissing, LineIntegrity
<1>. QED  BY <1>1, LinesHold, TypeCorrect, PTL
=============================================================================
