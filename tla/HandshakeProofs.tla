-------------------------- MODULE HandshakeProofs --------------------------
(***************************************************************************)
(* Safety of the opening handshake, for all requests and buffer sizes, and *)
(* the key of its answer.                                                  *)
(***************************************************************************)
EXTENDS AcceptKey, ListProofs, SequenceTheorems, TLAPS

USE DEF Ended

Statuses == {"400", "404", "101", "text"}

\* What a request is, and that its stored lengths fit eight bits.
LEMMA RequestType ==
  ASSUME NEW r \in Requests
  PROVE  /\ r.size \in Nat \ {0}
         /\ \A f \in DOMAIN r.length : r.length[f] \in Nat /\ Stored(r.length[f]) \in 0..255
  BY RequestsAssumption DEF Stored

\* Sending appends one entry to what was sent before.
LEMMA AppendSent ==
  ASSUME toClient \in Seq(Statuses), NEW w \in Statuses, toClient' = Append(toClient, w)
  PROVE  /\ toClient' \in Seq(Statuses) /\ Len(toClient) \in Nat
         /\ \A v : Sent(v) \subseteq 1..Len(toClient)
         /\ Sent(w)' = Sent(w) \cup {Len(toClient) + 1}
         /\ \A v \in Statuses \ {w} : Sent(v)' = Sent(v)
<1>1. /\ Len(toClient) \in Nat /\ DOMAIN toClient = 1..Len(toClient)
      /\ toClient' \in Seq(Statuses) /\ DOMAIN toClient' = 1..(Len(toClient) + 1)
      /\ \A i \in 1..Len(toClient) : toClient'[i] = toClient[i]
      /\ toClient'[Len(toClient) + 1] = w
  OBVIOUS
<1>. QED  BY <1>1 DEF Sent

\* What recv() leads to: the pieces read, and where main goes on.
LEMMA RecvResult ==
  ASSUME TypeOK, NEW n \in Nat, Recv(n)
  PROVE  /\ UNCHANGED <<request, sent, peer, sockOpen, toClient>>
         /\ pc = "recv" /\ pc' \in {"refuse", "missing", "answer", "aborted"}
         /\ readedLength' \in 0..sent
         /\ pc' \in {"missing", "answer"} => request.get /\ readedLength' = request.size
         /\ pc' = "missing" => ~request.echo
         /\ key' = key \/ ("key" \in DOMAIN request.length
                           /\ key' = Stored(request.length["key"]))
<1>1. /\ readedLength' = readedLength + n /\ readedLength' <= sent
      /\ pc' = Verdict(Parse(request, readedLength'), readedLength' = BufLen)
  BY DEF Recv
<1>2. /\ request.size \in Nat /\ sent \in 0..request.size /\ readedLength \in 0..sent
  BY RequestType DEF TypeOK
<1>3. pc' \in {"missing", "answer"} => Parse(request, readedLength') = "opening"
  BY <1>1 DEF Verdict
<1>4. Parse(request, readedLength') = "opening" => request.get /\ readedLength' = request.size
  BY <1>1, <1>2 DEF Parse
<1>. QED  BY <1>1, <1>2, <1>3, <1>4 DEF Recv, Verdict

\* The variables keep their types.
THEOREM TypeCorrect == Spec => []TypeOK
<1>1. Init => TypeOK
  BY RequestType DEF Init, TypeOK
<1>2. TypeOK /\ [Next]_vars => TypeOK'
  <2> SUFFICES ASSUME TypeOK, [Next]_vars PROVE TypeOK'
    OBVIOUS
  <2>0. request \in Requests /\ request.size \in Nat /\ sent \in 0..request.size
        /\ readedLength \in 0..sent
    BY RequestType DEF TypeOK
  <2>1. ASSUME NEW n \in 1..(sent - readedLength), Recv(n) PROVE TypeOK'
    <3>1. n \in Nat
      BY <2>0
    <3>2. /\ UNCHANGED <<request, sent, peer, sockOpen, toClient>>
          /\ pc' \in {"refuse", "missing", "answer", "aborted"} /\ readedLength' \in 0..sent
      BY <2>1, <3>1, RecvResult
    <3>3. key' \in 0..255
      <4>1. key' = key \/ ("key" \in DOMAIN request.length
                           /\ key' = Stored(request.length["key"]))
        BY <2>1, <3>1, RecvResult
      <4>. QED  BY <2>0, <4>1, RequestType DEF TypeOK
    <3>. QED  BY <3>2, <3>3 DEF TypeOK
  <2>2. ASSUME NEW w \in Statuses, NEW ok, NEW failed, SafeSend(w, ok, failed),
               {ok, failed} \subseteq {"answer", "greet", "greet_client", "greet_server", "session"}
        PROVE  TypeOK'
    <3>1. toClient \in Seq(Statuses)
      BY DEF TypeOK, Statuses
    <3>2. toClient' \in Seq(Statuses)
      <4>1. toClient' = toClient \/ toClient' = Append(toClient, w)
        BY <2>2 DEF SafeSend
      <4>. QED  BY <3>1, <4>1, AppendSent
    <3>3. /\ UNCHANGED <<request, sent, readedLength, key>>
          /\ peer' \in {"open", "fin", "rst", "dead"} /\ sockOpen' \in BOOLEAN
          /\ pc' \in {ok, failed, "killed"}
      BY <2>2 DEF SafeSend, TypeOK
    <3>. QED  BY <2>2, <3>2, <3>3 DEF TypeOK, Statuses
  <2>3. CASE Refuse \/ Missing \/ Answer \/ Greeting
    <3>1. CASE Refuse
      BY <2>2, <3>1 DEF Refuse, Statuses
    <3>2. CASE Missing
      BY <2>2, <3>2 DEF Missing, Statuses
    <3>3. CASE Answer
      BY <2>2, <3>3 DEF Answer, Statuses, TypeOK
    <3>4. ASSUME NEW here, NEW next \in {"greet_client", "greet_server", "session"},
                 NEW known, Greet(here, next, known)
          PROVE  TypeOK'
      <4>1. CASE SafeSend("text", next, next)
        BY <2>2, <4>1 DEF Statuses
      <4>2. CASE pc' = next /\ UNCHANGED <<request, sent, peer, sockOpen, toClient,
                                           readedLength, key>>
        BY <4>2 DEF TypeOK
      <4>. QED  BY <3>4, <4>1, <4>2 DEF Greet
    <3>. QED  BY <2>3, <3>1, <3>2, <3>3, <3>4 DEF Greeting
  <2>4. CASE RecvEof \/ RecvError \/ ClientLeave
    <3>1. /\ UNCHANGED <<request, sent, sockOpen, toClient, readedLength, key>>
          /\ peer' \in {"open", "fin", "rst", "dead"} /\ pc' \in {pc} \cup Ended
      BY <2>4 DEF RecvEof, RecvError, ClientLeave, TypeOK
    <3>. QED  BY <3>1 DEF TypeOK
  <2>5. CASE ClientSend
    BY <2>0, <2>5 DEF ClientSend, TypeOK
  <2>6. CASE UNCHANGED vars
    BY <2>6 DEF vars, TypeOK
  <2>. QED
    BY <2>1, <2>3, <2>4, <2>5, <2>6 DEF Next, Main
<1>. QED  BY <1>1, <1>2, PTL DEF Spec
-----------------------------------------------------------------------------
\* What has been sent at each point of main, and what it is known to be good for.
Told ==
  /\ pc \in {"recv", "refuse", "missing"} => toClient = << >>
  /\ pc = "missing" => ~request.echo
  /\ pc = "answer" => toClient = << >> \/ (toClient = <<"404">> /\ ~request.echo)
  /\ pc \in {"missing", "answer"} => request.get /\ readedLength = request.size
  /\ pc \in {"greet", "greet_client", "greet_server", "session"} /\ sockOpen => Answers # {}
  /\ key # 0 => "key" \in DOMAIN request.length

OpeningInv == Told /\ Orderly /\ Upgraded

\* An empty stream has no entry, whatever is looked for.
LEMMA NothingSent ==
  ASSUME toClient = << >>, pc # "session"
  PROVE  Orderly /\ Upgraded /\ \A v : Sent(v) = {}
  BY DEF Orderly, Upgraded, Answers, Sent

\* A frame of the greeting changes nothing that Orderly and Upgraded look at but
\* the texts, and it comes after every answer.
LEMMA TextSent ==
  ASSUME toClient \in Seq(Statuses), toClient' = Append(toClient, "text"),
         Answers # {}, Orderly, Upgraded,
         UNCHANGED <<request, readedLength, key>>
  PROVE  Orderly' /\ Upgraded' /\ Answers' = Answers
<1>1. /\ Len(toClient) \in Nat /\ \A v : Sent(v) \subseteq 1..Len(toClient)
      /\ Sent("text")' = Sent("text") \cup {Len(toClient) + 1}
      /\ Sent("101")' = Sent("101") /\ Sent("400")' = Sent("400")
      /\ Sent("404")' = Sent("404")
  BY AppendSent DEF Statuses
<1>2. Answers' = Answers /\ Answers \subseteq 1..Len(toClient)
  BY <1>1 DEF Answers
<1>3. \A i \in Sent("text")' : Answers' # {} /\ \A j \in Answers' : j < i
  <2>1. \A j \in Answers : j < Len(toClient) + 1
    BY <1>1, <1>2
  <2>. QED  BY <1>1, <1>2, <2>1 DEF Orderly
<1>4. \A i, j \in Answers' : i < j =>
        ~request'.echo /\ toClient'[i] = "404" /\ toClient'[j] = "101"
  <2>1. \A i \in Answers : toClient'[i] = toClient[i]
    BY <1>1, <1>2
  <2>. QED  BY <1>2, <2>1 DEF Orderly
<1>. QED  BY <1>1, <1>2, <1>3, <1>4 DEF Orderly, Upgraded

\* A step that neither sends nor reads.
LEMMA NothingNew ==
  ASSUME OpeningInv, UNCHANGED <<request, toClient, readedLength, key>>,
         sockOpen' => sockOpen,
         pc' \in {pc} \cup Ended
  PROVE  OpeningInv'
  BY DEF OpeningInv, Told, Orderly, Upgraded, Answers, Sent

\* A 101 or a 400: the first answer, or the second behind a 404.
LEMMA VerdictSent ==
  ASSUME NEW w \in {"101", "400"},
         toClient = << >> \/ (toClient = <<"404">> /\ w = "101" /\ ~request.echo),
         toClient' = Append(toClient, w),
         w = "101" => request.get /\ readedLength = request.size
                      /\ "key" \in DOMAIN request.length /\ key # 0,
         UNCHANGED <<request, readedLength, key>>
  PROVE  Orderly' /\ Upgraded' /\ Answers' # {}
<1>1. CASE toClient = << >>
  <2>1. toClient' = <<w>>
    BY <1>1
  <2>2. /\ Sent("text")' = {} /\ Sent("404")' = {} /\ Answers' = {1}
        /\ Sent("101")' # {} => w = "101"
    BY <2>1 DEF Sent, Answers
  <2>. QED  BY <2>2 DEF Orderly, Upgraded
<1>2. CASE toClient = <<"404">> /\ w = "101" /\ ~request.echo
  <2>1. toClient' = Append(<<"404">>, "101")
    BY <1>2
  <2>2. /\ DOMAIN toClient' = {1, 2} /\ toClient'[1] = "404" /\ toClient'[2] = "101"
    BY <2>1
  <2>3. Sent("text")' = {} /\ Answers' = {1, 2}
    BY <2>2 DEF Sent, Answers
  <2>. QED  BY <1>2, <2>2, <2>3 DEF Orderly, Upgraded
<1>. QED  BY <1>1, <1>2

\* Every step of main and of the client keeps the invariant.
LEMMA ToldKept ==
  ASSUME TypeOK, OpeningInv, [Next]_vars
  PROVE  OpeningInv'
<1>0. toClient \in Seq(Statuses)
  BY DEF TypeOK, Statuses
<1>1. ASSUME NEW n \in 1..(sent - readedLength), Recv(n) PROVE OpeningInv'
  <2>1. n \in Nat
    BY RequestType DEF TypeOK
  <2>2. /\ UNCHANGED <<request, toClient>> /\ pc = "recv"
        /\ pc' \in {"refuse", "missing", "answer", "aborted"}
        /\ pc' \in {"missing", "answer"} => request.get /\ readedLength' = request.size
        /\ pc' = "missing" => ~request.echo
        /\ key' = key \/ "key" \in DOMAIN request.length
    BY <1>1, <2>1, RecvResult
  <2>3. toClient' = << >>
    BY <2>2 DEF OpeningInv, Told
  <2>4. Orderly' /\ Upgraded'
    <3>1. \A v : Sent(v)' = {}
      BY <2>3 DEF Sent
    <3>. QED  BY <2>2, <3>1 DEF Orderly, Upgraded, Answers
  <2>5. Told'
    BY <2>2, <2>3 DEF OpeningInv, Told
  <2>. QED  BY <2>4, <2>5 DEF OpeningInv
<1>2. CASE RecvEof \/ RecvError \/ ClientSend \/ ClientLeave \/ UNCHANGED vars
  <2>1. /\ UNCHANGED <<request, toClient, readedLength, key, sockOpen>>
        /\ pc' \in {pc} \cup Ended
    BY <1>2 DEF RecvEof, RecvError, ClientSend, ClientLeave, vars
  <2>. QED  BY <2>1, NothingNew
<1>3. CASE Refuse
  <2>1. /\ UNCHANGED <<request, readedLength, key>> /\ toClient = << >>
        /\ pc' \in {"greet", "killed"}
        /\ \/ toClient' = Append(toClient, "400")
           \/ toClient' = toClient /\ (pc' = "killed" \/ ~sockOpen')
    BY <1>3 DEF Refuse, SafeSend, OpeningInv, Told
  <2>2. CASE toClient' = Append(toClient, "400")
    <3>1. Orderly' /\ Upgraded' /\ Answers' # {}
      BY <2>1, <2>2, VerdictSent
    <3>2. Told'
      BY <2>1, <3>1 DEF OpeningInv, Told
    <3>. QED  BY <3>1, <3>2 DEF OpeningInv
  <2>3. CASE toClient' = toClient /\ (pc' = "killed" \/ ~sockOpen')
    BY <2>1, <2>3 DEF OpeningInv, Told, Orderly, Upgraded, Answers, Sent
  <2>. QED  BY <2>1, <2>2, <2>3
<1>4. CASE Missing
  <2>1. /\ UNCHANGED <<request, readedLength, key>> /\ toClient = << >> /\ ~request.echo
        /\ request.get /\ readedLength = request.size
        /\ \/ toClient' = <<"404">> /\ pc' = "answer"
           \/ toClient' = << >> /\ (pc' = "killed" \/ (pc' = "greet" /\ ~sockOpen'))
    <3>1. /\ toClient = << >> /\ ~request.echo
          /\ request.get /\ readedLength = request.size
      BY <1>4 DEF Missing, OpeningInv, Told
    <3>2. /\ UNCHANGED <<request, readedLength, key>>
          /\ \/ toClient' = Append(toClient, "404") /\ pc' = "answer"
             \/ toClient' = toClient /\ (pc' = "killed" \/ (pc' = "greet" /\ ~sockOpen'))
      <4>1. CASE sockOpen /\ peer \in {"open", "fin"} /\ toClient' = Append(toClient, "404")
                /\ pc' = "answer"
        BY <1>4, <4>1 DEF Missing, SafeSend
      <4>2. CASE sockOpen' = FALSE /\ pc' = "greet" /\ UNCHANGED toClient
        BY <1>4, <4>2 DEF Missing, SafeSend
      <4>3. CASE pc' = "killed" /\ UNCHANGED toClient
        BY <1>4, <4>3 DEF Missing, SafeSend
      <4>. QED  BY <1>4, <4>1, <4>2, <4>3 DEF Missing, SafeSend
    <3>3. Append(<< >>, "404") = <<"404">>
      OBVIOUS
    <3>. QED  BY <3>1, <3>2, <3>3
  <2>2. Sent("text")' = {} /\ Answers' \subseteq {1} /\ Sent("101")' = {}
    BY <2>1 DEF Sent, Answers
  <2>3. Orderly' /\ Upgraded'
    BY <2>1, <2>2 DEF Orderly, Upgraded
  <2>4. Told'
    BY <2>1 DEF OpeningInv, Told
  <2>. QED  BY <2>3, <2>4 DEF OpeningInv
<1>5. CASE Answer
  <2>1. CASE key = 0
    <3>1. UNCHANGED <<request, toClient, readedLength, key, sockOpen>> /\ pc' = "aborted"
      BY <1>5, <2>1 DEF Answer
    <3>. QED  BY <3>1, NothingNew
  <2>2. CASE key # 0
    <3>1. /\ UNCHANGED <<request, readedLength, key>>
          /\ request.get /\ readedLength = request.size /\ "key" \in DOMAIN request.length
          /\ toClient = << >> \/ (toClient = <<"404">> /\ ~request.echo)
          /\ pc' \in {"greet", "killed"}
          /\ \/ toClient' = Append(toClient, "101")
             \/ toClient' = toClient /\ (pc' = "killed" \/ ~sockOpen')
      BY <1>5, <2>2 DEF Answer, SafeSend, OpeningInv, Told
    <3>2. CASE toClient' = Append(toClient, "101")
      <4>1. Orderly' /\ Upgraded' /\ Answers' # {}
        BY <2>2, <3>1, <3>2, VerdictSent
      <4>2. Told'
        BY <3>1, <4>1 DEF OpeningInv, Told
      <4>. QED  BY <4>1, <4>2 DEF OpeningInv
    <3>3. CASE toClient' = toClient /\ (pc' = "killed" \/ ~sockOpen')
      BY <3>1, <3>3 DEF OpeningInv, Told, Orderly, Upgraded, Answers, Sent
    <3>. QED  BY <3>1, <3>2, <3>3
  <2>. QED  BY <2>1, <2>2
<1>6. CASE Greeting
  <2>1. /\ UNCHANGED <<request, readedLength, key>>
        /\ pc \in {"greet", "greet_client", "greet_server"}
        /\ pc' \in {"greet_client", "greet_server", "session", "killed"}
        /\ sockOpen' => sockOpen
        /\ \/ toClient' = Append(toClient, "text") /\ sockOpen
           \/ toClient' = toClient
    BY <1>6 DEF Greeting, Greet, SafeSend
  <2>2. sockOpen => Answers # {}
    BY <2>1 DEF OpeningInv, Told
  <2>3. CASE toClient' = Append(toClient, "text") /\ sockOpen
    <3>1. Orderly' /\ Upgraded' /\ Answers' = Answers
      BY <1>0, <2>1, <2>2, <2>3, TextSent DEF OpeningInv
    <3>2. Told'
      BY <2>1, <2>2, <3>1 DEF OpeningInv, Told
    <3>. QED  BY <3>1, <3>2 DEF OpeningInv
  <2>4. CASE toClient' = toClient
    BY <2>1, <2>2, <2>4 DEF OpeningInv, Told, Orderly, Upgraded, Answers, Sent
  <2>. QED  BY <2>1, <2>3, <2>4
<1>. QED
  BY <1>1, <1>2, <1>3, <1>4, <1>5, <1>6 DEF Next, Main

\* Every answer comes before any frame, and two are a 404 and a 101.
THEOREM AnswersFirst == Spec => []Orderly
<1>1. Init => OpeningInv
  BY NothingSent DEF Init, OpeningInv, Told
<1>2. OpeningInv => Orderly
  BY DEF OpeningInv
<1>. QED  BY <1>1, <1>2, ToldKept, TypeCorrect, PTL DEF Spec

\* 101 answers a whole GET request with a key.
THEOREM UpgradeIsEarned == Spec => []Upgraded
<1>1. Init => OpeningInv
  BY NothingSent DEF Init, OpeningInv, Told
<1>2. OpeningInv => Upgraded
  BY DEF OpeningInv
<1>. QED  BY <1>1, <1>2, ToldKept, TypeCorrect, PTL DEF Spec
-----------------------------------------------------------------------------
\* The function that After computes, for n blocks.
Chain(f, msg, n) ==
  f = [k \in 0..n |->
         IF k = 0 THEN Start ELSE NextBlock(f[k - 1], SubSeq(msg, 64 * k - 63, 64 * k))]

\* There is such a function, for as many blocks as one likes.
LEMMA ChainExists ==
  ASSUME NEW msg, NEW n \in Nat
  PROVE  \E f : Chain(f, msg, n)
<1> DEFINE G == {m \in Nat : \E f : Chain(f, msg, m)}
<1>1. 0 \in G
  <2>1. Chain([k \in 0..0 |-> Start], msg, 0)
    BY DEF Chain
  <2>. QED  BY <2>1
<1>2. ASSUME NEW m \in Nat, m \in G PROVE m + 1 \in G
  <2>1. PICK f : Chain(f, msg, m)
    BY <1>2
  <2> DEFINE Block(k) == SubSeq(msg, 64 * k - 63, 64 * k)
             g == [k \in 0..(m + 1) |->
                     IF k = m + 1 THEN NextBlock(f[m], Block(m + 1)) ELSE f[k]]
  <2> HIDE DEF Block
  <2>2. \A k \in 0..m : g[k] = f[k]
    OBVIOUS
  <2>3. ASSUME NEW k \in 0..(m + 1)
        PROVE  g[k] = IF k = 0 THEN Start ELSE NextBlock(g[k - 1], Block(k))
    <3>1. CASE k = m + 1
      BY <3>1, <2>2
    <3>2. CASE k # m + 1
      <4>1. k \in 0..m /\ g[k] = f[k] /\ (k # 0 => g[k - 1] = f[k - 1])
        BY <3>2, <2>2
      <4>2. f[k] = IF k = 0 THEN Start ELSE NextBlock(f[k - 1], Block(k))
        BY <2>1, <4>1 DEF Chain, Block
      <4>. QED  BY <4>1, <4>2
    <3>. QED  BY <3>1, <3>2
  <2>4. Chain(g, msg, m + 1)
    <3>1. g = [k \in 0..(m + 1) |-> g[k]]
      OBVIOUS
    <3> HIDE DEF g
    <3>. QED  BY <2>3, <3>1 DEF Chain, Block
  <2>. QED  BY <2>4
<1>3. Nat \subseteq G
  <2> HIDE DEF G
  <2>. QED  BY <1>1, <1>2, Induction
<1>. QED  BY <1>3

\* Two messages have the same first n blocks.
SameBlocks(msg, other, n) ==
  \A k \in 1..n : SubSeq(msg, 64 * k - 63, 64 * k) = SubSeq(other, 64 * k - 63, 64 * k)

\* The function is the same for two messages as far as their blocks are.
LEMMA ChainAgrees ==
  ASSUME NEW msg, NEW other, NEW n \in Nat, NEW m \in Nat, n <= m,
         SameBlocks(msg, other, n), NEW f, Chain(f, msg, n), NEW g, Chain(g, other, m)
  PROVE  f[n] = g[n]
<1> DEFINE Block(q, k) == SubSeq(q, 64 * k - 63, 64 * k)
           G == {k \in Nat : k <= n => f[k] = g[k]}
<1>0. \A k \in 1..n : Block(msg, k) = Block(other, k)
  BY DEF SameBlocks
<1>1. 0 \in G
  BY DEF Chain
<1>2. ASSUME NEW k \in Nat, k \in G PROVE k + 1 \in G
  <2> SUFFICES ASSUME k + 1 <= n PROVE f[k + 1] = g[k + 1]
    OBVIOUS
  <2>1. f[k] = g[k] /\ k + 1 \in 1..n /\ k + 1 \in 0..n /\ k + 1 \in 0..m /\ k + 1 # 0
        /\ (k + 1) - 1 = k
    BY <1>2
  <2>2. f[k + 1] = NextBlock(f[k], Block(msg, k + 1))
    BY <2>1 DEF Chain
  <2>3. g[k + 1] = NextBlock(g[k], Block(other, k + 1))
    BY <2>1 DEF Chain
  <2> HIDE DEF Block
  <2>4. Block(msg, k + 1) = Block(other, k + 1)
    BY <1>0, <2>1
  <2>. QED  BY <2>1, <2>2, <2>3, <2>4
<1>3. Nat \subseteq G
  <2> HIDE DEF G
  <2>. QED  BY <1>1, <1>2, Induction
<1>. QED  BY <1>3

\* After is the last value of that function.
LEMMA AfterChain ==
  ASSUME NEW msg, NEW n \in Nat
  PROVE  \E f : Chain(f, msg, n) /\ After(msg, n) = f[n]
<1> DEFINE state == CHOOSE f : Chain(f, msg, n)
<1>1. Chain(state, msg, n)
  BY ChainExists
<1>2. After(msg, n) = state[n]
  BY DEF After, Chain
<1>. QED  BY <1>1, <1>2

\* Blocks come one after the other.
LEMMA AfterSteps ==
  ASSUME NEW msg
  PROVE  /\ After(msg, 0) = Start
         /\ \A n \in Nat : After(msg, n + 1) =
              NextBlock(After(msg, n), SubSeq(msg, 64 * n + 1, 64 * n + 64))
<1>1. After(msg, 0) = Start
  <2>1. PICK f : Chain(f, msg, 0) /\ After(msg, 0) = f[0]
    BY AfterChain
  <2>. QED  BY <2>1 DEF Chain
<1>2. ASSUME NEW n \in Nat
      PROVE  After(msg, n + 1) = NextBlock(After(msg, n), SubSeq(msg, 64 * n + 1, 64 * n + 64))
  <2>1. PICK f : Chain(f, msg, n) /\ After(msg, n) = f[n]
    BY AfterChain
  <2>2. n + 1 \in Nat /\ n <= n + 1 /\ n + 1 \in 0..(n + 1) /\ n + 1 # 0 /\ (n + 1) - 1 = n
        /\ 64 * (n + 1) - 63 = 64 * n + 1 /\ 64 * (n + 1) = 64 * n + 64
    OBVIOUS
  <2>3. PICK g : Chain(g, msg, n + 1) /\ After(msg, n + 1) = g[n + 1]
    BY <2>2, AfterChain
  <2>4. f[n] = g[n]
    <3>1. SameBlocks(msg, msg, n)
      BY DEF SameBlocks
    <3>. QED  BY <2>1, <2>2, <2>3, <3>1, ChainAgrees
  <2>5. g[n + 1] = NextBlock(g[(n + 1) - 1], SubSeq(msg, 64 * (n + 1) - 63, 64 * (n + 1)))
    BY <2>2, <2>3 DEF Chain
  <2>. QED  BY <2>1, <2>2, <2>3, <2>4, <2>5
<1>. QED  BY <1>1, <1>2

\* The hash depends on the blocks only, and the length counts their bits.
LEMMA AfterAgrees ==
  ASSUME NEW msg, NEW other, NEW n \in Nat, SameBlocks(msg, other, n)
  PROVE  After(msg, n) = After(other, n)
<1>1. PICK f : Chain(f, msg, n) /\ After(msg, n) = f[n]
  BY AfterChain
<1>2. PICK g : Chain(g, other, n) /\ After(other, n) = g[n]
  BY AfterChain
<1>3. n <= n
  OBVIOUS
<1>. QED  BY <1>1, <1>2, <1>3, ChainAgrees

LEMMA AfterLength ==
  ASSUME NEW msg, NEW n \in Nat
  PROVE  After(msg, n).length = 512 * n
<1> DEFINE G == {k \in Nat : After(msg, k).length = 512 * k}
<1>1. 0 \in G
  BY AfterSteps DEF Start
<1>2. ASSUME NEW k \in Nat, k \in G PROVE k + 1 \in G
  <2> DEFINE state == After(msg, k)
             block == SubSeq(msg, 64 * k + 1, 64 * k + 64)
  <2>1. After(msg, k + 1) = NextBlock(state, block)
    BY AfterSteps
  <2>2. state.length = 512 * k
    BY <1>2
  <2> HIDE DEF state, block
  <2>3. After(msg, k + 1).length = state.length + 512
    BY <2>1 DEF NextBlock
  <2>. QED  BY <2>2, <2>3
<1>3. Nat \subseteq G
  <2> HIDE DEF G
  <2>. QED  BY <1>1, <1>2, Induction
<1>. QED  BY <1>3
-----------------------------------------------------------------------------
\* Where the elements of a concatenation come from.
LEMMA Joined ==
  ASSUME NEW X, NEW p \in Seq(X), NEW q \in Seq(X)
  PROVE  /\ p \o q \in Seq(X) /\ Len(p \o q) = Len(p) + Len(q)
         /\ \A i \in 1..(Len(p) + Len(q)) :
              (p \o q)[i] = IF i <= Len(p) THEN p[i] ELSE q[i - Len(p)]
  OBVIOUS

\* A sequence may have more elements than it has.
LEMMA Widened ==
  ASSUME NEW S, NEW T, S \subseteq T, NEW q \in Seq(S)
  PROVE  q \in Seq(T)
  OBVIOUS

\* Blocks and the bytes behind them.
LEMMA Division ==
  /\ \A n \in Nat : /\ n \div 64 \in Nat /\ n % 64 \in 0..63
                    /\ n = 64 * (n \div 64) + (n % 64)
  /\ \A b \in Nat, r \in 0..63 : (64 * b + r) % 64 = r
<1>1. ASSUME NEW n \in Nat
      PROVE  n \div 64 \in Nat /\ n % 64 \in 0..63 /\ n = 64 * (n \div 64) + (n % 64)
  OBVIOUS
<1>2. ASSUME NEW b \in Nat, NEW r \in 0..63 PROVE (64 * b + r) % 64 = r
  <2> DEFINE n == 64 * b + r
             d == n \div 64
             m == n % 64
  <2>1. n \in Nat
    OBVIOUS
  <2>2. d \in Nat /\ m \in 0..63 /\ n = 64 * d + m
    <3> HIDE DEF n
    <3>. QED  BY <1>1, <2>1
  <2>3. 64 * d + m = 64 * b + r
    BY <2>2
  <2> HIDE DEF d, m
  <2>4. m = r
    BY <2>2, <2>3
  <2>. QED  BY <2>4 DEF m, n
<1>. QED  BY <1>1, <1>2

\* A sequence of e bytes is a message with the final one bit, zeros and the
\* length behind it.
Fills(P, msg, e) ==
  /\ P \in Seq(Int) /\ Len(P) = e
  /\ \A i \in 1..Len(msg) : P[i] = msg[i]
  /\ P[Len(msg) + 1] = 128
  /\ \A i \in (Len(msg) + 2)..(e - 2) : P[i] = 0
  /\ P[e - 1] = (8 * Len(msg)) \div 256
  /\ P[e] = (8 * Len(msg)) % 256

\* The padding of a message of b blocks and r bytes: where each byte of it is,
\* and that it fills one block more, or two.
LEMMA PaddedBytes ==
  ASSUME NEW msg \in Seq(Int), NEW b \in Nat, NEW r \in 0..63, Len(msg) = 64 * b + r,
         NEW e, e = IF r <= 55 THEN 64 * b + 64 ELSE 64 * b + 128
  PROVE  Fills(Padded(msg), msg, e)
<1> DEFINE n     == Len(msg)
           z     == (119 - (n % 64)) % 64
           one   == <<128>>
           zeros == [i \in 1..(z + 6) |-> 0]
           size  == <<(8 * n) \div 256, (8 * n) % 256>>
<1>1. n \in Nat /\ n % 64 = r /\ z = IF r <= 55 THEN 55 - r ELSE 119 - r
  <2>1. (64 * b + r) % 64 = r
    BY Division
  <2>2. n \in Nat /\ n % 64 = r
    BY <2>1
  <2> HIDE DEF n
  <2>. QED  BY <2>2
<1>2. z \in Nat /\ e = n + z + 9 /\ e \in Nat
  BY <1>1
<1>3. msg \in Seq(Int) /\ Len(msg) = n
  OBVIOUS
<1>4. one \in Seq(Int) /\ Len(one) = 1 /\ one[1] = 128
  OBVIOUS
<1>5. zeros \in Seq(Int) /\ Len(zeros) = z + 6 /\ \A i \in 1..(z + 6) : zeros[i] = 0
  <2> HIDE DEF z
  <2>. QED  BY <1>2
<1>6. /\ size \in Seq(Int) /\ Len(size) = 2
      /\ size[1] = (8 * n) \div 256 /\ size[2] = (8 * n) % 256
  <2>1. (8 * n) \div 256 \in Int /\ (8 * n) % 256 \in Int
    BY <1>1
  <2>. QED  BY <2>1
<1>7. Padded(msg) = ((msg \o one) \o zeros) \o size
  BY DEF Padded
<1> HIDE DEF n, z, one, zeros, size
<1> DEFINE p == msg \o one
           q == p \o zeros
<1>8. /\ p \in Seq(Int) /\ Len(p) = n + 1
      /\ \A i \in 1..(n + 1) : p[i] = IF i <= n THEN msg[i] ELSE one[i - n]
  <2>1. /\ p \in Seq(Int) /\ Len(p) = Len(msg) + Len(one)
        /\ \A i \in 1..(Len(msg) + Len(one)) :
             p[i] = IF i <= Len(msg) THEN msg[i] ELSE one[i - Len(msg)]
    <3>1. msg \in Seq(Int) /\ one \in Seq(Int)
      BY <1>3, <1>4
    <3>. QED  BY <3>1, Joined
  <2> HIDE DEF p
  <2>. QED  BY <1>3, <1>4, <2>1
<1>9. /\ q \in Seq(Int) /\ Len(q) = n + z + 7
      /\ \A i \in 1..(n + z + 7) : q[i] = IF i <= n + 1 THEN p[i] ELSE zeros[i - (n + 1)]
  <2> HIDE DEF p
  <2>1. /\ q \in Seq(Int) /\ Len(q) = Len(p) + Len(zeros)
        /\ \A i \in 1..(Len(p) + Len(zeros)) :
             q[i] = IF i <= Len(p) THEN p[i] ELSE zeros[i - Len(p)]
    BY <1>5, <1>8, Joined
  <2>2. Len(p) + Len(zeros) = n + z + 7
    BY <1>1, <1>2, <1>5, <1>8
  <2> HIDE DEF q
  <2>. QED  BY <1>8, <2>1, <2>2
<1>10. /\ q \o size \in Seq(Int) /\ Len(q \o size) = e
       /\ \A i \in 1..e : (q \o size)[i] =
            IF i <= n + z + 7 THEN q[i] ELSE size[i - (n + z + 7)]
  <2> HIDE DEF q
  <2>1. /\ q \o size \in Seq(Int) /\ Len(q \o size) = Len(q) + Len(size)
        /\ \A i \in 1..(Len(q) + Len(size)) :
             (q \o size)[i] = IF i <= Len(q) THEN q[i] ELSE size[i - Len(q)]
    <3>1. q \in Seq(Int) /\ size \in Seq(Int)
      BY <1>6, <1>9
    <3>. QED  BY <3>1, Joined
  <2>2. Len(q) + Len(size) = e
    BY <1>1, <1>2, <1>6, <1>9
  <2>. QED  BY <1>9, <2>1, <2>2
<1> DEFINE P == Padded(msg)
<1>11. P = q \o size
  BY <1>7
<1> HIDE DEF p, q, P
<1>12. /\ P \in Seq(Int) /\ Len(P) = e
       /\ \A i \in 1..e : P[i] = IF i <= n + z + 7 THEN q[i] ELSE size[i - (n + z + 7)]
  BY <1>10, <1>11
<1>13. \A i \in 1..n : P[i] = msg[i]
  BY <1>1, <1>2, <1>8, <1>9, <1>12
<1>14. P[n + 1] = 128
  <2>1. n + 1 \in 1..e /\ n + 1 \in 1..(n + z + 7) /\ n + 1 \in 1..(n + 1) /\ ~(n + 1 <= n)
        /\ (n + 1) - n = 1
    BY <1>1, <1>2
  <2>2. P[n + 1] = q[n + 1] /\ q[n + 1] = p[n + 1] /\ p[n + 1] = one[1]
    BY <2>1, <1>1, <1>2, <1>8, <1>9, <1>12
  <2>. QED  BY <2>2, <1>4
<1>15. ASSUME NEW i \in (n + 2)..(e - 2) PROVE P[i] = 0
  <2>1. i \in 1..e /\ i <= n + z + 7 /\ i \in 1..(n + z + 7) /\ ~(i <= n + 1)
        /\ i - (n + 1) \in 1..(z + 6)
    BY <1>1, <1>2
  <2>. QED  BY <2>1, <1>5, <1>9, <1>12
<1>16. P[e - 1] = size[1] /\ P[e] = size[2]
  <2>1. e - 1 \in 1..e /\ e \in 1..e /\ ~(e - 1 <= n + z + 7) /\ ~(e <= n + z + 7)
        /\ (e - 1) - (n + z + 7) = 1 /\ e - (n + z + 7) = 2
    BY <1>1, <1>2
  <2>. QED  BY <2>1, <1>12
<1>. QED  BY <1>6, <1>12, <1>13, <1>14, <1>15, <1>16 DEF P, n, Fills

\* A piece of a sequence.
LEMMA Piece ==
  ASSUME NEW X, NEW q \in Seq(X), NEW first \in Nat \ {0}, NEW last \in Nat, last <= Len(q),
         first <= last + 1
  PROVE  /\ SubSeq(q, first, last) \in Seq(X)
         /\ Len(SubSeq(q, first, last)) = last - first + 1
         /\ SubSeq(q, first, last) = [i \in 1..(last - first + 1) |-> q[first + i - 1]]
  OBVIOUS

\* A block of a sequence.
LEMMA BlockBytes ==
  ASSUME NEW X, NEW q \in Seq(X), NEW k \in Nat, 64 * k + 64 <= Len(q)
  PROVE  SubSeq(q, 64 * k + 1, 64 * k + 64) = [i \in 1..64 |-> q[64 * k + i]]
<1> DEFINE first == 64 * k + 1
           last  == 64 * k + 64
<1>1. first \in Nat \ {0} /\ last \in Nat /\ first <= last + 1 /\ last - first + 1 = 64
      /\ \A i \in 1..64 : first + i - 1 = 64 * k + i
  OBVIOUS
<1>2. last <= Len(q)
  OBVIOUS
<1> HIDE DEF first, last
<1>3. SubSeq(q, first, last) = [i \in 1..(last - first + 1) |-> q[first + i - 1]]
  BY <1>1, <1>2, Piece
<1>4. SubSeq(q, first, last) = [i \in 1..64 |-> q[64 * k + i]]
  <2> DEFINE c == 64 * k
  <2>1. \A i \in 1..64 : first + i - 1 = c + i
    BY <1>1
  <2> HIDE DEF c
  <2>2. [i \in 1..64 |-> q[first + i - 1]] = [i \in 1..64 |-> q[c + i]]
    BY <2>1
  <2>. QED  BY <1>1, <1>3, <2>2 DEF c
<1>. QED  BY <1>4 DEF first, last

\* Byte i of the blocks that sha1_lastBlock makes of a rest of r bytes.
LastBytes(rest, r, total, i) ==
  /\ LocalBlock(rest)[i] = IF i <= r THEN rest[i] ELSE IF i = r + 1 THEN 128 ELSE 0
  /\ Sized(LocalBlock(rest), total)[i] =
       IF i = 63 THEN total \div 256 ELSE IF i = 64 THEN total % 256 ELSE LocalBlock(rest)[i]
  /\ Sized(Zeros, total)[i] =
       IF i = 63 THEN total \div 256 ELSE IF i = 64 THEN total % 256 ELSE 0

LEMMA LocalBytes ==
  ASSUME NEW rest, NEW r \in 0..63, Len(rest) = r, NEW total, NEW i \in 1..64
  PROVE  LastBytes(rest, r, total, i)
<1>1. LocalBlock(rest)[i] = IF i <= r THEN rest[i] ELSE IF i = r + 1 THEN 128 ELSE 0
  BY DEF LocalBlock
<1>2. ASSUME NEW block, DOMAIN block = 1..64
      PROVE  Sized(block, total)[i] =
               IF i = 63 THEN total \div 256 ELSE IF i = 64 THEN total % 256 ELSE block[i]
  <2> DEFINE high == total \div 256
             low  == total % 256
             first == [block EXCEPT ![63] = high]
  <2>1. Sized(block, total) = [first EXCEPT ![64] = low]
    BY DEF Sized
  <2> HIDE DEF high, low
  <2>2. DOMAIN first = 1..64 /\ first[i] = IF i = 63 THEN high ELSE block[i]
    BY <1>2
  <2> HIDE DEF first
  <2>3. [first EXCEPT ![64] = low][i] = IF i = 64 THEN low ELSE first[i]
    BY <2>2
  <2>. QED  BY <2>1, <2>2, <2>3 DEF high, low
<1>3. DOMAIN LocalBlock(rest) = 1..64 /\ DOMAIN Zeros = 1..64 /\ Zeros[i] = 0
  BY DEF LocalBlock, Zeros
<1>. QED  BY <1>1, <1>2, <1>3 DEF LastBytes

\* sha1() is the hash of the standard's padded message, whatever is in the
\* message and wherever it ends: sha1_lastBlock makes the blocks that the padding
\* makes, with the length of the message in the last of them.
THEOREM DigestIsPadded ==
  ASSUME NEW msg \in Seq(Int)
  PROVE  Sha1(msg) = Digest(msg)
<1> DEFINE n    == Len(msg)
           b    == n \div 64
           r    == n % 64
           e    == IF r <= 55 THEN 64 * b + 64 ELSE 64 * b + 128
           P    == Padded(msg)
           rest == SubSeq(msg, 64 * b + 1, n)
           size == 8 * n
           high == size \div 256
           low  == size % 256
<1>1. n \in Nat /\ b \in Nat /\ r \in 0..63 /\ n = 64 * b + r /\ e \in Nat
  <2>1. n \in Nat
    OBVIOUS
  <2> HIDE DEF n
  <2>2. b \in Nat /\ r \in 0..63 /\ n = 64 * b + r
    BY <2>1, Division
  <2> HIDE DEF b, r
  <2>. QED  BY <2>1, <2>2
<1>2. e = IF r <= 55 THEN 64 * b + 64 ELSE 64 * b + 128
  OBVIOUS
<1> HIDE DEF b, r, e
<1>3. /\ P \in Seq(Int) /\ Len(P) = e /\ \A i \in 1..n : P[i] = msg[i]
      /\ P[n + 1] = 128 /\ \A i \in (n + 2)..(e - 2) : P[i] = 0
      /\ P[e - 1] = high /\ P[e] = low
  <2>1. Len(msg) = 64 * b + r
    BY <1>1
  <2>2. Fills(Padded(msg), msg, e)
    <3> HIDE DEF n, P, rest, size, high, low
    <3>1. b \in Nat /\ r \in 0..63
      BY <1>1
    <3>. QED  BY <1>2, <2>1, <3>1, PaddedBytes
  <2>. QED  BY <2>2 DEF Fills
<1>4. Len(rest) = r /\ \A i \in 1..r : rest[i] = msg[64 * b + i]
  <2> DEFINE first == 64 * b + 1
             c     == 64 * b
  <2>1. first \in Nat \ {0} /\ n \in Nat /\ n <= Len(msg) /\ first <= n + 1
        /\ n - first + 1 = r
    BY <1>1
  <2>2. \A i \in 1..r : first + i - 1 = c + i
    BY <1>1
  <2> HIDE DEF first, c
  <2>3. rest = SubSeq(msg, first, n)
    BY DEF first
  <2> HIDE DEF n, rest
  <2>4. Len(rest) = n - first + 1 /\ rest = [i \in 1..(n - first + 1) |-> msg[first + i - 1]]
    BY <2>1, <2>3, Piece
  <2>5. \A i \in 1..r : rest[i] = msg[first + i - 1]
    BY <2>1, <2>4
  <2>6. \A i \in 1..r : rest[i] = msg[c + i]
    BY <2>2, <2>5
  <2>. QED  BY <2>1, <2>4, <2>6 DEF c
<1> HIDE DEF n, P, rest, size, high, low
<1>5. /\ After(msg, b) = After(P, b) /\ After(msg, b).length = 512 * b
  <2>1. ASSUME NEW k \in 1..b
        PROVE  SubSeq(msg, 64 * k - 63, 64 * k) = SubSeq(P, 64 * k - 63, 64 * k)
    <3>1. 64 * k - 63 \in Nat \ {0} /\ 64 * k \in Nat /\ 64 * k <= n /\ 64 * k <= e
          /\ 64 * k - 63 <= 64 * k + 1 /\ 64 * k - (64 * k - 63) + 1 = 64
      BY <1>1, <1>2
    <3>2. SubSeq(msg, 64 * k - 63, 64 * k) = [i \in 1..64 |-> msg[(64 * k - 63) + i - 1]]
      BY <3>1, Piece DEF n
    <3>3. SubSeq(P, 64 * k - 63, 64 * k) = [i \in 1..64 |-> P[(64 * k - 63) + i - 1]]
      BY <1>3, <3>1, Piece
    <3>4. \A i \in 1..64 : (64 * k - 63) + i - 1 \in 1..n
      BY <1>1
    <3> DEFINE first == 64 * k - 63
    <3>5. \A i \in 1..64 : msg[first + i - 1] = P[first + i - 1]
      BY <1>3, <3>4
    <3> HIDE DEF first
    <3>6. [i \in 1..64 |-> msg[first + i - 1]] = [i \in 1..64 |-> P[first + i - 1]]
      BY <3>5
    <3>. QED  BY <3>2, <3>3, <3>6 DEF first
  <2>2. SameBlocks(msg, P, b)
    BY <2>1 DEF SameBlocks
  <2>. QED  BY <1>1, <2>2, AfterAgrees, AfterLength
<1> DEFINE state == After(P, b)
           local == LocalBlock(rest)
           full  == Sized(local, size)
           extra == Sized(Zeros, size)
           Block(k) == SubSeq(P, 64 * k + 1, 64 * k + 64)
<1>6. /\ After(P, b + 1) = NextBlock(state, Block(b))
      /\ After(P, b + 2) = NextBlock(After(P, b + 1), Block(b + 1))
  <2>1. b \in Nat /\ b + 1 \in Nat /\ (b + 1) + 1 = b + 2
    BY <1>1
  <2>2. After(P, b + 1) = NextBlock(state, Block(b))
    BY <2>1, AfterSteps
  <2>3. After(P, (b + 1) + 1) = NextBlock(After(P, b + 1), Block(b + 1))
    BY <2>1, AfterSteps
  <2>. QED  BY <2>1, <2>2, <2>3
<1>7. ASSUME NEW k \in {b, b + 1}, 64 * k + 64 <= e
      PROVE  Block(k) = [i \in 1..64 |-> P[64 * k + i]]
  <2>1. k \in Nat /\ P \in Seq(Int) /\ 64 * k + 64 <= Len(P)
    BY <1>1, <1>3, <1>7
  <2>. QED  BY <2>1, BlockBytes
<1>8. ASSUME NEW i \in 1..64
      PROVE  /\ i <= r => local[i] = msg[64 * b + i]
             /\ i = r + 1 => local[i] = 128
             /\ i > r + 1 => local[i] = 0
             /\ i = 63 => full[i] = high /\ extra[i] = high
             /\ i = 64 => full[i] = low /\ extra[i] = low
             /\ i <= 62 => full[i] = local[i] /\ extra[i] = 0
  <2>1. /\ local[i] = IF i <= r THEN rest[i] ELSE IF i = r + 1 THEN 128 ELSE 0
        /\ full[i] = IF i = 63 THEN high ELSE IF i = 64 THEN low ELSE local[i]
        /\ extra[i] = IF i = 63 THEN high ELSE IF i = 64 THEN low ELSE 0
    <3>1. r \in 0..63 /\ Len(rest) = r
      BY <1>1, <1>4
    <3>2. LastBytes(rest, r, size, i)
      BY <3>1, LocalBytes
    <3>. QED  BY <3>2 DEF LastBytes, high, low
  <2> HIDE DEF local, full, extra
  <2>2. i <= r => rest[i] = msg[64 * b + i]
    BY <1>1, <1>4
  <2>. QED  BY <1>1, <2>1, <2>2
<1>9. local = [i \in 1..64 |-> local[i]] /\ full = [i \in 1..64 |-> full[i]]
      /\ extra = [i \in 1..64 |-> extra[i]]
  <2>1. local = [i \in 1..64 |-> local[i]]
    BY DEF LocalBlock
  <2>2. ASSUME NEW block, block = [i \in 1..64 |-> block[i]]
        PROVE  Sized(block, size) = [i \in 1..64 |-> Sized(block, size)[i]]
    BY <2>2 DEF Sized
  <2>3. Zeros = [i \in 1..64 |-> Zeros[i]]
    BY DEF Zeros
  <2> HIDE DEF local
  <2>. QED  BY <2>1, <2>2, <2>3
<1>10. Sha1(msg) = Hash((IF Crowded(8 * r) THEN NextBlock(NextBlock(state, local), extra)
                         ELSE NextBlock(state, full)).h)
  <2>1. state.length + 8 * r = size
    BY <1>1, <1>5 DEF size
  <2>2. Sha1(msg) = Hash(LastBlock(state, rest).h)
    BY <1>5 DEF Sha1, n, b, rest
  <2> HIDE DEF state
  <2>. QED  BY <1>4, <2>1, <2>2 DEF LastBlock
<1>11. Digest(msg) = Hash(After(P, e \div 64).h)
  BY <1>3 DEF Digest, P
<1> HIDE DEF state, local, full, extra, Block
<1>12. CASE r <= 55
  <2>1. ~Crowded(8 * r) /\ e = 64 * b + 64 /\ e \div 64 = b + 1
    BY <1>1, <1>2, <1>12 DEF Crowded
  <2>2. Block(b) = full
    <3>1. Block(b) = [i \in 1..64 |-> P[64 * b + i]]
      BY <1>1, <1>7, <2>1
    <3>2. ASSUME NEW i \in 1..64 PROVE P[64 * b + i] = full[i]
      <4>1. CASE i <= r
        <5>1. 64 * b + i \in 1..n /\ i <= 62
          BY <1>1, <1>12, <4>1
        <5>2. P[64 * b + i] = msg[64 * b + i]
          BY <1>3, <5>1
        <5>3. full[i] = local[i] /\ local[i] = msg[64 * b + i]
          BY <1>8, <4>1, <5>1
        <5>. QED  BY <5>2, <5>3
      <4>2. CASE i = r + 1
        <5>1. 64 * b + i = n + 1 /\ i <= 62
          BY <1>1, <1>12, <4>2
        <5>2. P[64 * b + i] = 128
          BY <1>3, <5>1
        <5>3. full[i] = local[i] /\ local[i] = 128
          BY <1>8, <4>2, <5>1
        <5>. QED  BY <5>2, <5>3
      <4>3. CASE i > r + 1 /\ i <= 62
        <5>1. 64 * b + i \in (n + 2)..(e - 2)
          BY <1>1, <2>1, <4>3
        <5>2. P[64 * b + i] = 0
          BY <1>3, <5>1
        <5>3. full[i] = local[i] /\ local[i] = 0
          BY <1>8, <4>3
        <5>. QED  BY <5>2, <5>3
      <4>4. CASE i = 63
        <5>1. 64 * b + i = e - 1
          BY <1>1, <2>1, <4>4
        <5>2. P[64 * b + i] = high
          BY <1>3, <5>1
        <5>. QED  BY <1>8, <4>4, <5>2
      <4>5. CASE i = 64
        <5>1. 64 * b + i = e
          BY <1>1, <2>1, <4>5
        <5>2. P[64 * b + i] = low
          BY <1>3, <5>1
        <5>. QED  BY <1>8, <4>5, <5>2
      <4>6. i <= r \/ i = r + 1 \/ (i > r + 1 /\ i <= 62) \/ i = 63 \/ i = 64
        BY <1>1
      <4>. QED  BY <4>1, <4>2, <4>3, <4>4, <4>5, <4>6
    <3>. QED  BY <1>9, <3>1, <3>2
  <2>. QED  BY <1>6, <1>10, <1>11, <2>1, <2>2
<1>13. CASE r >= 56
  <2>1. Crowded(8 * r) /\ e = 64 * b + 128 /\ e \div 64 = b + 2
    BY <1>1, <1>2, <1>13 DEF Crowded
  <2>2. Block(b) = local
    <3>1. Block(b) = [i \in 1..64 |-> P[64 * b + i]]
      BY <1>1, <1>7, <2>1
    <3>2. ASSUME NEW i \in 1..64 PROVE P[64 * b + i] = local[i]
      <4>1. CASE i <= r
        <5>1. 64 * b + i \in 1..n
          BY <1>1, <4>1
        <5>2. P[64 * b + i] = msg[64 * b + i]
          BY <1>3, <5>1
        <5>. QED  BY <1>8, <4>1, <5>2
      <4>2. CASE i = r + 1
        <5>1. 64 * b + i = n + 1
          BY <1>1, <4>2
        <5>2. P[64 * b + i] = 128
          BY <1>3, <5>1
        <5>. QED  BY <1>8, <4>2, <5>2
      <4>3. CASE i > r + 1
        <5>1. 64 * b + i \in (n + 2)..(e - 2)
          BY <1>1, <2>1, <4>3
        <5>2. P[64 * b + i] = 0
          BY <1>3, <5>1
        <5>. QED  BY <1>8, <4>3, <5>2
      <4>4. i <= r \/ i = r + 1 \/ i > r + 1
        BY <1>1
      <4>. QED  BY <4>1, <4>2, <4>3, <4>4
    <3>. QED  BY <1>9, <3>1, <3>2
  <2>3. Block(b + 1) = extra
    <3>1. Block(b + 1) = [i \in 1..64 |-> P[64 * (b + 1) + i]]
      <4>1. 64 * (b + 1) + 64 <= e
        BY <1>1, <2>1
      <4>. QED  BY <1>7, <4>1
    <3>2. ASSUME NEW i \in 1..64 PROVE P[64 * (b + 1) + i] = extra[i]
      <4>1. CASE i <= 62
        <5>1. 64 * (b + 1) + i \in (n + 2)..(e - 2)
          BY <1>1, <1>13, <2>1, <4>1
        <5>2. P[64 * (b + 1) + i] = 0
          BY <1>3, <5>1
        <5>. QED  BY <1>8, <4>1, <5>2
      <4>2. CASE i = 63
        <5>1. 64 * (b + 1) + i = e - 1
          BY <1>1, <2>1, <4>2
        <5>2. P[64 * (b + 1) + i] = high
          BY <1>3, <5>1
        <5>. QED  BY <1>8, <4>2, <5>2
      <4>3. CASE i = 64
        <5>1. 64 * (b + 1) + i = e
          BY <1>1, <2>1, <4>3
        <5>2. P[64 * (b + 1) + i] = low
          BY <1>3, <5>1
        <5>. QED  BY <1>8, <4>3, <5>2
      <4>. QED  BY <4>1, <4>2, <4>3
    <3>. QED  BY <1>9, <3>1, <3>2
  <2>. QED  BY <1>6, <1>10, <1>11, <2>1, <2>2, <2>3
<1>. QED  BY <1>1, <1>12, <1>13
-----------------------------------------------------------------------------
\* The alphabet loses no number and has no '='.
LEMMA Alphabet ==
  ASSUME NEW a \in 0..63
  PROVE  Six(Bit6toAscii(a)) = a /\ Bit6toAscii(a) # 61
<1>1. CASE a <= 25
  <2>1. Bit6toAscii(a) = a + 65
    BY <1>1 DEF Bit6toAscii
  <2>. QED  BY <1>1, <2>1 DEF Six
<1>2. CASE a \in 26..51
  <2>1. Bit6toAscii(a) = a - 26 + 97
    BY <1>2 DEF Bit6toAscii
  <2>. QED  BY <1>2, <2>1 DEF Six
<1>3. CASE a \in 52..61
  <2>1. Bit6toAscii(a) = a - 52 + 48
    BY <1>3 DEF Bit6toAscii
  <2>. QED  BY <1>3, <2>1 DEF Six
<1>4. CASE a = 62
  <2>1. Bit6toAscii(a) = 43
    BY <1>4 DEF Bit6toAscii
  <2>. QED  BY <1>4, <2>1 DEF Six
<1>5. CASE a = 63
  <2>1. Bit6toAscii(a) = 47
    BY <1>5 DEF Bit6toAscii
  <2>. QED  BY <1>5, <2>1 DEF Six
<1>. QED  BY <1>1, <1>2, <1>3, <1>4, <1>5

\* Four characters, and three bytes, as one number.
OfSix(c0, c1, c2, c3) == ((c0 * 64 + c1) * 64 + c2) * 64 + c3
OfEight(x, y, z) == x * 65536 + y * 256 + z

\* Four times six bits are three times eight, and zero for zeros.
FourFromThree(x, y, z) ==
  /\ \A j \in 0..3 : SixBits(x, y, z, j) \in 0..63
  /\ OfSix(SixBits(x, y, z, 0), SixBits(x, y, z, 1), SixBits(x, y, z, 2), SixBits(x, y, z, 3))
       = OfEight(x, y, z)
  /\ y = 0 /\ z = 0 => SixBits(x, y, z, 2) = 0
  /\ z = 0 => SixBits(x, y, z, 3) = 0

LEMMA FourAreThree ==
  ASSUME NEW x \in 0..255, NEW y \in 0..255, NEW z \in 0..255
  PROVE  FourFromThree(x, y, z)
<1> DEFINE c0 == x \div 4
           x0 == x % 4
           y1 == y \div 16
           y0 == y % 16
           z1 == z \div 64
           c3 == z % 64
           c1 == (x * 16 + y1) % 64
           c2 == (y * 4 + z1) % 64
<1>1. c0 \in 0..63 /\ x0 \in 0..3 /\ x = 4 * c0 + x0
  OBVIOUS
<1>2. y1 \in 0..15 /\ y0 \in 0..15 /\ y = 16 * y1 + y0
  OBVIOUS
<1>3. z1 \in 0..3 /\ c3 \in 0..63 /\ z = 64 * z1 + c3
  OBVIOUS
<1>4. /\ SixBits(x, y, z, 0) = c0 /\ SixBits(x, y, z, 1) = c1
      /\ SixBits(x, y, z, 2) = c2 /\ SixBits(x, y, z, 3) = c3
  BY DEF SixBits
<1> HIDE DEF c0, x0, y1, y0, z1, c3
<1>5. c1 = 16 * x0 + y1
  BY <1>1, <1>2
<1>6. c2 = 4 * y0 + z1
  BY <1>2, <1>3
<1> HIDE DEF c1, c2
<1>7. c0 \in 0..63 /\ c1 \in 0..63 /\ c2 \in 0..63 /\ c3 \in 0..63
  BY <1>1, <1>2, <1>3, <1>5, <1>6
<1>8. OfSix(c0, c1, c2, c3) = OfEight(x, y, z)
  BY <1>1, <1>2, <1>3, <1>5, <1>6 DEF OfSix, OfEight
<1>9. (y = 0 /\ z = 0 => c2 = 0) /\ (z = 0 => c3 = 0)
  BY <1>2, <1>3, <1>6
<1>10. \A j \in 0..3 : j = 0 \/ j = 1 \/ j = 2 \/ j = 3
  OBVIOUS
<1>. QED  BY <1>4, <1>7, <1>8, <1>9, <1>10 DEF FourFromThree

\* Characters and groups of four.
LEMMA Quarters ==
  ASSUME NEW g \in Nat, NEW j \in 0..3
  PROVE  (4 * g + j) \div 4 = g /\ (4 * g + j) % 4 = j
  OBVIOUS

\* Bytes and groups of three.
LEMMA Groups ==
  /\ \A n \in Nat \ {0} : (n + 2) \div 3 \in Nat \ {0} /\ n - 3 * ((n + 2) \div 3 - 1) \in 1..3
  /\ \A i \in Nat \ {0} : \E g \in Nat :
       /\ (i - 1) \div 3 = g
       /\ \/ i = 3 * g + 1 /\ i % 3 = 1
          \/ i = 3 * g + 2 /\ i % 3 = 2
          \/ i = 3 * g + 3 /\ i % 3 = 0
<1>1. ASSUME NEW n \in Nat \ {0}
      PROVE  (n + 2) \div 3 \in Nat \ {0} /\ n - 3 * ((n + 2) \div 3 - 1) \in 1..3
  OBVIOUS
<1>2. ASSUME NEW i \in Nat \ {0}
      PROVE  \E g \in Nat :
               /\ (i - 1) \div 3 = g
               /\ \/ i = 3 * g + 1 /\ i % 3 = 1
                  \/ i = 3 * g + 2 /\ i % 3 = 2
                  \/ i = 3 * g + 3 /\ i % 3 = 0
  <2>1. (i - 1) \div 3 \in Nat
    OBVIOUS
  <2> DEFINE g == (i - 1) \div 3
  <2>2. i = 3 * g + 1 \/ i = 3 * g + 2 \/ i = 3 * g + 3
    OBVIOUS
  <2>3. (i = 3 * g + 1 => i % 3 = 1) /\ (i = 3 * g + 2 => i % 3 = 2) /\ (i = 3 * g + 3 => i % 3 = 0)
    BY <2>1
  <2>. QED  BY <2>1, <2>2, <2>3
<1>. QED  BY <1>1, <1>2

\* Each of the three bytes can be read from the number.
ByteTaken(v, m) ==
  CASE m = 1 -> v \div 65536 [] m = 2 -> (v \div 256) % 256 [] m = 0 -> v % 256

Separate(x, y, z) ==
  /\ ByteTaken(OfEight(x, y, z), 1) = x
  /\ ByteTaken(OfEight(x, y, z), 2) = y
  /\ ByteTaken(OfEight(x, y, z), 0) = z

LEMMA ThreeBytes ==
  ASSUME NEW x \in 0..255, NEW y \in 0..255, NEW z \in 0..255
  PROVE  Separate(x, y, z)
<1> DEFINE v == OfEight(x, y, z)
<1>0. v = x * 65536 + y * 256 + z
  BY DEF OfEight
<1> HIDE DEF v
<1>1. v \in Nat /\ v \div 65536 = x
  BY <1>0
<1>2. v % 256 = z
  BY <1>0
<1>3. v \div 256 = x * 256 + y
  BY <1>0
<1>4. (x * 256 + y) % 256 = y
  OBVIOUS
<1>5. ByteTaken(v, 1) = x /\ ByteTaken(v, 2) = y /\ ByteTaken(v, 0) = z
  BY <1>1, <1>2, <1>3, <1>4 DEF ByteTaken
<1>. QED  BY <1>5 DEF v, Separate

\* A byte, zero behind the end.
At(src, i) == IF i <= Len(src) THEN src[i] ELSE 0

\* The characters of group g are three bytes for the decoder, and '=' are those
\* behind the end.
Tells(src, g, x, y, z) ==
  /\ OfSix(Six(Char(src, g, 0)), Six(Char(src, g, 1)), Six(Char(src, g, 2)), Six(Char(src, g, 3)))
       = OfEight(x, y, z)
  /\ Char(src, g, 2) = 61 <=> 3 * g + 2 > Len(src)
  /\ Char(src, g, 3) = 61 <=> 3 * g + 3 > Len(src)

LEMMA Signs ==
  ASSUME NEW src, Len(src) \in Nat, NEW g \in Nat, 3 * g + 1 <= Len(src),
         NEW x \in 0..255, NEW y \in 0..255, NEW z \in 0..255,
         x = At(src, 3 * g + 1), y = At(src, 3 * g + 2), z = At(src, 3 * g + 3)
  PROVE  Tells(src, g, x, y, z)
<1> DEFINE Bit(j) == SixBits(x, y, z, j)
<1>1. \A j \in 0..3 :
        Char(src, g, j) = IF j > 1 /\ 3 * g + j > Len(src) THEN 61 ELSE Bit6toAscii(Bit(j))
  BY DEF Char, At
<1>2. /\ 3 * g + 2 > Len(src) => y = 0 /\ z = 0
      /\ 3 * g + 3 > Len(src) => z = 0
  BY DEF At
<1>3. /\ \A j \in 0..3 : Bit(j) \in 0..63
      /\ OfSix(Bit(0), Bit(1), Bit(2), Bit(3)) = OfEight(x, y, z)
      /\ y = 0 /\ z = 0 => Bit(2) = 0
      /\ z = 0 => Bit(3) = 0
  <2>1. FourFromThree(x, y, z)
    BY FourAreThree
  <2>. QED  BY <2>1 DEF FourFromThree
<1> HIDE DEF Bit
<1>4. ASSUME NEW j \in 0..3
      PROVE  Six(Bit6toAscii(Bit(j))) = Bit(j) /\ Bit6toAscii(Bit(j)) # 61
  <2>1. Bit(j) \in 0..63
    BY <1>3
  <2>. QED  BY <2>1, Alphabet
<1>5. Six(61) = 0
  BY DEF Six
<1>6. Six(Char(src, g, 0)) = Bit(0) /\ Six(Char(src, g, 1)) = Bit(1)
  BY <1>1, <1>4
<1>7. Six(Char(src, g, 2)) = Bit(2) /\ (Char(src, g, 2) = 61 <=> 3 * g + 2 > Len(src))
  <2>1. CASE 3 * g + 2 > Len(src)
    BY <1>1, <1>2, <1>3, <1>5, <2>1
  <2>2. CASE ~(3 * g + 2 > Len(src))
    BY <1>1, <1>4, <2>2
  <2>. QED  BY <2>1, <2>2
<1>8. Six(Char(src, g, 3)) = Bit(3) /\ (Char(src, g, 3) = 61 <=> 3 * g + 3 > Len(src))
  <2>1. CASE 3 * g + 3 > Len(src)
    BY <1>1, <1>2, <1>3, <1>5, <2>1
  <2>2. CASE ~(3 * g + 3 > Len(src))
    BY <1>1, <1>4, <2>2
  <2>. QED  BY <2>1, <2>2
<1>. QED  BY <1>3, <1>6, <1>7, <1>8 DEF Tells

\* n bytes, and decoding that gives them back.
Bytes(src, n) ==
  /\ Len(src) = n /\ src = [i \in 1..n |-> src[i]]
  /\ \A i \in 1..n : src[i] \in 0..255

LEMMA BytesComeBack ==
  ASSUME NEW src, NEW n \in Nat \ {0}, Bytes(src, n)
  PROVE  Decoded(Base64enc(src)) = src
<1> DEFINE G    == (n + 2) \div 3
           s    == n - 3 * (G - 1)
           text == Base64enc(src)
           Byte(i) == At(src, i)
<1>1. G \in Nat \ {0} /\ s \in 1..3
  BY Groups
<1>2. Len(text) = 4 * G /\ \A k \in 1..(4 * G) : text[k] = Char(src, (k - 1) \div 4, (k - 1) % 4)
  <2>1. text = [k \in 1..(4 * G) |-> Char(src, (k - 1) \div 4, (k - 1) % 4)]
    BY DEF Base64enc, Bytes
  <2> HIDE DEF text, G
  <2>2. 4 * G \in Nat
    BY <1>1
  <2>. QED  BY <2>1, <2>2
<1> HIDE DEF G, text
<1>3. n = 3 * (G - 1) + s
  BY <1>1
<1> HIDE DEF s
<1>4. ASSUME NEW i \in Nat \ {0} PROVE Byte(i) \in 0..255
  <2>1. CASE i <= n
    <3>1. i \in 1..n
      BY <2>1
    <3>. QED  BY <2>1, <3>1 DEF At, Bytes
  <2>2. CASE ~(i <= n)
    BY <2>2 DEF At, Bytes
  <2>. QED  BY <2>1, <2>2
<1>5. \A i \in 1..n : Byte(i) = src[i]
  BY DEF At, Bytes
<1> HIDE DEF Byte
<1>6. ASSUME NEW g \in 0..(G - 1), NEW j \in 0..3, NEW k, k = 4 * g + j + 1
      PROVE  text[k] = Char(src, g, j)
  <2>1. k \in 1..(4 * G)
    BY <1>1, <1>6
  <2>2. (k - 1) \div 4 = g /\ (k - 1) % 4 = j
    <3>1. g \in Nat /\ k - 1 = 4 * g + j
      BY <1>1, <1>6
    <3>. QED  BY <3>1, Quarters
  <2>. QED  BY <1>2, <2>1, <2>2
<1>7. ASSUME NEW g \in 0..(G - 1)
      PROVE  /\ Bits(text, g) = OfEight(Byte(3 * g + 1), Byte(3 * g + 2), Byte(3 * g + 3))
             /\ text[4 * g + 3] = 61 <=> 3 * g + 2 > n
             /\ text[4 * g + 4] = 61 <=> 3 * g + 3 > n
  <2>1. /\ text[4 * g + 1] = Char(src, g, 0) /\ text[4 * g + 2] = Char(src, g, 1)
        /\ text[4 * g + 3] = Char(src, g, 2) /\ text[4 * g + 4] = Char(src, g, 3)
    <3>1. g \in Int
      BY <1>1
    <3>2. text[4 * g + 1] = Char(src, g, 0)
      BY <1>6, <3>1
    <3>3. text[4 * g + 2] = Char(src, g, 1)
      BY <1>6, <3>1
    <3>4. text[4 * g + 3] = Char(src, g, 2)
      BY <1>6, <3>1
    <3>5. text[4 * g + 4] = Char(src, g, 3)
      BY <1>6, <3>1
    <3>. QED  BY <3>2, <3>3, <3>4, <3>5
  <2> DEFINE x == Byte(3 * g + 1)
             y == Byte(3 * g + 2)
             z == Byte(3 * g + 3)
  <2>2. g \in Nat /\ 3 * g + 1 <= n
    BY <1>1, <1>3
  <2>3. x \in 0..255 /\ y \in 0..255 /\ z \in 0..255
    <3>1. 3 * g + 1 \in Nat \ {0} /\ 3 * g + 2 \in Nat \ {0} /\ 3 * g + 3 \in Nat \ {0}
      BY <2>2
    <3>. QED  BY <1>4, <3>1
  <2>4. x = At(src, 3 * g + 1) /\ y = At(src, 3 * g + 2) /\ z = At(src, 3 * g + 3)
    BY DEF Byte
  <2> HIDE DEF x, y, z
  <2>5. Tells(src, g, x, y, z)
    <3>1. Len(src) \in Nat /\ 3 * g + 1 <= Len(src)
      BY <2>2 DEF Bytes
    <3>. QED  BY <2>2, <2>3, <2>4, <3>1, Signs
  <2>. QED  BY <2>1, <2>5 DEF Tells, Bits, Bytes, OfSix, x, y, z
<1>8. Pads(text) = 3 - s
  <2>1. G - 1 \in 0..(G - 1) /\ 4 * (G - 1) + 3 = 4 * G - 1 /\ 4 * (G - 1) + 4 = 4 * G
    BY <1>1
  <2>2. /\ text[4 * G - 1] = 61 <=> 3 * (G - 1) + 2 > n
        /\ text[4 * G] = 61 <=> 3 * (G - 1) + 3 > n
    BY <1>7, <2>1
  <2>3. (3 * (G - 1) + 2 > n <=> s = 1) /\ (3 * (G - 1) + 3 > n <=> s # 3)
    BY <1>1, <1>3
  <2>. QED  BY <1>1, <1>2, <2>2, <2>3 DEF Pads
<1>9. 3 * (Len(text) \div 4) - Pads(text) = n
  <2>1. (4 * G) \div 4 = G
    BY <1>1
  <2>. QED  BY <1>1, <1>2, <1>3, <1>8, <2>1
<1>10. ASSUME NEW i \in 1..n PROVE ByteTaken(Bits(text, (i - 1) \div 3), i % 3) = src[i]
  <2>0. i \in Nat \ {0}
    OBVIOUS
  <2>1. PICK g \in Nat :
          /\ (i - 1) \div 3 = g
          /\ \/ i = 3 * g + 1 /\ i % 3 = 1
             \/ i = 3 * g + 2 /\ i % 3 = 2
             \/ i = 3 * g + 3 /\ i % 3 = 0
    BY <2>0, Groups
  <2> DEFINE x == Byte(3 * g + 1)
             y == Byte(3 * g + 2)
             z == Byte(3 * g + 3)
             m == i % 3
  <2>2. g \in 0..(G - 1)
    <3>1. 3 * g + 1 <= i /\ i <= n
      BY <2>1
    <3>. QED  BY <1>1, <1>3, <3>1
  <2>3. Bits(text, g) = OfEight(x, y, z)
    BY <1>7, <2>2
  <2>4. x \in 0..255 /\ y \in 0..255 /\ z \in 0..255
    <3>1. 3 * g + 1 \in Nat \ {0} /\ 3 * g + 2 \in Nat \ {0} /\ 3 * g + 3 \in Nat \ {0}
      OBVIOUS
    <3>. QED  BY <1>4, <3>1
  <2>5. src[i] = Byte(i)
    BY <1>5
  <2>6. (m = 1 /\ src[i] = x) \/ (m = 2 /\ src[i] = y) \/ (m = 0 /\ src[i] = z)
    BY <2>1, <2>5
  <2> HIDE DEF x, y, z
  <2>7. /\ ByteTaken(OfEight(x, y, z), 1) = x /\ ByteTaken(OfEight(x, y, z), 2) = y
        /\ ByteTaken(OfEight(x, y, z), 0) = z
    <3>1. Separate(x, y, z)
      BY <2>4, ThreeBytes
    <3>. QED  BY <3>1 DEF Separate
  <2> HIDE DEF m
  <2>8. ByteTaken(Bits(text, g), m) = src[i]
    BY <2>3, <2>6, <2>7
  <2>. QED  BY <2>1, <2>8 DEF m
<1>11. Decoded(text) = [i \in 1..n |-> src[i]]
  BY <1>9, <1>10 DEF Decoded, ByteTaken
<1>. QED  BY <1>11 DEF text, Bytes

\* Base64 loses nothing: the standard's decoder gives back every sequence of
\* bytes that is not empty, whatever base64enc has to leave of the last three.
THEOREM Base64Decodes ==
  ASSUME NEW src \in Seq(0..255), src # << >>
  PROVE  Decoded(Base64enc(src)) = src
<1>1. Len(src) \in Nat \ {0} /\ src = [i \in 1..Len(src) |-> src[i]]
  OBVIOUS
<1>2. \A i \in 1..Len(src) : src[i] \in 0..255
  BY ElementOfSeq
<1>. QED  BY <1>1, <1>2, BytesComeBack DEF Bytes
-----------------------------------------------------------------------------
Byte == 0..255

\* A word, and the words of a hash and of a block.
Bits32 == [1..32 -> {0, 1}]
Words  == [1..5 -> Bits32]
Block  == [1..16 -> Bits32]

LEMMA WordType ==
  ASSUME NEW high \in Int, NEW low \in Int
  PROVE  Word(high, low) \in Bits32
<1> DEFINE Bit(i) == ((IF i <= 16 THEN high ELSE low) \div Powers[1 + ((i - 1) % 16)]) % 2
<1>1. ASSUME NEW i \in 1..32 PROVE Bit(i) \in {0, 1}
  <2> DEFINE n == IF i <= 16 THEN high ELSE low
             k == 1 + ((i - 1) % 16)
             p == Powers[k]
             q == n \div p
  <2>1. k \in 1..16
    OBVIOUS
  <2> HIDE DEF k
  <2>2. p \in Nat \ {0}
    BY <2>1 DEF Powers
  <2>3. n \in Int
    OBVIOUS
  <2> HIDE DEF n, p
  <2>4. q \in Int
    BY <2>2, <2>3
  <2>5. Bit(i) = q % 2
    BY DEF n, p, k
  <2> HIDE DEF q, Bit
  <2>. QED  BY <2>4, <2>5
<1>2. Word(high, low) = [i \in 1..32 |-> Bit(i)]
  BY DEF Word
<1> HIDE DEF Bit
<1>. QED  BY <1>1, <1>2 DEF Bits32

\* Eight bits are a byte, wherever they begin.
LEMMA ByteType ==
  ASSUME NEW w \in Bits32, NEW b \in 0..24
  PROVE  ByteAt(w, b) \in Byte
<1>1. ASSUME NEW i \in 1..8 PROVE w[b + i] \in {0, 1}
  <2>1. b + i \in 1..32
    OBVIOUS
  <2>. QED  BY <2>1 DEF Bits32
<1>2. /\ w[b + 1] \in {0, 1} /\ w[b + 2] \in {0, 1} /\ w[b + 3] \in {0, 1}
      /\ w[b + 4] \in {0, 1} /\ w[b + 5] \in {0, 1} /\ w[b + 6] \in {0, 1}
      /\ w[b + 7] \in {0, 1} /\ w[b + 8] \in {0, 1}
  BY <1>1
<1>. QED  BY <1>2 DEF ByteAt, Byte

\* Two bytes are a number.
LEMMA TwoBytes ==
  ASSUME NEW x \in Byte, NEW y \in Byte
  PROVE  256 * x + y \in Int
<1>1. x \in Int /\ y \in Int
  BY DEF Byte
<1>. QED  BY <1>1

LEMMA HalfType ==
  ASSUME NEW w \in Bits32, NEW b \in 0..16
  PROVE  HalfAt(w, b) \in Int
<1>1. b \in 0..24 /\ b + 8 \in 0..24
  OBVIOUS
<1>2. ByteAt(w, b) \in Byte /\ ByteAt(w, b + 8) \in Byte
  BY <1>1, ByteType
<1>3. 256 * ByteAt(w, b) + ByteAt(w, b + 8) \in Int
  BY <1>2, TwoBytes
<1>. QED  BY <1>3 DEF HalfAt

\* What the operations on words make are words.
LEMMA PlusType ==
  ASSUME NEW v \in Bits32, NEW w \in Bits32
  PROVE  Plus(v, w) \in Bits32
<1> DEFINE low  == HalfAt(v, 16) + HalfAt(w, 16)
           high == HalfAt(v, 0) + HalfAt(w, 0) + (low \div 65536)
<1>1. HalfAt(v, 0) \in Int /\ HalfAt(w, 0) \in Int /\ HalfAt(v, 16) \in Int /\ HalfAt(w, 16) \in Int
  <2>1. 0 \in 0..16 /\ 16 \in 0..16
    OBVIOUS
  <2>. QED  BY <2>1, HalfType
<1>2. low \in Int /\ high \in Int
  BY <1>1
<1>3. Plus(v, w) = Word(high, low)
  BY DEF Plus
<1> HIDE DEF low, high
<1>. QED  BY <1>2, <1>3, WordType

LEMMA RotlType ==
  ASSUME NEW w \in Bits32, NEW n \in Nat
  PROVE  Rotl(w, n) \in Bits32
<1>1. ASSUME NEW i \in 1..32 PROVE w[1 + ((i - 1 + n) % 32)] \in {0, 1}
  <2> DEFINE m == i - 1 + n
             k == 1 + (m % 32)
  <2>1. m \in Nat
    OBVIOUS
  <2> HIDE DEF m
  <2>2. k \in 1..32
    BY <2>1
  <2> HIDE DEF k
  <2>3. w[k] \in {0, 1}
    BY <2>2 DEF Bits32
  <2>. QED  BY <2>3 DEF k, m
<1>. QED  BY <1>1 DEF Rotl, Bits32

LEMMA BitwiseType ==
  ASSUME NEW v \in Bits32, NEW w \in Bits32
  PROVE  XorWord(v, w) \in Bits32 /\ AndWord(v, w) \in Bits32 /\ Inverted(w) \in Bits32
<1>1. ASSUME NEW i \in 1..32
      PROVE  (v[i] + w[i]) % 2 \in {0, 1} /\ v[i] * w[i] \in {0, 1} /\ 1 - w[i] \in {0, 1}
  <2>1. v[i] \in {0, 1} /\ w[i] \in {0, 1}
    BY DEF Bits32
  <2> DEFINE a == v[i]
             b == w[i]
  <2> HIDE DEF a, b
  <2>2. (a = 0 \/ a = 1) /\ (b = 0 \/ b = 1)
    BY <2>1 DEF a, b
  <2>3. (a + b) % 2 \in {0, 1} /\ a * b \in {0, 1} /\ 1 - b \in {0, 1}
    BY <2>2
  <2>. QED  BY <2>3 DEF a, b
<1>2. XorWord(v, w) \in Bits32
  BY <1>1 DEF XorWord, Bits32
<1>3. AndWord(v, w) \in Bits32
  BY <1>1 DEF AndWord, Bits32
<1>4. Inverted(w) \in Bits32
  BY <1>1 DEF Inverted, Bits32
<1>. QED  BY <1>2, <1>3, <1>4

LEMMA MixType ==
  ASSUME NEW fi \in 1..4, NEW x \in Bits32, NEW y \in Bits32, NEW z \in Bits32
  PROVE  Mix(fi, x, y, z) \in Bits32
<1>1. Ch(x, y, z) \in Bits32
  <2>1. Inverted(x) \in Bits32
    BY BitwiseType
  <2>2. AndWord(x, y) \in Bits32 /\ AndWord(Inverted(x), z) \in Bits32
    BY <2>1, BitwiseType
  <2>. QED  BY <2>2, BitwiseType DEF Ch
<1>2. Maj(x, y, z) \in Bits32
  <2>1. AndWord(x, y) \in Bits32 /\ AndWord(x, z) \in Bits32 /\ AndWord(y, z) \in Bits32
    BY BitwiseType
  <2>2. XorWord(AndWord(x, y), AndWord(x, z)) \in Bits32
    BY <2>1, BitwiseType
  <2>. QED  BY <2>1, <2>2, BitwiseType DEF Maj
<1>3. Parity(x, y, z) \in Bits32
  <2>1. XorWord(x, y) \in Bits32
    BY BitwiseType
  <2>. QED  BY <2>1, BitwiseType DEF Parity
<1>4. fi = 1 \/ fi = 2 \/ fi = 3 \/ fi = 4
  OBVIOUS
<1>. QED  BY <1>1, <1>2, <1>3, <1>4 DEF Mix
-----------------------------------------------------------------------------
\* What a round replaces: the words of the hash and those of the block.
State == [a : Words, w : Block]

LEMMA RoundType ==
  ASSUME NEW p \in State, NEW s \in 0..79
  PROVE  Round(p, s) \in State
<1> DEFINE Pos(n) == 1 + ((s + n) % 16)
           fi    == 1 + (s \div 20)
           last  == Rotl(XorWord(XorWord(p.w[Pos(13)], p.w[Pos(8)]),
                                 XorWord(p.w[Pos(2)], p.w[Pos(0)])), 1)
           w     == IF s < 16 THEN p.w ELSE [p.w EXCEPT ![Pos(0)] = last]
           sum3  == Plus(Constants[fi], w[Pos(0)])
           sum2  == Plus(p.a[5], sum3)
           mixed == Mix(fi, p.a[2], p.a[3], p.a[4])
           sum1  == Plus(mixed, sum2)
           temp  == Plus(Rotl(p.a[1], 5), sum1)
           turned == Rotl(p.a[2], 30)
<1>1. Round(p, s) = [a |-> <<temp, p.a[1], turned, p.a[3], p.a[4]>>, w |-> w]
  BY DEF Round
<1>2. ASSUME NEW n \in 0..15 PROVE Pos(n) \in 1..16
  OBVIOUS
<1>3. fi \in 1..4
  OBVIOUS
<1>4. p.a \in Words /\ p.w \in Block
  BY DEF State
<1>5. /\ p.a[1] \in Bits32 /\ p.a[2] \in Bits32 /\ p.a[3] \in Bits32
      /\ p.a[4] \in Bits32 /\ p.a[5] \in Bits32
  BY <1>4 DEF Words
<1>6. Constants[fi] \in Bits32
  <2>1. /\ Word(\h5a82, \h7999) \in Bits32 /\ Word(\h6ed9, \heba1) \in Bits32
        /\ Word(\h8f1b, \hbcdc) \in Bits32 /\ Word(\hca62, \hc1d6) \in Bits32
    BY WordType
  <2> HIDE DEF fi
  <2>2. fi = 1 \/ fi = 2 \/ fi = 3 \/ fi = 4
    BY <1>3
  <2>. QED  BY <2>1, <2>2 DEF Constants
<1> HIDE DEF fi
<1>7. /\ p.w[Pos(13)] \in Bits32 /\ p.w[Pos(8)] \in Bits32
      /\ p.w[Pos(2)] \in Bits32 /\ p.w[Pos(0)] \in Bits32 /\ Pos(0) \in 1..16
  <2>1. Pos(13) \in 1..16 /\ Pos(8) \in 1..16 /\ Pos(2) \in 1..16 /\ Pos(0) \in 1..16
    BY <1>2
  <2> HIDE DEF Pos
  <2>. QED  BY <1>4, <2>1 DEF Block
<1> HIDE DEF Pos
<1>8. last \in Bits32
  <2>1. /\ XorWord(p.w[Pos(13)], p.w[Pos(8)]) \in Bits32
        /\ XorWord(p.w[Pos(2)], p.w[Pos(0)]) \in Bits32
    BY <1>7, BitwiseType
  <2>2. XorWord(XorWord(p.w[Pos(13)], p.w[Pos(8)]), XorWord(p.w[Pos(2)], p.w[Pos(0)])) \in Bits32
    BY <2>1, BitwiseType
  <2>. QED  BY <2>2, RotlType
<1> HIDE DEF last
<1>9. w \in Block
  BY <1>4, <1>7, <1>8 DEF Block
<1>10. w[Pos(0)] \in Bits32
  BY <1>7, <1>9 DEF Block
<1> HIDE DEF w
<1>11. sum3 \in Bits32
  BY <1>6, <1>10, PlusType
<1> HIDE DEF sum3
<1>12. sum2 \in Bits32
  BY <1>5, <1>11, PlusType
<1>13. mixed \in Bits32
  BY <1>3, <1>5, MixType
<1> HIDE DEF sum2, mixed
<1>14. sum1 \in Bits32
  BY <1>12, <1>13, PlusType
<1>15. turned \in Bits32 /\ Rotl(p.a[1], 5) \in Bits32
  BY <1>5, RotlType
<1> HIDE DEF sum1, turned
<1>16. temp \in Bits32
  BY <1>14, <1>15, PlusType
<1> HIDE DEF temp
<1>17. <<temp, p.a[1], turned, p.a[3], p.a[4]>> \in Words
  BY <1>5, <1>15, <1>16 DEF Words
<1>. QED  BY <1>1, <1>9, <1>17 DEF State

\* The function that Rounds computes, for the first n rounds.
Turns(f, h, w, n) ==
  f = [t \in 0..n |->
         IF t = 0 THEN [a |-> h, w |-> w]
         ELSE CHOOSE r \in {Round(p, t - 1) : p \in {f[t - 1]}} : r = r]

\* A round takes what the one before it made.
LEMMA Turned ==
  ASSUME NEW p, NEW s
  PROVE  (CHOOSE r \in {Round(q, s) : q \in {p}} : r = r) = Round(p, s)
<1>1. {Round(q, s) : q \in {p}} = {Round(p, s)}
  OBVIOUS
<1> DEFINE x == Round(p, s)
<1> HIDE DEF x
<1>2. (CHOOSE r \in {x} : r = r) = x
  OBVIOUS
<1>. QED  BY <1>1, <1>2 DEF x

\* There is such a function, and its values are states.
LEMMA TurnsExist ==
  ASSUME NEW h \in Words, NEW w \in Block
  PROVE  \E f : Turns(f, h, w, 80)
<1> DEFINE G == {m \in Nat : \E f : Turns(f, h, w, m)}
           first == [a |-> h, w |-> w]
<1> HIDE DEF first
<1>1. 0 \in G
  <2>1. Turns([t \in 0..0 |-> first], h, w, 0)
    BY DEF Turns, first
  <2>. QED  BY <2>1
<1>2. ASSUME NEW m \in Nat, m \in G PROVE m + 1 \in G
  <2>1. PICK f : Turns(f, h, w, m)
    BY <1>2
  <2> DEFINE g == [t \in 0..(m + 1) |-> IF t = m + 1 THEN Round(f[m], m) ELSE f[t]]
  <2>2. \A t \in 0..m : g[t] = f[t]
    OBVIOUS
  <2>3. ASSUME NEW t \in 0..(m + 1)
        PROVE  g[t] = IF t = 0 THEN first
                      ELSE CHOOSE r \in {Round(p, t - 1) : p \in {g[t - 1]}} : r = r
    <3>1. CASE t = m + 1
      <4>1. g[t] = Round(f[m], m) /\ g[t - 1] = f[m] /\ t - 1 = m /\ t # 0
        BY <3>1, <2>2
      <4> HIDE DEF g
      <4>. QED  BY <4>1, Turned
    <3>2. CASE t # m + 1
      <4>1. t \in 0..m /\ g[t] = f[t] /\ (t # 0 => g[t - 1] = f[t - 1])
        BY <3>2, <2>2
      <4>2. f[t] = IF t = 0 THEN first
                   ELSE CHOOSE r \in {Round(p, t - 1) : p \in {f[t - 1]}} : r = r
        BY <2>1, <4>1 DEF Turns, first
      <4> HIDE DEF g
      <4>. QED  BY <4>1, <4>2
    <3>. QED  BY <3>1, <3>2
  <2>4. Turns(g, h, w, m + 1)
    <3>1. g = [t \in 0..(m + 1) |-> g[t]]
      OBVIOUS
    <3> HIDE DEF g
    <3>. QED  BY <2>3, <3>1 DEF Turns, first
  <2>. QED  BY <2>4
<1>3. Nat \subseteq G
  <2> HIDE DEF G
  <2>. QED  BY <1>1, <1>2, Induction
<1>. QED  BY <1>3

LEMMA RoundsType ==
  ASSUME NEW h \in Words, NEW w \in Block
  PROVE  Rounds(h, w) \in Words
<1> DEFINE after == CHOOSE f : Turns(f, h, w, 80)
           G == {t \in Nat : t <= 80 => after[t] \in State}
<1>1. Turns(after, h, w, 80)
  BY TurnsExist
<1>2. Rounds(h, w) = after[80].a
  BY DEF Rounds, Turns
<1> HIDE DEF after
<1>3. 0 \in G
  BY <1>1 DEF Turns, State
<1>4. ASSUME NEW t \in Nat, t \in G PROVE t + 1 \in G
  <2> SUFFICES ASSUME t + 1 <= 80 PROVE after[t + 1] \in State
    OBVIOUS
  <2>1. after[t] \in State /\ t \in 0..79 /\ t + 1 \in 0..80 /\ t + 1 # 0 /\ (t + 1) - 1 = t
    BY <1>4
  <2>2. after[t + 1] = CHOOSE r \in {Round(p, t) : p \in {after[t]}} : r = r
    BY <1>1, <2>1 DEF Turns
  <2>3. after[t + 1] = Round(after[t], t)
    BY <2>2, Turned
  <2>. QED  BY <2>1, <2>3, RoundType
<1>5. after[80] \in State
  <2>1. Nat \subseteq G
    <3> HIDE DEF G
    <3>. QED  BY <1>3, <1>4, Induction
  <2>. QED  BY <2>1
<1>. QED  BY <1>2, <1>5 DEF State

\* A block of bytes makes words of words.
LEMMA CompressType ==
  ASSUME NEW h \in Words, NEW block \in Seq(Byte), Len(block) = 64
  PROVE  Compress(h, block) \in Words
<1> DEFINE W(t) == Word(256 * block[4 * t - 3] + block[4 * t - 2],
                        256 * block[4 * t - 1] + block[4 * t])
           w == [t \in 1..16 |-> W(t)]
           a == Rounds(h, w)
<1>0. \A n \in 1..64 : block[n] \in Byte
  BY ElementOfSeq
<1>1. ASSUME NEW t \in 1..16 PROVE W(t) \in Bits32
  <2> DEFINE b == 4 * t
  <2>1. b - 3 \in 1..64 /\ b - 2 \in 1..64 /\ b - 1 \in 1..64 /\ b \in 1..64
    OBVIOUS
  <2> HIDE DEF b
  <2>2. 256 * block[b - 3] + block[b - 2] \in Int
    <3>1. block[b - 3] \in Byte /\ block[b - 2] \in Byte
      BY <1>0, <2>1
    <3>. QED  BY <3>1, TwoBytes
  <2>3. 256 * block[b - 1] + block[b] \in Int
    <3>1. block[b - 1] \in Byte /\ block[b] \in Byte
      BY <1>0, <2>1
    <3>. QED  BY <3>1, TwoBytes
  <2>. QED  BY <2>2, <2>3, WordType DEF b
<1>2. Compress(h, block) = [i \in 1..5 |-> Plus(h[i], a[i])]
  BY DEF Compress
<1> HIDE DEF W
<1>3. w \in Block
  BY <1>1 DEF Block
<1> HIDE DEF w
<1>4. a \in Words
  BY <1>3, RoundsType
<1> HIDE DEF a
<1>5. ASSUME NEW i \in 1..5 PROVE Plus(h[i], a[i]) \in Bits32
  <2>1. h[i] \in Bits32 /\ a[i] \in Bits32
    BY <1>4 DEF Words
  <2>. QED  BY <2>1, PlusType
<1>. QED  BY <1>2, <1>5 DEF Words
-----------------------------------------------------------------------------
\* A message whose length in bits fits two bytes.
Short(msg) == Len(msg) < 8192

\* Five words are twenty bytes.
LEMMA HashBytes ==
  ASSUME NEW h \in Words
  PROVE  Hash(h) \in Seq(Byte) /\ Len(Hash(h)) = 20
<1> DEFINE Part(i) == ByteAt(h[(i + 3) \div 4], 8 * ((i - 1) % 4))
<1>1. ASSUME NEW i \in 1..20 PROVE Part(i) \in Byte
  <2> DEFINE w == (i + 3) \div 4
             b == 8 * ((i - 1) % 4)
  <2>1. w \in 1..5 /\ b \in 0..24
    OBVIOUS
  <2> HIDE DEF w, b
  <2>2. h[w] \in Bits32
    BY <2>1 DEF Words
  <2>3. ByteAt(h[w], b) \in Byte
    BY <2>1, <2>2, ByteType
  <2>. QED  BY <2>3 DEF w, b
<1>2. Hash(h) = [i \in 1..20 |-> Part(i)]
  BY DEF Hash
<1> HIDE DEF Part
<1>3. [i \in 1..20 |-> Part(i)] \in Seq(Byte) /\ Len([i \in 1..20 |-> Part(i)]) = 20
  BY <1>1
<1>. QED  BY <1>2, <1>3

\* Whole blocks of bytes leave words.
LEMMA AfterWords ==
  ASSUME NEW msg \in Seq(Byte), NEW n \in Nat, 64 * n <= Len(msg)
  PROVE  After(msg, n).h \in Words
<1> DEFINE G == {k \in Nat : 64 * k <= Len(msg) => After(msg, k).h \in Words}
<1>1. 0 \in G
  <2>1. Start.h \in Words
    <3>1. /\ Word(\h6745, \h2301) \in Bits32 /\ Word(\hefcd, \hab89) \in Bits32
          /\ Word(\h98ba, \hdcfe) \in Bits32 /\ Word(\h1032, \h5476) \in Bits32
          /\ Word(\hc3d2, \he1f0) \in Bits32
      BY WordType
    <3>. QED  BY <3>1 DEF Start, Words
  <2>. QED  BY <2>1, AfterSteps
<1>2. ASSUME NEW k \in Nat, k \in G PROVE k + 1 \in G
  <2> SUFFICES ASSUME 64 * (k + 1) <= Len(msg) PROVE After(msg, k + 1).h \in Words
    OBVIOUS
  <2> DEFINE state == After(msg, k)
             first == 64 * k + 1
             last  == 64 * k + 64
             block == SubSeq(msg, first, last)
  <2>1. Len(msg) \in Nat
    OBVIOUS
  <2>2. state.h \in Words
    BY <1>2, <2>1
  <2>3. After(msg, k + 1) = NextBlock(state, block)
    BY AfterSteps
  <2>4. first \in Nat \ {0} /\ last \in Nat /\ last <= Len(msg) /\ first <= last + 1
        /\ last - first + 1 = 64
    BY <2>1
  <2> HIDE DEF state, first, last
  <2>5. block \in Seq(Byte) /\ Len(block) = 64
    BY <2>4, Piece
  <2> HIDE DEF block
  <2>6. Compress(state.h, block) \in Words
    BY <2>2, <2>5, CompressType
  <2>. QED  BY <2>3, <2>6 DEF NextBlock
<1>3. Nat \subseteq G
  <2> HIDE DEF G
  <2>. QED  BY <1>1, <1>2, Induction
<1>. QED  BY <1>3

\* The padding of bytes is bytes, of whole blocks.
LEMMA PaddedType ==
  ASSUME NEW msg \in Seq(Byte), Short(msg)
  PROVE  /\ Padded(msg) \in Seq(Byte)
         /\ Len(Padded(msg)) \div 64 \in Nat
         /\ 64 * (Len(Padded(msg)) \div 64) <= Len(Padded(msg))
<1> DEFINE n == Len(msg)
           b == n \div 64
           r == n % 64
           e == IF r <= 55 THEN 64 * b + 64 ELSE 64 * b + 128
           P == Padded(msg)
           high == (8 * n) \div 256
           low  == (8 * n) % 256
<1>1. n \in Nat /\ n < 8192 /\ msg \in Seq(Int) /\ \A i \in 1..n : msg[i] \in Byte
  <2>1. Byte \subseteq Int
    BY DEF Byte
  <2>2. msg \in Seq(Int)
    BY <2>1, Widened
  <2>3. \A i \in 1..Len(msg) : msg[i] \in Byte
    BY ElementOfSeq
  <2>4. Len(msg) \in Nat /\ Len(msg) < 8192
    BY DEF Short
  <2>. QED  BY <2>2, <2>3, <2>4
<1> HIDE DEF n
<1>2. b \in Nat /\ r \in 0..63 /\ n = 64 * b + r
  BY <1>1, Division
<1>3. high \in Byte /\ low \in Byte
  BY <1>1 DEF Byte
<1> HIDE DEF b, r, high, low
<1>0. e = IF r <= 55 THEN 64 * b + 64 ELSE 64 * b + 128
  OBVIOUS
<1> HIDE DEF e
<1>4. Fills(P, msg, e)
  <2>1. Len(msg) = 64 * b + r
    BY <1>2 DEF n
  <2>2. msg \in Seq(Int) /\ b \in Nat /\ r \in 0..63
    BY <1>1, <1>2
  <2>3. ASSUME NEW m, m \in Seq(Int), Len(m) = 64 * b + r
        PROVE  Fills(Padded(m), m, e)
    BY <1>0, <2>2, <2>3, PaddedBytes
  <2>. QED  BY <2>1, <2>2, <2>3
<1> HIDE DEF P
<1>5. /\ P \in Seq(Int) /\ Len(P) = e /\ \A i \in 1..n : P[i] = msg[i]
      /\ P[n + 1] = 128 /\ \A i \in (n + 2)..(e - 2) : P[i] = 0
      /\ P[e - 1] = high /\ P[e] = low
  BY <1>4 DEF Fills, n, high, low
<1>6. e \in Nat /\ n + 1 <= e - 2
  BY <1>0, <1>2
<1>7. ASSUME NEW i \in 1..e PROVE P[i] \in Byte
  <2>1. i \in 1..n \/ i = n + 1 \/ i \in (n + 2)..(e - 2) \/ i = e - 1 \/ i = e
    BY <1>1, <1>6
  <2>2. 128 \in Byte /\ 0 \in Byte
    BY DEF Byte
  <2>3. i \in 1..n => P[i] \in Byte
    BY <1>1, <1>5
  <2>4. i \in (n + 2)..(e - 2) => P[i] \in Byte
    BY <1>5, <2>2
  <2>5. P[n + 1] \in Byte /\ P[e - 1] \in Byte /\ P[e] \in Byte
    BY <1>3, <1>5, <2>2
  <2>. QED  BY <2>1, <2>3, <2>4, <2>5
<1>8. P = [i \in 1..e |-> P[i]]
  BY <1>5
<1>9. [i \in 1..e |-> P[i]] \in Seq(Byte)
  BY <1>6, <1>7
<1>10. e \div 64 \in Nat /\ 64 * (e \div 64) <= e
  BY <1>6
<1>11. P \in Seq(Byte) /\ Len(P) \div 64 \in Nat /\ 64 * (Len(P) \div 64) <= Len(P)
  <2>1. P \in Seq(Byte)
    BY <1>8, <1>9
  <2>2. Len(P) = e
    BY <1>5
  <2>. QED  BY <1>10, <2>1, <2>2
<1>. QED  BY <1>11 DEF P

\* The digest of a message is twenty bytes.
LEMMA DigestType ==
  ASSUME NEW msg \in Seq(Byte), Short(msg)
  PROVE  Digest(msg) \in Seq(Byte) /\ Len(Digest(msg)) = 20
<1> DEFINE P == Padded(msg)
           k == Len(P) \div 64
<1>1. P \in Seq(Byte) /\ k \in Nat /\ 64 * k <= Len(P)
  BY PaddedType
<1>2. Digest(msg) = Hash(After(P, k).h)
  BY DEF Digest
<1> HIDE DEF P, k
<1>3. After(P, k).h \in Words
  BY <1>1, AfterWords
<1>. QED  BY <1>2, <1>3, HashBytes

\* A key of any length, with the secret behind it.
LEMMA MessageType ==
  ASSUME NEW length \in Byte
  PROVE  /\ ClientKey(length) \o Secret \in Seq(Byte)
         /\ Short(ClientKey(length) \o Secret)
<1>1. Sample \in Seq(Byte) /\ Len(Sample) = 24
  BY DEF Sample, Byte
<1>2. Secret \in Seq(Byte) /\ Len(Secret) = 36
  BY DEF Secret, Byte
<1>3. ClientKey(length) \in Seq(Byte) /\ Len(ClientKey(length)) \in 0..255
  <2>1. CASE length = 24
    BY <1>1, <2>1 DEF ClientKey
  <2>2. CASE length # 24
    <3> DEFINE Char24(i) == Sample[1 + (i % 24)]
    <3>0. length \in 0..255
      BY DEF Byte
    <3>1. ASSUME NEW i \in 1..length PROVE Char24(i) \in Byte
      <4> DEFINE k == 1 + (i % 24)
      <4>1. k \in 1..24
        BY <3>0
      <4> HIDE DEF k
      <4>2. k \in 1..Len(Sample)
        BY <1>1, <4>1
      <4>3. Sample[k] \in Byte
        BY <1>1, <4>2, ElementOfSeq
      <4>. QED  BY <4>3 DEF k
    <3>2. ClientKey(length) = [i \in 1..length |-> Char24(i)]
      BY <2>2 DEF ClientKey
    <3> HIDE DEF Char24
    <3>3. [i \in 1..length |-> Char24(i)] \in Seq(Byte)
          /\ Len([i \in 1..length |-> Char24(i)]) = length
      BY <3>0, <3>1
    <3>. QED  BY <3>0, <3>2, <3>3
  <2>. QED  BY <2>1, <2>2
<1> DEFINE p == ClientKey(length)
           t == p \o Secret
           c == Len(p)
           s == Len(Secret)
<1>4. t \in Seq(Byte) /\ Len(t) = c + s
  <2> HIDE DEF p
  <2>. QED  BY <1>2, <1>3, Joined DEF p
<1>5. c \in 0..255 /\ s = 36
  BY <1>2, <1>3
<1> HIDE DEF c, s
<1>6. c + s < 8192
  BY <1>5
<1> HIDE DEF p, t
<1>7. Short(t)
  BY <1>4, <1>6 DEF Short
<1>. QED  BY <1>4, <1>7 DEF p, t

\* The key of the answer is the Base64 form of the standard's digest, whatever the
\* length of the client's key; the decoder gives the digest back, and any part of
\* it that Base64 has to pad.
THEOREM AcceptKeyIsRight == Spec => []AcceptKeyRight
<1>1. TypeOK => AcceptKeyRight
  <2> SUFFICES ASSUME TypeOK, key # 0
      PROVE  LET msg    == ClientKey(key) \o Secret
                 digest == Sha1(msg)
             IN  /\ digest = Digest(msg)
                 /\ \A n \in 18..20 :
                      Decoded(Base64enc(SubSeq(digest, 1, n))) = SubSeq(digest, 1, n)
    BY DEF AcceptKeyRight
  <2> DEFINE msg    == ClientKey(key) \o Secret
             digest == Sha1(msg)
  <2>1. key \in Byte
    BY DEF TypeOK, Byte
  <2>2. msg \in Seq(Byte) /\ Short(msg)
    BY <2>1, MessageType
  <2> HIDE DEF msg
  <2>3. digest = Digest(msg)
    <3>1. Byte \subseteq Int
      BY DEF Byte
    <3>2. msg \in Seq(Int)
      BY <2>2, <3>1, Widened
    <3>. QED  BY <3>2, DigestIsPadded
  <2>4. digest \in Seq(Byte) /\ Len(digest) = 20
    BY <2>2, <2>3, DigestType
  <2> HIDE DEF digest
  <2>5. ASSUME NEW n \in 18..20
        PROVE  Decoded(Base64enc(SubSeq(digest, 1, n))) = SubSeq(digest, 1, n)
    <3> DEFINE part == SubSeq(digest, 1, n)
    <3>1. part \in Seq(Byte) /\ Len(part) = n
      <4>1. 1 \in Nat \ {0} /\ n \in Nat /\ n <= Len(digest) /\ 1 <= n + 1
        BY <2>4
      <4>2. digest \in Seq(Byte)
        BY <2>4
      <4>3. part \in Seq(Byte) /\ Len(part) = n - 1 + 1
        BY <4>1, <4>2, Piece
      <4>. QED  BY <4>1, <4>3
    <3> HIDE DEF part
    <3>2. part \in Seq(0..255) /\ part # << >>
      BY <3>1 DEF Byte
    <3>3. Decoded(Base64enc(part)) = part
      BY <3>2, Base64Decodes
    <3>. QED  BY <3>3 DEF part
  <2>. QED  BY <2>3, <2>5 DEF msg, digest
<1>. QED  BY <1>1, TypeCorrect, PTL
=============================================================================
