------------------------- MODULE SlangServerProofs -------------------------
(***************************************************************************)
(* Safety of the hand-over in slangio_server for any number of slots,      *)
(* descriptors and connections, and any failures of accept,                *)
(* pthread_create, fork and the daemon's set-up.                           *)
(***************************************************************************)
EXTENDS SlangServer, TLAPS

\* What the proofs need of the numberings.
LEMMA Numbers ==
  /\ 0 \in Slots /\ 0 \in Fds
  /\ \A s \in Slots : s \in Int
  /\ \A f \in Fds : f \in Int /\ 0 <= f /\ f \in -1..MaxFd
  /\ \A c \in Conns : c \in Int /\ 0 < c /\ c \in -1..Attempts
  /\ \A f \in -1..MaxFd : f = -1 \/ f \in Fds
  /\ -1 \in -1..MaxFd /\ 0 \in -1..MaxFd
  /\ -1 \in -1..Attempts /\ 0 \in -1..Attempts
  BY BoundsAssumption DEF Slots, Fds, Conns

\* The index of an unfinished scan is a slot.
LEMMA ScanIndex ==
  ASSUME NEW n \in 0..MAXCONNS, n < MAXCONNS
  PROVE  n \in Slots /\ n + 1 \in 0..MAXCONNS
  BY BoundsAssumption DEF Slots

\* The next attempt is a connection's number.
LEMMA NextAttempt ==
  ASSUME NEW n \in 0..Attempts, n < Attempts
  PROVE  n + 1 \in Conns /\ n + 1 \in 0..Attempts /\ n + 1 > 0
  BY BoundsAssumption DEF Conns

\* Every variable keeps its type.
THEOREM TypeCorrect == Spec => []TypeOK
<1>1. Init => TypeOK
  <2> SUFFICES ASSUME Init PROVE TypeOK
    OBVIOUS
  <2>1. NewConns \in [Slots -> Int]
    BY TablesAssumption DEF Init
  <2>2. i \in 0..MAXCONNS /\ attempt \in 0..Attempts
    BY BoundsAssumption DEF Init
  <2>. QED
    BY <2>1, <2>2, Numbers DEF Init, TypeOK, Free, Std
<1>2. TypeOK /\ [Next]_vars => TypeOK'
  <2> SUFFICES ASSUME TypeOK, [Next]_vars PROVE TypeOK'
    OBVIOUS
  <2> USE Numbers DEF TypeOK
  <2>1. CASE ScanSlot
    BY <2>1, ScanIndex DEF ScanSlot, threadVars, childVars
  <2>2. CASE ScanFull  BY <2>2 DEF ScanFull, threadVars, childVars
  <2>3. CASE Accept
    <3>1. /\ UNCHANGED <<ncptr, i, overflowed, threadVars, childVars>>
          /\ mpc' = "spawn" /\ attempt' \in 1..Attempts
      BY <2>3, NextAttempt DEF Accept
    <3>2. NewConns' \in [Slots -> Int] /\ returned' \in [Conns -> -1..MaxFd]
      BY <2>3 DEF Accept, FreeFds
    <3>3. fds' \in [Fds -> -1..Attempts]
      BY <2>3, NextAttempt DEF Accept, FreeFds
    <3>. QED  BY <3>1, <3>2, <3>3 DEF threadVars, childVars
  <2>4. CASE Spawn
    <3>1. i' \in 0..MAXCONNS  BY <2>4, BoundsAssumption DEF Spawn
    <3>. QED  BY <2>4, <3>1 DEF Spawn, childVars
  <2>5. ASSUME NEW k \in Conns, Read(k) PROVE TypeOK'
    BY <2>5 DEF Read, mainVars, childVars
  <2>6. ASSUME NEW k \in Conns, Fork(k) PROVE TypeOK'
    BY <2>6 DEF Fork, mainVars, Free
  <2>7. ASSUME NEW k \in Conns, Wait(k) PROVE TypeOK'
    BY <2>7 DEF Wait, mainVars
  <2>8. ASSUME NEW k \in Conns, Close(k) PROVE TypeOK'
    BY <2>8 DEF Close, mainVars, childVars, Free
  <2>9. ASSUME NEW k \in Conns, Close_Thread(k) PROVE TypeOK'
    BY <2>9 DEF Close_Thread, childVars
  <2>10. ASSUME NEW k \in Conns, Child(k) PROVE TypeOK'
    BY <2>10 DEF Child, ForkDaemon, SetUp, Exec, mainVars, threadVars
  <2>11. ASSUME NEW k \in Conns, SessionEnd(k) PROVE TypeOK'
    BY <2>11 DEF SessionEnd, mainVars, threadVars
  <2>12. CASE UNCHANGED vars
    BY <2>12 DEF vars, mainVars, threadVars, childVars
  <2>. QED
    BY <2>1, <2>2, <2>3, <2>4, <2>5, <2>6, <2>7, <2>8, <2>9, <2>10, <2>11, <2>12
    DEF Next, Main, Client_Thread
<1>. QED  BY <1>1, <1>2, PTL DEF Spec

-----------------------------------------------------------------------------
\* The bookkeeping between finding a slot and zeroing it holds throughout, and
\* with it the three safety properties of the hand-over.
THEOREM Inductive == Spec => []IndInv
<1>1. Init => IndInv
  <2> SUFFICES ASSUME Init PROVE IndInv
    OBVIOUS
  <2>1. TypeOK
    <3>1. NewConns \in [Slots -> Int]
      BY TablesAssumption DEF Init
    <3>2. i \in 0..MAXCONNS /\ attempt \in 0..Attempts
      BY BoundsAssumption DEF Init
    <3>. QED
      BY <3>1, <3>2, Numbers DEF Init, TypeOK, Free, Std
  <2>2. Bookkeeping
    BY Numbers DEF Init, Bookkeeping
  <2>3. SlotExclusive /\ OwnClientOnly
    BY DEF Init, SlotExclusive, OwnClientOnly, Live
  <2>4. SocketsKept
    BY Numbers DEF Init, SocketsKept, Free, Std
  <2>. QED  BY <2>1, <2>2, <2>3, <2>4 DEF IndInv
<1>2. TypeOK /\ TypeOK' /\ IndInv /\ [Next]_vars => IndInv'
  <2> SUFFICES ASSUME TypeOK, TypeOK', IndInv, [Next]_vars PROVE IndInv'
    OBVIOUS
  <2> USE Numbers DEF IndInv, TypeOK
  <2>1. CASE ScanSlot
    BY <2>1, ScanIndex DEF ScanSlot, threadVars, childVars, Bookkeeping,
       SlotExclusive, SocketsKept, OwnClientOnly
  <2>2. CASE ScanFull
    BY <2>2 DEF ScanFull, threadVars, childVars, Bookkeeping,
       SlotExclusive, SocketsKept, OwnClientOnly
  <2>3. CASE Accept
    <3> USE <2>3 DEF Accept, threadVars, childVars
    <3>0. attempt + 1 \in Conns /\ returned[attempt + 1] = 0
          /\ wpc[attempt + 1] = "none" /\ ~(attempt + 1 <= attempt)
      BY NextAttempt DEF Bookkeeping
    <3>1. returned'[attempt + 1] # 0 \/ overflowed
      BY <3>0 DEF FreeFds, SocketsKept, Free, Std
    <3>2. Bookkeeping'
      <4>1. \A k \in Conns : k > attempt' => returned'[k] = 0 /\ wpc'[k] = "none"
        BY <3>0 DEF Bookkeeping
      <4>2. wpc'[attempt'] = "none"
        BY <3>0
      <4>3. \A k \in Conns : k <= attempt' /\ ~overflowed => returned'[k] # 0
        <5> SUFFICES ASSUME NEW k \in Conns, k <= attempt', ~overflowed
                     PROVE  returned'[k] # 0
          OBVIOUS
        <5>1. CASE k = attempt + 1
          BY <5>1, <3>1
        <5>2. CASE k # attempt + 1
          <6>1. k <= attempt
            BY <5>2 DEF Conns
          <6>2. returned'[k] = returned[k]
            BY <5>2
          <6>. QED  BY <6>1, <6>2 DEF Bookkeeping
        <5>. QED  BY <5>1, <5>2
      <4>4. ~overflowed => /\ NewConns'[ncptr] = returned'[attempt']
                           /\ \A k \in Conns : wpc[k] \in Live => slot[k] # ncptr
        <5>1. NewConns'[ncptr] = returned'[attempt']
          BY <3>0
        <5>2. ASSUME ~overflowed, NEW k \in Conns, wpc[k] \in Live PROVE slot[k] # ncptr
          <6>1. NewConns[slot[k]] = returned[k]
            BY <5>2 DEF SlotExclusive
          <6>2. k <= attempt
            BY <5>2 DEF Bookkeeping, Live
          <6>. QED  BY <5>2, <6>1, <6>2 DEF Bookkeeping
        <5>. QED  BY <5>1, <5>2
      <4>5. \A k \in Conns : ~overflowed /\ wpc[k] \in {"fork", "wait", "waitany", "close"}
                                => sock[k] = returned'[k]
        BY <3>0 DEF Bookkeeping
      <4>6. \A k \in Conns : ~overflowed /\ (pid0[k] = "running" \/ daemon[k] = "born")
                                => kept[k] = IF returned'[k] = -1 THEN Free ELSE k
        BY <3>0 DEF Bookkeeping
      <4>. QED  BY <4>1, <4>2, <4>3, <4>4, <4>5, <4>6 DEF Bookkeeping
    <3>3. SlotExclusive'
      BY <3>0 DEF Bookkeeping, SlotExclusive, Live
    <3>4. SocketsKept'
      BY <3>0, <3>1 DEF SocketsKept, FreeFds, Free, Std
    <3>5. OwnClientOnly'
      BY <3>0 DEF OwnClientOnly, Bookkeeping
    <3>. QED  BY <3>2, <3>3, <3>4, <3>5
  <2>4. CASE Spawn
    <3> USE <2>4 DEF Spawn, childVars
    <3>0. attempt \in Conns
      BY BoundsAssumption DEF Conns
    <3>1. Bookkeeping'
      BY <3>0 DEF Bookkeeping
    <3>2. SlotExclusive'
      BY <3>0 DEF Bookkeeping, SlotExclusive, Live
    <3>3. SocketsKept' /\ OwnClientOnly'
      BY <3>0 DEF Bookkeeping, SocketsKept, OwnClientOnly
    <3>. QED  BY <3>1, <3>2, <3>3
  <2>5. ASSUME NEW k \in Conns, Read(k) PROVE IndInv'
    BY <2>5 DEF Read, mainVars, childVars, Bookkeeping, SlotExclusive,
       SocketsKept, OwnClientOnly, Live
  <2>6. ASSUME NEW k \in Conns, Fork(k) PROVE IndInv'
    <3> USE <2>6 DEF Fork, mainVars
    <3>1. Bookkeeping'
      <4>1. ~overflowed => kept'[k] = (IF returned[k] = -1 THEN Free ELSE k)
                           \/ wpc'[k] = "waitany"
        <5> SUFFICES ASSUME ~overflowed, wpc'[k] = "wait"
                     PROVE  kept'[k] = IF returned[k] = -1 THEN Free ELSE k
          BY DEF Free
        <5>1. sock[k] = returned[k] /\ returned[k] # 0 /\ returned[k] \in -1..MaxFd
          BY DEF Bookkeeping
        <5>2. CASE returned[k] = -1
          BY <5>1, <5>2
        <5>3. CASE returned[k] # -1
          BY <5>1, <5>3 DEF SocketsKept
        <5>. QED  BY <5>2, <5>3
      <4>2. \A j \in Conns : /\ wpc'[j] \in {"none", "read", "fork"} =>
                                    pid0'[j] = "none" /\ daemon[j] = "none"
                             /\ pid0'[j] = "running" => daemon[j] = "none"
        BY DEF Bookkeeping
      <4>3. \A j \in Conns : ~overflowed /\ (pid0'[j] = "running" \/ daemon[j] = "born")
                                => kept'[j] = IF returned[j] = -1 THEN Free ELSE j
        BY <4>1 DEF Bookkeeping
      <4>4. /\ \A j \in Conns : j > attempt => wpc'[j] = "none"
            /\ mpc = "spawn" => wpc'[attempt] = "none"
        <5>1. mpc = "spawn" => attempt \in Conns
          BY BoundsAssumption DEF Conns
        <5>. QED  BY <5>1 DEF Bookkeeping
      <4>5. ~overflowed => \A j \in Conns :
              /\ mpc = "spawn" /\ wpc'[j] \in Live => slot[j] # ncptr
              /\ wpc'[j] \in {"fork", "wait", "waitany", "close"} => sock[j] = returned[j]
        BY DEF Bookkeeping, Live
      <4>. QED  BY <4>2, <4>3, <4>4, <4>5 DEF Bookkeeping
    <3>2. SlotExclusive' /\ SocketsKept'
      BY DEF SlotExclusive, SocketsKept, Live
    <3>3. OwnClientOnly'
      BY DEF OwnClientOnly, Bookkeeping
    <3>. QED  BY <3>1, <3>2, <3>3
  <2>7. ASSUME NEW k \in Conns, Wait(k) PROVE IndInv'
    BY <2>7 DEF Wait, mainVars, Bookkeeping, SlotExclusive, SocketsKept,
       OwnClientOnly, Live
  <2>8. ASSUME NEW k \in Conns, Close(k) PROVE IndInv'
    <3> USE <2>8 DEF Close, mainVars, childVars
    <3>1. Bookkeeping' /\ SlotExclusive' /\ OwnClientOnly'
      BY DEF Bookkeeping, SlotExclusive, OwnClientOnly, Live
    <3>2. SocketsKept'
      BY DEF SocketsKept, Bookkeeping, Free
    <3>. QED  BY <3>1, <3>2
  <2>9. ASSUME NEW k \in Conns, Close_Thread(k) PROVE IndInv'
    BY <2>9 DEF Close_Thread, childVars, Bookkeeping, SlotExclusive,
       SocketsKept, OwnClientOnly, Live
  <2>10. ASSUME NEW k \in Conns, ForkDaemon(k) PROVE IndInv'
    BY <2>10 DEF ForkDaemon, mainVars, threadVars, Bookkeeping, SlotExclusive,
       SocketsKept, OwnClientOnly
  <2>11. ASSUME NEW k \in Conns, SetUp(k) PROVE IndInv'
    <3> USE <2>11 DEF SetUp, mainVars, threadVars
    <3>1. Bookkeeping' /\ SlotExclusive' /\ SocketsKept'
      BY DEF Bookkeeping, SlotExclusive, SocketsKept
    <3>2. OwnClientOnly'
      BY DEF Bookkeeping, OwnClientOnly, Free
    <3>. QED  BY <3>1, <3>2
  <2>12. ASSUME NEW k \in Conns, Exec(k) \/ SessionEnd(k) PROVE IndInv'
    BY <2>12 DEF Exec, SessionEnd, mainVars, threadVars, Bookkeeping,
       SlotExclusive, SocketsKept, OwnClientOnly
  <2>13. CASE UNCHANGED vars
    BY <2>13 DEF vars, mainVars, threadVars, childVars, Bookkeeping,
       SlotExclusive, SocketsKept, OwnClientOnly
  <2>. QED
    BY <2>1, <2>2, <2>3, <2>4, <2>5, <2>6, <2>7, <2>8, <2>9, <2>10, <2>11,
       <2>12, <2>13
    DEF Next, Main, Client_Thread, Child
<1>. QED  BY <1>1, <1>2, TypeCorrect, PTL DEF Spec

\* Main and the threads agree on the table between the scan and the close.
THEOREM SlotsAreKept == Spec => []Bookkeeping
  BY Inductive, PTL DEF IndInv

\* As long as a scan never failed to find a free slot, no two threads share a
\* slot and each finds in its slot what accept() returned for it.
THEOREM SlotsAreExclusive == Spec => []SlotExclusive
  BY Inductive, PTL DEF IndInv

\* ... the server closes every socket it accepted once, and nothing else.
THEOREM SocketsAreKept == Spec => []SocketsKept
  BY Inductive, PTL DEF IndInv

\* ... and a daemon ends up with its own client's socket alone.
THEOREM DaemonsAreIsolated == Spec => []OwnClientOnly
  BY Inductive, PTL DEF IndInv
-----------------------------------------------------------------------------
\* Connection j may be in slot s: of one that got no thread the slot is known
\* only until main goes on.
HeldBy(j, s) ==
  \/ wpc[j] \in Live /\ slot[j] = s
  \/ wpc[j] = "none" /\ (mpc = "spawn" /\ j = attempt => ncptr = s)

\* A thread that gives its slot back, or does anything else, leaves every slot
\* that was given back free or with its later connection.
LEMMA ReturnedKept ==
  ASSUME TypeOK, TypeOK', IndInv, SlotReturned, [Next]_vars
  PROVE  SlotReturned'
<1> SUFFICES ASSUME ~overflowed', NEW k \in Conns, wpc'[k] = "done", NewConns'[slot'[k]] # 0
             PROVE  \E j \in Conns :
                      /\ k < j /\ j <= attempt' /\ returned'[j] = NewConns'[slot'[k]]
                      /\ HeldBy(j, slot[k])'
  BY DEF SlotReturned, HeldBy
<1> DEFINE Later ==
      \E j \in Conns : /\ k < j /\ j <= attempt' /\ returned'[j] = NewConns'[slot'[k]]
                       /\ HeldBy(j, slot[k])'
<1> USE Numbers DEF TypeOK
<1>0. /\ slot[k] \in Slots /\ k \in Int /\ attempt \in Int
      /\ wpc[k] # "none" => k <= attempt
  BY DEF IndInv, Bookkeeping
\* What the invariant says of k before the step.
<1>a. ASSUME ~overflowed, wpc[k] = "done", NewConns[slot[k]] # 0
      PROVE  \E j \in Conns : /\ k < j /\ j <= attempt /\ returned[j] = NewConns[slot[k]]
                              /\ HeldBy(j, slot[k])
  BY <1>a DEF SlotReturned, HeldBy
<1>1. ASSUME UNCHANGED <<NewConns, ncptr, mpc, attempt, returned, overflowed, slot>>,
             \A j \in Conns : wpc'[j] = wpc[j] \/ (wpc[j] \in Live /\ wpc'[j] \in Live)
      PROVE  Later
  <2>1. ~overflowed /\ wpc[k] = "done" /\ NewConns[slot[k]] # 0
    BY <1>1 DEF Live
  <2>2. PICK j \in Conns : /\ k < j /\ j <= attempt /\ returned[j] = NewConns[slot[k]]
                           /\ HeldBy(j, slot[k])
    BY <1>a, <2>1
  <2>3. HeldBy(j, slot[k])'
    BY <1>1, <2>2 DEF HeldBy, Live
  <2>. QED  BY <1>0, <1>1, <2>2, <2>3
<1>2. CASE ScanSlot
  <2>1. UNCHANGED <<NewConns, attempt, returned, overflowed, slot, wpc>> /\ mpc # "spawn" /\ mpc' # "spawn"
    BY <1>2 DEF ScanSlot, threadVars
  <2>2. PICK j \in Conns : /\ k < j /\ j <= attempt /\ returned[j] = NewConns[slot[k]]
                           /\ HeldBy(j, slot[k])
    BY <1>a, <2>1
  <2>. QED  BY <1>0, <2>1, <2>2 DEF HeldBy
<1>3. CASE ScanFull
  BY <1>3 DEF ScanFull
<1>4. CASE Accept
  <2>1. /\ mpc = "accept" /\ mpc' = "spawn" /\ attempt' = attempt + 1 /\ attempt + 1 \in Conns
        /\ UNCHANGED <<overflowed, wpc, slot, ncptr>>
    BY <1>4, NextAttempt DEF Accept, threadVars
  <2>0. PICK e \in Conns : e = attempt + 1
    BY <2>1
  <2>2. wpc[e] = "none" /\ wpc[k] = "done" /\ k < e /\ e \in Int
    BY <1>0, <2>1, <2>0 DEF IndInv, Bookkeeping
  <2>3. CASE slot[k] = ncptr
    <3>1. returned'[e] = NewConns'[ncptr]
      BY <1>4, <2>1, <2>0 DEF Accept
    <3>2. HeldBy(e, slot[k])'
      BY <2>1, <2>2, <2>3 DEF HeldBy
    <3>. QED  BY <2>1, <2>0, <2>2, <2>3, <3>1, <3>2
  <2>4. CASE slot[k] # ncptr
    <3>1. NewConns'[slot[k]] = NewConns[slot[k]]
      BY <1>0, <1>4, <2>4 DEF Accept
    <3>2. PICK j \in Conns : /\ k < j /\ j <= attempt /\ returned[j] = NewConns[slot[k]]
                             /\ HeldBy(j, slot[k])
      BY <1>a, <2>1, <2>2, <3>1
    <3>3. j # attempt + 1 /\ j <= attempt + 1
      BY <1>0, <3>2
    <3>4. returned'[j] = returned[j]
      BY <1>4, <3>3 DEF Accept
    <3>5. HeldBy(j, slot[k])'
      BY <2>1, <3>2, <3>3 DEF HeldBy
    <3>. QED  BY <1>0, <2>1, <3>1, <3>2, <3>3, <3>4, <3>5
  <2>. QED  BY <2>3, <2>4
<1>5. CASE Spawn
  <2>1. /\ mpc = "spawn" /\ mpc' = "scan" /\ attempt \in Conns
        /\ UNCHANGED <<NewConns, ncptr, attempt, returned, overflowed>>
        /\ wpc[attempt] = "none"
    BY <1>5, BoundsAssumption DEF Spawn, Conns, IndInv, Bookkeeping
  <2>2. /\ \/ wpc' = [wpc EXCEPT ![attempt] = "read"] /\ slot' = [slot EXCEPT ![attempt] = ncptr]
           \/ UNCHANGED <<wpc, slot>>
    BY <1>5 DEF Spawn
  <2>3. k # attempt /\ wpc[k] = "done" /\ slot'[k] = slot[k]
    BY <2>1, <2>2
  <2>4. PICK j \in Conns : /\ k < j /\ j <= attempt /\ returned[j] = NewConns[slot[k]]
                           /\ HeldBy(j, slot[k])
    BY <1>a, <2>1, <2>3
  <2>5. HeldBy(j, slot[k])'
    <3>1. CASE j = attempt
      <4>1. ncptr = slot[k]
        BY <2>1, <2>4, <3>1 DEF HeldBy, Live
      <4>. QED  BY <2>1, <2>2, <2>3, <3>1, <4>1 DEF HeldBy, Live
    <3>2. CASE j # attempt
      BY <2>1, <2>2, <2>3, <2>4, <3>2 DEF HeldBy
    <3>. QED  BY <3>1, <3>2
  <2>. QED  BY <1>0, <2>1, <2>3, <2>4, <2>5
<1>6. ASSUME NEW c \in Conns, Read(c) \/ Fork(c) \/ Wait(c) \/ Close(c) PROVE Later
  <2>1. /\ UNCHANGED <<NewConns, ncptr, mpc, attempt, returned, overflowed, slot>>
        /\ \A j \in Conns : wpc'[j] = wpc[j] \/ (wpc[j] \in Live /\ wpc'[j] \in Live)
    BY <1>6 DEF Read, Fork, Wait, Close, mainVars, Live
  <2>. QED  BY <1>1, <2>1
<1>7. ASSUME NEW c \in Conns, Close_Thread(c)
      PROVE  Later
  <2>1. /\ UNCHANGED <<ncptr, mpc, attempt, returned, overflowed, slot>>
        /\ wpc[c] = "zero" /\ wpc' = [wpc EXCEPT ![c] = "done"] /\ slot[c] \in Slots
        /\ NewConns' = [NewConns EXCEPT ![slot[c]] = 0]
    BY <1>7 DEF Close_Thread
  <2>2. slot[k] # slot[c] /\ k # c
    BY <1>0, <2>1
  <2>3. wpc[k] = "done" /\ NewConns'[slot[k]] = NewConns[slot[k]]
    BY <1>0, <2>1, <2>2
  <2>4. PICK j \in Conns : /\ k < j /\ j <= attempt /\ returned[j] = NewConns[slot[k]]
                           /\ HeldBy(j, slot[k])
    BY <1>a, <2>1, <2>3
  <2>5. j # c
    BY <2>1, <2>2, <2>4 DEF HeldBy
  <2>. QED  BY <1>0, <2>1, <2>3, <2>4, <2>5 DEF HeldBy
<1>8. CASE UNCHANGED <<mainVars, threadVars>>
  BY <1>1, <1>8 DEF mainVars, threadVars
<1>9. ASSUME NEW c \in Conns, Child(c) \/ SessionEnd(c) PROVE UNCHANGED <<mainVars, threadVars>>
  BY <1>9 DEF Child, ForkDaemon, SetUp, Exec, SessionEnd
<1>10. CASE UNCHANGED vars
  BY <1>8, <1>10 DEF vars
<1>. QED
  BY <1>2, <1>3, <1>4, <1>5, <1>6, <1>7, <1>8, <1>9, <1>10 DEF Next, Main, Client_Thread

\* Until a scan finds no free slot, the slot of a thread that has ended is free
\* or in use by a later connection, whose number it holds.
THEOREM SlotsAreReturned == Spec => []SlotReturned
<1>1. Init => SlotReturned
  BY DEF Init, SlotReturned
<1>2. TypeOK /\ TypeOK' /\ IndInv /\ SlotReturned /\ [Next]_vars => SlotReturned'
  BY ReturnedKept
<1>. QED  BY <1>1, <1>2, Inductive, TypeCorrect, PTL DEF Spec

\* The threads only free slots: one that is free ahead of the scan stays so
\* until main takes it or another.
THEOREM FreeSlotsAreFound == Spec => FreeSlotFound
<1> DEFINE Found ==
      /\ mpc = "scan" /\ FreeAhead =>
           FreeAhead' /\ (mpc' = "scan" \/ (mpc' = "accept" /\ NewConns'[ncptr'] = 0))
      /\ mpc = "spawn" /\ mpc' = "scan" /\ (\E s \in Slots : NewConns[s] = 0) => FreeAhead'
<1>1. TypeOK /\ [Next]_vars => [Found]_vars
  <2> SUFFICES ASSUME TypeOK, [Next]_vars PROVE Found
    OBVIOUS
  <2> USE Numbers DEF TypeOK, FreeAhead
  <2>1. CASE ScanSlot
    <3>1. mpc = "scan" /\ UNCHANGED NewConns /\ i \in Int
      BY <2>1, BoundsAssumption DEF ScanSlot
    <3>2. CASE NewConns[i] = 0
      <4>1. ncptr' = i /\ mpc' = "accept" /\ i' = i /\ i \in Slots
        BY <2>1, <3>2, ScanIndex DEF ScanSlot
      <4>. QED  BY <3>1, <3>2, <4>1
    <3>3. CASE NewConns[i] # 0
      <4>1. i' = i + 1 /\ mpc' = "scan"
        BY <2>1, <3>3 DEF ScanSlot
      <4>2. ASSUME NEW s \in Slots, s >= i, NewConns[s] = 0 PROVE s >= i'
        BY <3>1, <3>3, <4>1, <4>2
      <4>. QED  BY <3>1, <4>1, <4>2
    <3>. QED  BY <3>2, <3>3
  <2>2. CASE ScanFull
    <3>1. \A s \in Slots : ~(s >= i)
      BY <2>2, BoundsAssumption DEF ScanFull, Slots
    <3>. QED  BY <2>2, <3>1 DEF ScanFull
  <2>3. CASE Accept
    BY <2>3 DEF Accept
  <2>4. CASE Spawn
    <3>1. i' = 0 /\ mpc = "spawn" /\ UNCHANGED NewConns
      BY <2>4 DEF Spawn
    <3>2. \A s \in Slots : s >= 0
      BY DEF Slots
    <3>. QED  BY <3>1, <3>2
  <2>5. ASSUME NEW k \in Conns, Close_Thread(k) PROVE Found
    <3>1. /\ UNCHANGED <<i, mpc, ncptr>> /\ slot[k] \in Slots
          /\ NewConns' = [NewConns EXCEPT ![slot[k]] = 0]
      BY <2>5 DEF Close_Thread
    <3>2. \A s \in Slots : NewConns[s] = 0 => NewConns'[s] = 0
      BY <3>1
    <3>. QED  BY <3>1, <3>2
  <2>6. CASE UNCHANGED mainVars
    BY <2>6 DEF mainVars
  <2>7. ASSUME NEW k \in Conns,
               Read(k) \/ Fork(k) \/ Wait(k) \/ Close(k) \/ Child(k) \/ SessionEnd(k)
        PROVE  UNCHANGED mainVars
    BY <2>7 DEF Read, Fork, Wait, Close, Child, ForkDaemon, SetUp, Exec, SessionEnd
  <2>8. CASE UNCHANGED vars
    BY <2>6, <2>8 DEF vars
  <2> HIDE DEF Found
  <2>. QED
    BY <2>1, <2>2, <2>3, <2>4, <2>5, <2>6, <2>7, <2>8 DEF Next, Main, Client_Thread
<1>. QED  BY <1>1, TypeCorrect, PTL DEF Spec, FreeSlotFound
=============================================================================
