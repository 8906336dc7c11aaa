---------------------------- MODULE SlangServer ----------------------------
(***************************************************************************)
(* slangio_server: the process that accepts connections.  Its main thread  *)
(* looks for a free slot of NewConns, stores there what accept() returns   *)
(* and starts a detached thread on the address of the slot.  The thread    *)
(* copies the descriptor, forks pid0, which forks pid1 and exits; pid1     *)
(* becomes the client's daemon.  The thread then closes the server's copy  *)
(* of the socket and zeroes the slot, without any lock.                    *)
(*                                                                         *)
(* Attempts (calls of accept) are numbered; number k also names the        *)
(* connection that call returned, the thread and the daemon it leads to.   *)
(* Descriptor 0 stands for the server's standard streams and listening     *)
(* socket; it is also the number that marks a slot as free.                *)
(***************************************************************************)
EXTENDS Integers

CONSTANTS
  MAXCONNS,       \* slots of NewConns
  MaxFd,          \* bound: descriptors 0..MaxFd
  Attempts,       \* bound: calls of accept()
  InitialTables,  \* what the uninitialised NewConns may hold
  AcceptMayFail, ThreadMayFail, ForkMayFail, DaemonMayFail

Slots == 0..(MAXCONNS - 1)
Fds   == 0..MaxFd
Conns == 1..Attempts
Free  == 0      \* fds: an unused descriptor (connections are 1, 2, ...)
Std   == -1     \* fds: not a connection

ASSUME BoundsAssumption ==
  MAXCONNS \in Nat \ {0} /\ MaxFd \in Nat \ {0} /\ Attempts \in Nat
ASSUME TablesAssumption == InitialTables \subseteq [Slots -> Int]
ASSUME FailuresAssumption ==
  {AcceptMayFail, ThreadMayFail, ForkMayFail, DaemonMayFail} \subseteq BOOLEAN

VARIABLES
  NewConns, ncptr, i, mpc,   \* main: the table, its chosen slot, scan index, pc
  attempt,                   \* calls of accept() that returned
  returned,                  \* history: what each call returned
  overflowed,                \* history: a scan found no free slot
  fds,                       \* the server process's descriptors
  wpc, slot, sock,           \* Client_Thread k: pc, its arg, its local sockfd
  pid0,                      \* the intermediate process of k
  daemon, kept, held         \* pid1 of k, the file at its sockfd, all its sockets

mainVars   == <<NewConns, ncptr, i, mpc, attempt, returned, overflowed>>
threadVars == <<wpc, slot, sock>>
childVars  == <<pid0, daemon, kept, held>>
vars == <<mainVars, fds, threadVars, childVars>>

TypeOK ==
  /\ NewConns \in [Slots -> Int] /\ ncptr \in Slots
  /\ i \in 0..MAXCONNS /\ mpc \in {"scan", "accept", "spawn"}
  /\ attempt \in 0..Attempts /\ (mpc = "spawn" => attempt > 0)
  /\ returned \in [Conns -> -1..MaxFd]
  /\ overflowed \in BOOLEAN
  /\ fds \in [Fds -> -1..Attempts]
  /\ wpc \in [Conns -> {"none", "read", "fork", "wait", "waitany", "close", "zero", "done"}]
  /\ slot \in [Conns -> Slots] /\ sock \in [Conns -> Int]
  /\ pid0 \in [Conns -> {"none", "running", "zombie", "reaped"}]
  /\ daemon \in [Conns -> {"none", "born", "alone", "main", "gone"}]
  /\ kept \in [Conns -> -1..Attempts]
  /\ held \in [Conns -> SUBSET Conns]

Init ==
  /\ NewConns \in InitialTables /\ ncptr = 0 /\ i = 0 /\ mpc = "scan"
  /\ attempt = 0 /\ returned = [k \in Conns |-> 0] /\ overflowed = FALSE
  /\ fds = [f \in Fds |-> IF f = 0 THEN Std ELSE Free]
  /\ wpc = [k \in Conns |-> "none"] /\ slot = [k \in Conns |-> 0]
  /\ sock = [k \in Conns |-> 0]
  /\ pid0 = [k \in Conns |-> "none"] /\ daemon = [k \in Conns |-> "none"]
  /\ kept = [k \in Conns |-> Free] /\ held = [k \in Conns |-> {}]
-----------------------------------------------------------------------------
(* main: one slot of the scan per step, as threads zero slots meanwhile.   *)

ScanSlot ==
  /\ mpc = "scan" /\ i < MAXCONNS
  /\ IF NewConns[i] = 0 THEN ncptr' = i /\ mpc' = "accept" /\ UNCHANGED i
                        ELSE i' = i + 1 /\ UNCHANGED <<ncptr, mpc>>
  /\ UNCHANGED <<NewConns, attempt, returned, overflowed, fds, threadVars, childVars>>

\* Mutant of ScanFull: ncptr follows the loop counter past the last slot.
ScanFullPastEnd ==
  /\ mpc = "scan" /\ i = MAXCONNS
  /\ mpc' = "accept" /\ overflowed' = TRUE /\ ncptr' = i
  /\ UNCHANGED <<NewConns, i, attempt, returned, fds, threadVars, childVars>>

\* No slot is free: ncptr keeps the slot of the last connection.
ScanFull ==
  /\ mpc = "scan" /\ i = MAXCONNS
  /\ mpc' = "accept" /\ overflowed' = TRUE
  /\ UNCHANGED <<NewConns, ncptr, i, attempt, returned, fds, threadVars, childVars>>

FreeFds == {f \in Fds : fds[f] = Free}

\* accept() returns the lowest free descriptor, or -1, which is stored too.
Accept ==
  /\ mpc = "accept" /\ attempt < Attempts
  /\ mpc' = "spawn" /\ attempt' = attempt + 1
  /\ \/ \E f \in FreeFds :
          /\ \A g \in FreeFds : f <= g
          /\ NewConns' = [NewConns EXCEPT ![ncptr] = f]
          /\ returned' = [returned EXCEPT ![attempt + 1] = f]
          /\ fds' = [fds EXCEPT ![f] = attempt + 1]
     \/ /\ AcceptMayFail \/ FreeFds = {}
        /\ NewConns' = [NewConns EXCEPT ![ncptr] = -1]
        /\ returned' = [returned EXCEPT ![attempt + 1] = -1]
        /\ UNCHANGED fds
  /\ UNCHANGED <<ncptr, i, overflowed, threadVars, childVars>>

\* Mutant of Spawn: the next scan goes on where the last one stopped.
SpawnScansOn ==
  /\ mpc = "spawn" /\ mpc' = "scan"
  /\ \/ /\ wpc' = [wpc EXCEPT ![attempt] = "read"]
        /\ slot' = [slot EXCEPT ![attempt] = ncptr]
     \/ ThreadMayFail /\ UNCHANGED <<wpc, slot>>
  /\ UNCHANGED <<NewConns, ncptr, i, attempt, returned, overflowed, fds, sock, childVars>>

\* A failed pthread_create is only logged: the slot and the socket stay.
Spawn ==
  /\ mpc = "spawn" /\ mpc' = "scan" /\ i' = 0
  /\ \/ /\ wpc' = [wpc EXCEPT ![attempt] = "read"]
        /\ slot' = [slot EXCEPT ![attempt] = ncptr]
     \/ ThreadMayFail /\ UNCHANGED <<wpc, slot>>
  /\ UNCHANGED <<NewConns, ncptr, attempt, returned, overflowed, fds, sock, childVars>>
-----------------------------------------------------------------------------
(* Client_Thread: session_init, then Close_Thread.                         *)

\* Mutant of Read: the slot is given back as soon as it was read.
ReadFreesSlot(k) ==
  /\ wpc[k] = "read" /\ wpc' = [wpc EXCEPT ![k] = "fork"]
  /\ sock' = [sock EXCEPT ![k] = NewConns[slot[k]]]
  /\ NewConns' = [NewConns EXCEPT ![slot[k]] = 0]
  /\ UNCHANGED <<ncptr, i, mpc, attempt, returned, overflowed, fds, slot, childVars>>

Read(k) ==
  /\ wpc[k] = "read"
  /\ sock' = [sock EXCEPT ![k] = NewConns[slot[k]]]
  /\ wpc' = [wpc EXCEPT ![k] = "fork"]
  /\ UNCHANGED <<mainVars, fds, slot, childVars>>

\* The child has a copy of every descriptor.  A failed fork is not tested for:
\* waitpid(-1) then waits for any child.
Fork(k) ==
  /\ wpc[k] = "fork"
  /\ \/ /\ wpc' = [wpc EXCEPT ![k] = "wait"]
        /\ pid0' = [pid0 EXCEPT ![k] = "running"]
        /\ held' = [held EXCEPT ![k] = {c \in Conns : \E f \in Fds : fds[f] = c}]
        /\ kept' = [kept EXCEPT ![k] = IF sock[k] \in Fds THEN fds[sock[k]] ELSE Free]
     \/ /\ ForkMayFail /\ wpc' = [wpc EXCEPT ![k] = "waitany"]
        /\ UNCHANGED <<pid0, held, kept>>
  /\ UNCHANGED <<mainVars, fds, slot, sock, daemon>>

\* Mutant of Wait: waitpid's ECHILD, after another thread reaped pid0, is retried.
WaitRetries(k) ==
  /\ \/ /\ wpc[k] = "wait" /\ pid0[k] = "zombie"
        /\ pid0' = [pid0 EXCEPT ![k] = "reaped"]
     \/ /\ wpc[k] = "waitany"
        /\ \/ \E j \in Conns : pid0[j] = "zombie" /\ pid0' = [pid0 EXCEPT ![j] = "reaped"]
           \/ (\A j \in Conns : pid0[j] \in {"none", "reaped"}) /\ UNCHANGED pid0
  /\ wpc' = [wpc EXCEPT ![k] = "close"]
  /\ UNCHANGED <<mainVars, fds, slot, sock, daemon, kept, held>>

Wait(k) ==
  /\ \/ /\ wpc[k] = "wait" /\ pid0[k] \in {"zombie", "reaped"}
        /\ pid0' = [pid0 EXCEPT ![k] = "reaped"]
     \/ /\ wpc[k] = "waitany"
        /\ \/ \E j \in Conns : pid0[j] = "zombie" /\ pid0' = [pid0 EXCEPT ![j] = "reaped"]
           \/ (\A j \in Conns : pid0[j] \in {"none", "reaped"}) /\ UNCHANGED pid0
  /\ wpc' = [wpc EXCEPT ![k] = "close"]
  /\ UNCHANGED <<mainVars, fds, slot, sock, daemon, kept, held>>

\* Mutant of Close: the socket is left to the daemon.
CloseForgets(k) ==
  /\ wpc[k] = "close" /\ wpc' = [wpc EXCEPT ![k] = "zero"]
  /\ UNCHANGED <<mainVars, fds, slot, sock, childVars>>

Close(k) ==
  /\ wpc[k] = "close" /\ wpc' = [wpc EXCEPT ![k] = "zero"]
  /\ fds' = [f \in Fds |-> IF f = sock[k] THEN Free ELSE fds[f]]
  /\ UNCHANGED <<mainVars, slot, sock, childVars>>

\* Mutant of Close_Thread: memset() clears the pointer, not what it points to.
CloseThreadKeeps(k) ==
  /\ wpc[k] = "zero" /\ wpc' = [wpc EXCEPT ![k] = "done"]
  /\ UNCHANGED <<mainVars, fds, slot, sock, childVars>>

Close_Thread(k) ==
  /\ wpc[k] = "zero" /\ wpc' = [wpc EXCEPT ![k] = "done"]
  /\ NewConns' = [NewConns EXCEPT ![slot[k]] = 0]
  /\ UNCHANGED <<ncptr, i, mpc, attempt, returned, overflowed, fds, slot, sock, childVars>>
-----------------------------------------------------------------------------
(* The child processes.                                                    *)

\* pid0 forks the daemon, if it can, and exits either way.
ForkDaemon(k) ==
  /\ pid0[k] = "running" /\ pid0' = [pid0 EXCEPT ![k] = "zombie"]
  /\ \/ daemon' = [daemon EXCEPT ![k] = "born"] /\ UNCHANGED held
     \/ ForkMayFail /\ UNCHANGED daemon /\ held' = [held EXCEPT ![k] = {}]
  /\ UNCHANGED <<mainVars, fds, threadVars, kept>>

\* Mutant of SetUp: the daemon keeps every descriptor it was forked with.
SetUpInherits(k) ==
  /\ daemon[k] = "born"
  /\ \/ daemon' = [daemon EXCEPT ![k] = "alone"] /\ UNCHANGED held
     \/ /\ DaemonMayFail /\ daemon' = [daemon EXCEPT ![k] = "gone"]
        /\ held' = [held EXCEPT ![k] = {}]
  /\ UNCHANGED <<mainVars, fds, threadVars, pid0, kept>>

\* setsid, chdir, umask, then close everything but sockfd.
SetUp(k) ==
  /\ daemon[k] = "born"
  /\ \/ /\ daemon' = [daemon EXCEPT ![k] = "alone"]
        /\ held' = [held EXCEPT ![k] = {kept[k]} \cap Conns]
     \/ /\ DaemonMayFail /\ daemon' = [daemon EXCEPT ![k] = "gone"]
        /\ held' = [held EXCEPT ![k] = {}]
  /\ UNCHANGED <<mainVars, fds, threadVars, pid0, kept>>

\* execvp(slangio_main); the copy of this thread ends if it fails.
Exec(k) ==
  /\ daemon[k] = "alone"
  /\ \/ daemon' = [daemon EXCEPT ![k] = "main"] /\ UNCHANGED held
     \/ /\ DaemonMayFail /\ daemon' = [daemon EXCEPT ![k] = "gone"]
        /\ held' = [held EXCEPT ![k] = {}]
  /\ UNCHANGED <<mainVars, fds, threadVars, pid0, kept>>

SessionEnd(k) ==
  /\ daemon[k] = "main" /\ daemon' = [daemon EXCEPT ![k] = "gone"]
  /\ held' = [held EXCEPT ![k] = {}]
  /\ UNCHANGED <<mainVars, fds, threadVars, pid0, kept>>
-----------------------------------------------------------------------------
Main == ScanSlot \/ ScanFull \/ Accept \/ Spawn
Client_Thread(k) == Read(k) \/ Fork(k) \/ Wait(k) \/ Close(k) \/ Close_Thread(k)
Child(k) == ForkDaemon(k) \/ SetUp(k) \/ Exec(k)

Next == Main \/ \E k \in Conns : Client_Thread(k) \/ Child(k) \/ SessionEnd(k)

Spec == Init /\ [][Next]_vars

\* Threads and processes are scheduled; no one has to connect or to hang up.
FairSpec ==
  /\ Spec
  /\ WF_vars(ScanSlot \/ ScanFull \/ Spawn)
  /\ \A k \in Conns : WF_vars(Client_Thread(k)) /\ WF_vars(Child(k))
-----------------------------------------------------------------------------
Live == {"read", "fork", "wait", "waitany", "close", "zero"}

\* While every scan has found a free slot, no two threads have been given the
\* address of the same slot, and none reads another's descriptor through it.
SlotExclusive ==
  ~overflowed =>
    \A k \in Conns : wpc[k] \in Live =>
      /\ NewConns[slot[k]] = returned[k]
      /\ \A j \in Conns : wpc[j] \in Live /\ slot[j] = slot[k] => j = k

\* A daemon past its close loop has the socket of its own client and no other
\* client's, though it was forked with a copy of every open connection.
OwnClientOnly ==
  ~overflowed =>
    \A k \in Conns : daemon[k] \in {"alone", "main"} =>
      held[k] = IF returned[k] = -1 THEN {} ELSE {k}

\* The server closes the socket it accepted and nothing else: a connection
\* stays open in the server until its own thread closes it, the descriptor of
\* the closed one may be any other connection's then, and descriptor 0, the
\* free mark of a slot, is never a connection's.
SocketsKept ==
  ~overflowed =>
    /\ fds[0] = Std
    /\ \A k \in Conns, f \in Fds \ {0} :
         fds[f] = k <=> returned[k] = f /\ wpc[k] \notin {"zero", "done"}

\* No slot is lost to a thread that has ended: it is free again, or a later
\* connection is in it whose own thread has not ended, or never began.
SlotReturned ==
  ~overflowed =>
    \A k \in Conns : wpc[k] = "done" /\ NewConns[slot[k]] # 0 =>
      \E j \in Conns :
        /\ k < j /\ j <= attempt /\ returned[j] = NewConns[slot[k]]
        /\ \/ wpc[j] \in Live /\ slot[j] = slot[k]
           \/ wpc[j] = "none" /\ (mpc = "spawn" /\ j = attempt => ncptr = slot[k])

\* A slot that is free when a scan begins, or becomes free ahead of it, is not
\* missed, whatever the threads do meanwhile: the scan ends at a free slot.
FreeAhead == \E s \in Slots : s >= i /\ NewConns[s] = 0
FreeSlotFound ==
  [][/\ mpc = "scan" /\ FreeAhead =>
          FreeAhead' /\ (mpc' = "scan" \/ (mpc' = "accept" /\ NewConns'[ncptr'] = 0))
     /\ mpc = "spawn" /\ mpc' = "scan" /\ (\E s \in Slots : NewConns[s] = 0) =>
          FreeAhead']_vars

\* The inductive strengthening of the first three: what main and the threads rely on
\* between finding a slot and zeroing it.
Bookkeeping ==
  /\ \A k \in Conns : k > attempt => returned[k] = 0 /\ wpc[k] = "none"
  /\ mpc = "spawn" => wpc[attempt] = "none"
  /\ \A k \in Conns : wpc[k] \in {"none", "read", "fork"} =>
                       pid0[k] = "none" /\ daemon[k] = "none"
  /\ \A k \in Conns : pid0[k] = "running" => daemon[k] = "none"
  /\ ~overflowed =>
       /\ \A k \in Conns : k <= attempt => returned[k] # 0
       /\ mpc = "accept" => NewConns[ncptr] = 0
       /\ mpc = "spawn" => /\ NewConns[ncptr] = returned[attempt]
                           /\ \A k \in Conns : wpc[k] \in Live => slot[k] # ncptr
       /\ \A k \in Conns : wpc[k] \in {"fork", "wait", "waitany", "close"} =>
                            sock[k] = returned[k]
       /\ \A k \in Conns : pid0[k] = "running" \/ daemon[k] = "born" =>
                            kept[k] = IF returned[k] = -1 THEN Free ELSE k

IndInv == TypeOK /\ Bookkeeping /\ SlotExclusive /\ SocketsKept /\ OwnClientOnly

\* Every connection handed to a thread is released by the server again, until
\* a scan finds no free slot.
Released ==
  \A k \in Conns : wpc[k] = "read" ~> overflowed \/ ~\E f \in Fds : fds[f] = k

\* A daemon serves the client whose connection it was spawned for.
InServitude ==
  \A k \in Conns : daemon[k] = "main" /\ returned[k] # -1 => kept[k] = k
=============================================================================
