---------------------------- MODULE MultiServer -----------------------------
(***************************************************************************)
(* project3b/multi-tcpserver.c: main accepts connections and creates one   *)
(* detached thread for each.  It hands the thread the address of its own   *)
(* variable new_s, which the thread reads when it first runs: by then main *)
(* may have accepted another connection into it.                           *)
(*                                                                         *)
(* Threads name connections by file descriptor, and a descriptor that is   *)
(* closed is used again, so the table of open files is part of the state.  *)
(* A recv() holds on to the file it was called with: closing its           *)
(* descriptor does not wake it up.                                         *)
(*                                                                         *)
(* A thread that meets an error closes its new_socket and then calls       *)
(* exit(1).  The number may by then stand for the connection of another    *)
(* client, and until exit(1) the other threads go on with what is left.    *)
(***************************************************************************)
EXTENDS HandshakeNet

ASSUME MultiAssumption == IsFiniteSet(Clients)

VARIABLES
    paced,      \* are clients started by tcp.sh, with a pause after each?  Never changes
    mpc,        \* where main is
    freeFd,     \* the descriptor reserved by the accept() under way
    newS,       \* new_s
    nthreads,   \* thread_idx: the number of threads created
    fdTable,    \* fdTable[fd]: the connection open as fd
    tpc,        \* tpc[t]: where thread t is
    tfd,        \* tfd[t]: its new_socket
    tcon,       \* tcon[t]: the connection its recv() under way waits on
    ty          \* ty[t]: its yNum

mainVars == <<mpc, freeFd, newS, nthreads>>
threadVars == <<tpc, tfd, tcon, ty>>
serverVars == <<paced, mainVars, fdTable, threadVars>>
vars == <<netVars, serverVars>>

\* One thread per connection.  Descriptors 0 to 2 are the standard files and 3
\* the listener; accept() can always reserve one more than there are clients.
Threads == 1 .. Cardinality(Clients)
Fds == 4 .. 4 + Cardinality(Clients)

MainPCs == {"accept", "accepting", "create"}
ThreadPCs == {"unborn", "start", "recvX", "inX", "sendY", "recvZ", "inZ", "close", "done",
              "abort", "exit"}

TypeOK ==
    /\ NetTypeOK
    /\ paced \in BOOLEAN
    /\ mpc \in MainPCs
    /\ freeFd \in Fds \cup {0}
    /\ newS \in Fds \cup {0}
    /\ nthreads \in 0 .. Cardinality(Clients)
    /\ fdTable \in [Fds -> Clients \cup {NoClient}]
    /\ tpc \in [Threads -> ThreadPCs]
    /\ tfd \in [Threads -> Fds \cup {0}]
    /\ tcon \in [Threads -> Clients \cup {NoClient}]
    /\ ty \in [Threads -> CInt]

Init ==
    /\ NetInit
    /\ paced \in BOOLEAN
    /\ mpc = "accept"
    /\ freeFd = 0
    /\ newS = 0
    /\ nthreads = 0
    /\ fdTable = [fd \in Fds |-> NoClient]
    /\ tpc = [t \in Threads |-> "unborn"]
    /\ tfd = [t \in Threads |-> 0]
    /\ tcon = [t \in Threads |-> NoClient]
    /\ ty = [t \in Threads |-> 0]

ThreadGoto(t, l) == tpc' = [tpc EXCEPT ![t] = l]

LowestFree(fd) ==
    /\ fdTable[fd] = NoClient
    /\ \A lower \in Fds : lower < fd => fdTable[lower] # NoClient

\* The connections that descriptors or calls under way keep open.
Held(table, calls) ==
    ({table[fd] : fd \in Fds} \cup {calls[t] : t \in Threads}) \ {NoClient}

\* A connection is closed with the last reference to it.
NewReferences(table, calls) ==
    /\ fdTable' = table
    /\ tcon' = calls
    /\ srvClosed' = srvClosed \cup (Held(fdTable, tcon) \ Held(table, calls))

-----------------------------------------------------------------------------
(***************************************************************************)
(* main.  accept() reserves the lowest free descriptor when it is called,  *)
(* not when it returns.                                                    *)
(***************************************************************************)
CallAccept ==
    /\ mpc = "accept"
    /\ \E fd \in Fds : LowestFree(fd) /\ freeFd' = fd
    /\ mpc' = "accepting"
    /\ UNCHANGED <<netVars, newS, nthreads, fdTable, threadVars>>

Accept ==
    /\ mpc = "accepting"
    /\ backlog # << >>
    /\ backlog' = Tail(backlog)
    /\ fdTable' = [fdTable EXCEPT ![freeFd] = Head(backlog)]
    /\ newS' = freeFd
    /\ freeFd' = 0
    /\ mpc' = "create"
    /\ UNCHANGED <<clientVars, toServer, toClient, srvClosed, printed, up, nthreads, threadVars>>

CreateThread ==
    /\ mpc = "create"
    /\ nthreads' = nthreads + 1
    /\ ThreadGoto(nthreads + 1, "start")
    /\ mpc' = "accept"
    /\ UNCHANGED <<netVars, freeFd, newS, fdTable, tfd, tcon, ty>>

Main == up /\ (CallAccept \/ Accept \/ CreateThread) /\ UNCHANGED paced

-----------------------------------------------------------------------------
(***************************************************************************)
(* three_shake_hands.                                                      *)
(***************************************************************************)
Start(t) ==
    /\ tpc[t] = "start"
    /\ tfd' = [tfd EXCEPT ![t] = newS]
    /\ ThreadGoto(t, "recvX")
    /\ UNCHANGED <<netVars, mainVars, fdTable, tcon, ty>>

\* Mutant of CallRecv: a closed descriptor ends the thread, not the server.
CallRecvForgiving(t) ==
    /\ tpc[t] \in {"recvX", "recvZ"}
    /\ IF fdTable[tfd[t]] = NoClient
       THEN ThreadGoto(t, "done") /\ UNCHANGED tcon
       ELSE /\ tcon' = [tcon EXCEPT ![t] = fdTable[tfd[t]]]
            /\ ThreadGoto(t, IF tpc[t] = "recvX" THEN "inX" ELSE "inZ")
    /\ UNCHANGED <<netVars, mainVars, fdTable, tfd, ty>>

\* recv() looks its descriptor up; a closed one makes it fail.
CallRecv(t) ==
    /\ tpc[t] \in {"recvX", "recvZ"}
    /\ IF fdTable[tfd[t]] = NoClient
       THEN ThreadGoto(t, "abort") /\ UNCHANGED tcon
       ELSE /\ tcon' = [tcon EXCEPT ![t] = fdTable[tfd[t]]]
            /\ ThreadGoto(t, IF tpc[t] = "recvX" THEN "inX" ELSE "inZ")
    /\ UNCHANGED <<netVars, mainVars, fdTable, tfd, ty>>

\* Mutant of HungUp: the thread calls recv() again.
HungUpRetries(t) ==
    /\ tpc[t] \in {"inX", "inZ"}
    /\ Ended(tcon[t]) /\ toServer[tcon[t]] = << >>
    /\ UNCHANGED vars

\* recv() failed or met the end of file; sscanf of the zeroed buffer is EOF.
HungUp(t) ==
    /\ tpc[t] \in {"inX", "inZ"}
    /\ Readable(tcon[t])
    /\ toServer[tcon[t]] = << >>
    /\ NewReferences(fdTable, [tcon EXCEPT ![t] = NoClient])
    /\ ThreadGoto(t, "abort")
    /\ UNCHANGED <<clientVars, toServer, toClient, backlog, printed, up, mainVars, tfd, ty>>

RecvX(t) ==
    LET c == tcon[t] IN
    /\ tpc[t] = "inX"
    /\ toServer[c] # << >>
    /\ Drain(c)
    /\ Fputs(c, Received(c))
    /\ ty' = [ty EXCEPT ![t] = Wrap(Received(c) + 1)]
    /\ NewReferences(fdTable, [tcon EXCEPT ![t] = NoClient])
    /\ ThreadGoto(t, "sendY")
    /\ UNCHANGED <<clientVars, toClient, backlog, up, mainVars, tfd>>

\* The result of send() is not looked at.
SendY(t) ==
    /\ tpc[t] = "sendY"
    /\ IF fdTable[tfd[t]] = NoClient
       THEN UNCHANGED toClient
       ELSE ServerSend(fdTable[tfd[t]], ty[t])
    /\ ThreadGoto(t, "recvZ")
    /\ UNCHANGED <<clientVars, toServer, backlog, srvClosed, printed, up,
                   mainVars, fdTable, tfd, tcon, ty>>

\* Mutant of RecvZ: the thread prints its own Y instead of Z.
RecvZPrintsY(t) ==
    LET c == tcon[t] IN
    /\ tpc[t] = "inZ"
    /\ toServer[c] # << >>
    /\ Drain(c)
    /\ NewReferences(fdTable, [tcon EXCEPT ![t] = NoClient])
    /\ Fputs(c, ty[t])
    /\ ThreadGoto(t, "close")
    /\ UNCHANGED <<clientVars, toClient, backlog, up, mainVars, tfd, ty>>

RecvZ(t) ==
    LET c == tcon[t] IN
    /\ tpc[t] = "inZ"
    /\ toServer[c] # << >>
    /\ Drain(c)
    /\ NewReferences(fdTable, [tcon EXCEPT ![t] = NoClient])
    /\ IF Received(c) = Wrap(ty[t] + 1)
       THEN Fputs(c, Received(c)) /\ ThreadGoto(t, "close")
       ELSE ThreadGoto(t, "abort") /\ UNCHANGED printed
    /\ UNCHANGED <<clientVars, toClient, backlog, up, mainVars, tfd, ty>>

\* close(new_socket), after the conversation or after an error: it closes the
\* connection that the number stands for now, if there is one.
CloseFd(t) ==
    /\ tpc[t] \in {"close", "abort"}
    /\ NewReferences([fdTable EXCEPT ![tfd[t]] = NoClient], tcon)
    /\ ThreadGoto(t, IF tpc[t] = "close" THEN "done" ELSE "exit")
    /\ UNCHANGED <<clientVars, toServer, toClient, backlog, printed, up,
                   mainVars, tfd, ty>>

\* exit(1)
ExitAll(t) ==
    /\ tpc[t] = "exit"
    /\ Exit
    /\ UNCHANGED <<clientVars, toServer, toClient, backlog, srvClosed, printed,
                   mainVars, fdTable, threadVars>>

Thread(t) ==
    /\ up
    /\ \/ Start(t) \/ CallRecv(t) \/ HungUp(t) \/ RecvX(t) \/ SendY(t) \/ RecvZ(t)
       \/ CloseFd(t) \/ ExitAll(t)
    /\ UNCHANGED paced

-----------------------------------------------------------------------------
\* Mutant of Settled: clients started without a pause.
SettledAtOnce == TRUE

\* The pause of tcp.sh between two clients: long enough for main to take the
\* connection of the first and for its thread to read new_s, not for the
\* handshake to end.
Settled ==
    /\ backlog = << >>
    /\ mpc = "accepting"
    /\ \A t \in Threads : tpc[t] # "start"

Client(c) ==
    /\ (paced /\ up /\ cpc[c] = "connect") => Settled
    /\ Connect(c) \/ ClientStep(c)
    /\ UNCHANGED serverVars

ThreadsFinished == \A t \in Threads : tpc[t] \in {"unborn", "done"}

Idle ==
    /\ \A c \in Clients : Ended(c)
    /\ up => ThreadsFinished /\ backlog = << >> /\ mpc = "accepting"
    /\ UNCHANGED vars

Next ==
    \/ Main
    \/ \E t \in Threads : Thread(t)
    \/ \E c \in Clients : Client(c) \/ (Kill(c) /\ UNCHANGED serverVars)
    \/ Idle

Fairness ==
    /\ WF_vars(Main)
    /\ \A t \in Threads : WF_vars(Thread(t))
    /\ \A c \in Clients : WF_vars(Client(c))

Spec == Init /\ [][Next]_vars
FairSpec == Spec /\ Fairness

-----------------------------------------------------------------------------
(***************************************************************************)
(* Properties.                                                             *)
(***************************************************************************)
Serving(t) == tpc[t] \notin {"unborn", "start", "done", "exit"}

\* With paced clients every thread has a connection to itself: no two threads
\* hold the same descriptor, and the descriptor a thread holds stays open on
\* the connection whose messages the thread handles until the thread closes it.
OneThreadPerConnection ==
    (up /\ paced) => \A t \in Threads : Serving(t) =>
            /\ fdTable[tfd[t]] # NoClient
            /\ tcon[t] \in {NoClient, fdTable[tfd[t]]}
            /\ \A u \in Threads : Serving(u) /\ tfd[u] = tfd[t] => u = t

\* No connection is lost silently, paced or not: when the server is alive and
\* all its threads have finished, every connection it took from the backlog
\* has had both its messages printed and been closed.
QuietMeansServed ==
    (up /\ mpc # "create" /\ ThreadsFinished)
        => \A c \in Clients : (cpc[c] \notin {"connect", "failed"} /\ ~InBacklog(c))
                => Len(printed[c]) = 2 /\ c \in srvClosed

\* Two threads that read the same new_s cannot both finish: sooner or later
\* one of them meets a closed descriptor or an end of file, and exit(1) ends
\* the whole server.
SharedDescriptorStopsServer ==
    (\E t, u \in Threads : t # u /\ Serving(t) /\ Serving(u) /\ tfd[t] = tfd[u]) ~> ~up

\* Paced, a thread that closes its descriptor on an error closes a connection that
\* is its own.  Not paced, it may be another's: what happens between that and
\* exit(1) is in nobody's hands.
InOrder == paced \/ \A t \in Threads : tpc[t] # "exit"

ThreadedService == INSTANCE HandshakeService
                       WITH outcome <- [c \in Clients |-> Outcome(c)],
                            up <- up /\ InOrder, unsteady <- ~paced

\* Paced, the server keeps the promise of HandshakeService until it has exited.
\* Not paced, it keeps it until a thread closes its descriptor on an error: till
\* then nobody is given a wrong answer, fails without being killed, or ends well
\* with its X unprinted, though threads share descriptors and take one another's
\* messages.  After that, until exit(1), other connections can break.
ThreadedServiceSpec == ThreadedService!Spec

=============================================================================
