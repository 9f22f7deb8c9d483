-------------------------- MODULE MultiServerProofs --------------------------
(***************************************************************************)
(* Theorems about MultiServer for any number of clients, any inputs, any   *)
(* accept queue, clients that are killed at any time, and threads that     *)
(* read new_s too late.                                                    *)
(***************************************************************************)
EXTENDS MultiServer, HandshakeNetProofs, FiniteSetTheorems

(***************************************************************************)
(* The inductive invariant.  A thread that has received its X is engaged   *)
(* in the conversation of the connection its descriptor stands for.        *)
(* Threads that share a descriptor compete for the messages of its client, *)
(* so a conversation can have two threads: one that answered X, and one    *)
(* that took Z for an X.  From then on neither will meet anything but the  *)
(* end of file, and the connection stays open until that makes one of them *)
(* close it.  Then, unpaced, all bets are off, and only Basics is left.    *)
(***************************************************************************)
Engaged(t) == tpc[t] \in {"sendY", "recvZ", "inZ", "close"}

Partner(t, c) == Engaged(t) /\ fdTable[tfd[t]] = c

NoPartner(c) == \A t \in Threads : ~Partner(t, c)

Lone(t, c) == \A u \in Threads : Partner(u, c) <=> u = t

InTable(c) == \E fd \in Fds : fdTable[fd] = c

\* The connection's descriptor has been closed by a thread that was done with it; a
\* recv() may still hold on to it.
Removed(c) == Len(printed[c]) = 2 /\ ~InTable(c)

\* Nothing more will come from c.
Hopeless(c) == cpc[c] = "failed" /\ toServer[c] = << >>

\* The threads, if any, that wait for more than both messages of c.
Rivals(c) == \A t \in Threads : Partner(t, c) =>
    /\ tpc[t] \in {"sendY", "recvZ", "inZ"}
    /\ tpc[t] = "sendY" =>
         /\ toClient[c] = << >>
         /\ \A u \in Threads : Partner(u, c) /\ tpc[u] = "sendY" => u = t

\* Who is engaged in a conversation that has come to stage k.
Staffed(c, k) ==
    /\ k = "unread" => NoPartner(c)
    /\ k = "asked" => \E t \in Threads : Lone(t, c) /\ tpc[t] = "sendY" /\ ty[t] = Y(c)
    /\ k = "answered" =>
         \/ \E t \in Threads : Lone(t, c) /\ tpc[t] \in {"recvZ", "inZ"} /\ ty[t] = Y(c)
         \/ NoPartner(c) /\ Hopeless(c)
    /\ k = "finished" => Rivals(c) \/ \E t \in Threads : Lone(t, c) /\ tpc[t] = "close"

Conversing == \A c \in Clients : \E k : Stage(c, k) /\ Staffed(c, k)

\* What a thread holds, whatever has been closed.
Sane(t) ==
    /\ tpc[t] = "unborn" <=> t > nthreads
    /\ tpc[t] \notin {"unborn", "start"} => tfd[t] \in Fds
    /\ tcon[t] # NoClient <=> tpc[t] \in {"inX", "inZ"}

\* A descriptor is only closed by the thread whose conversation is finished; a recv()
\* for X may outlive that.
ThreadHolds(t) ==
    /\ Sane(t)
    /\ Engaged(t) => fdTable[tfd[t]] # NoClient
    /\ tpc[t] = "inZ" => tcon[t] = fdTable[tfd[t]]
    /\ tpc[t] = "inX" => tcon[t] = fdTable[tfd[t]] \/ Removed(tcon[t])

ThreadsHold == \A t \in Threads : ThreadHolds(t)

MainHolds ==
    /\ mpc = "accepting" => freeFd \in Fds /\ fdTable[freeFd] = NoClient
    /\ (mpc = "create" \/ nthreads > 0) => newS \in Fds

\* Connections that wait to be accepted, each in one place of the queue.
Queued ==
    /\ \A k \in 1 .. Len(backlog) : cpc[backlog[k]] # "connect"
    /\ \A j, k \in 1 .. Len(backlog) : backlog[j] = backlog[k] => j = k

\* Whoever is not accepted yet will find a thread.
Unaccepted == {c \in Clients : cpc[c] = "connect" \/ InBacklog(c)}
Room == Cardinality(Unaccepted) + nthreads + (IF mpc = "create" THEN 1 ELSE 0)
            <= Cardinality(Clients)

Basics == (\A t \in Threads : Sane(t)) /\ MainHolds /\ Queued /\ Room

\* No connection is in two places, and none is lost.
Placed ==
    /\ \A k \in 1 .. Len(backlog) : Unread(backlog[k]) /\ ~InTable(backlog[k])
    /\ \A fd, other \in Fds : fdTable[fd] = fdTable[other] /\ fdTable[fd] # NoClient => fd = other
    /\ \A c \in Clients : InTable(c) => cpc[c] # "connect"
    /\ \A c \in Clients : cpc[c] \notin {"connect", "failed"} => InBacklog(c) \/ InTable(c) \/ Removed(c)

\* A connection is closed when its descriptor is and no recv() waits on it; before its
\* conversation is finished, only when its client has failed.
Closed == \A c \in Clients :
    /\ c \in srvClosed =>
         /\ ~InTable(c) /\ ~InBacklog(c) /\ cpc[c] # "connect"
         /\ \A t \in Threads : tcon[t] # c
         /\ Removed(c) \/ cpc[c] = "failed"
    /\ Removed(c) /\ (\A t \in Threads : tcon[t] # c) => c \in srvClosed

\* As long as no thread has met an error there is one thread for each connection
\* accepted, and one finished for each descriptor closed.
Accepted == {c \in Clients : InTable(c) \/ Removed(c)}
RemovedOnes == {c \in Clients : Removed(c)}
DoneThreads == {t \in Threads : tpc[t] = "done"}

Counted == (\A t \in Threads : tpc[t] # "exit") =>
    /\ Cardinality(Accepted) = nthreads + (IF mpc = "create" THEN 1 ELSE 0)
    /\ Cardinality(RemovedOnes) = Cardinality(DoneThreads)

\* new_s stays as it is, and open, until the thread it is meant for has read it.
HandedOver ==
    /\ fdTable[newS] # NoClient
    /\ \A t \in Threads : Serving(t) => tfd[t] # newS

Paced ==
    /\ backlog # << >> => Len(backlog) = 1 /\ mpc = "accepting" /\ \A t \in Threads : tpc[t] # "start"
    /\ mpc = "create" => HandedOver /\ \A t \in Threads : tpc[t] # "start"
    /\ \A t \in Threads : tpc[t] = "start" =>
         HandedOver /\ \A u \in Threads : tpc[u] = "start" => u = t
    /\ \A t \in Threads : Serving(t) =>
         /\ fdTable[tfd[t]] # NoClient
         /\ tcon[t] \in {NoClient, fdTable[tfd[t]]}
         /\ \A u \in Threads : Serving(u) /\ tfd[u] = tfd[t] => u = t

\* How a paced thread leaves: it is done with its client, or its client was killed.
Leaving ==
    /\ \A c \in Clients : InTable(c) /\ Len(printed[c]) = 2 =>
         \E t \in Threads : Partner(t, c) /\ tpc[t] = "close"
    /\ \A t \in Threads : tpc[t] = "abort" =>
         \E c \in Clients : fdTable[tfd[t]] = c /\ cpc[c] = "failed"
    /\ \A t \in Threads : tpc[t] = "exit" => \E c \in Clients : cpc[c] = "failed"

ServerInv == ThreadsHold /\ Placed /\ Closed /\ Counted /\ Conversing
PacedInv == Paced /\ Leaving

Inv ==
    /\ TypeOK /\ Basics
    /\ up /\ InOrder => ServerInv
    /\ up /\ paced => PacedInv
    /\ ~up => IF paced THEN \A c \in Clients : Leftover(c)
                       ELSE \E t \in Threads : tpc[t] = "exit"

-----------------------------------------------------------------------------
(* The constants, and what a step leaves alone. *)

LEMMA ThreadsAreFinite ==
    /\ IsFiniteSet(Clients) /\ Cardinality(Clients) \in Nat
    /\ IsFiniteSet(Threads) /\ Threads \subseteq Nat \ {0}
    /\ Fds \subseteq Nat \ {0} /\ NoClient \notin Clients
<1>1. IsFiniteSet(Clients) /\ Cardinality(Clients) \in Nat
  BY MultiAssumption, FS_CardinalityType
<1>2. IsFiniteSet(Threads)
  BY <1>1, FS_Interval DEF Threads
<1> QED
  BY <1>1, <1>2, NetAssumption DEF Threads, Fds

\* Only connections are closed.
LEMMA ClosingTypes ==
    ASSUME TypeOK, NEW table, NEW calls, NewReferences(table, calls)
    PROVE  srvClosed' \subseteq Clients
BY DEF TypeOK, NetTypeOK, NewReferences, Held

\* A conversation has at least a stage, and a server that exits leaves it there.
LEMMA StagesLeave ==
    ASSUME TypeOK, Conversing
    PROVE  \A c \in Clients : Leftover(c)
BY StageLeaves DEF TypeOK, Conversing

\* In its stage, a conversation tells who is engaged in it, and the other way round.
LEMMA PartnerStage ==
    ASSUME Conversing, NEW t \in Threads, NEW c \in Clients, Partner(t, c)
    PROVE  /\ tpc[t] = "sendY" => \/ Asked(c) /\ Lone(t, c) /\ ty[t] = Y(c)
                                  \/ Finished(c) /\ toClient[c] = << >>
           /\ tpc[t] \in {"recvZ", "inZ"} =>
                (Answered(c) /\ Lone(t, c) /\ ty[t] = Y(c)) \/ Finished(c)
           /\ tpc[t] = "close" => Finished(c) /\ Lone(t, c)
<1>1. PICK k : Stage(c, k) /\ Staffed(c, k)
  BY DEF Conversing
<1>2. CASE k = "unread"
  BY <1>1, <1>2 DEF Staffed, NoPartner
<1>3. CASE k = "asked"
  BY <1>1, <1>3 DEF Staffed, Lone, Stage
<1>4. CASE k = "answered"
  BY <1>1, <1>4 DEF Staffed, NoPartner, Lone, Stage
<1>5. CASE k = "finished"
  BY <1>1, <1>5 DEF Staffed, Rivals, Lone, Stage
<1> QED
  BY <1>1, <1>2, <1>3, <1>4, <1>5 DEF Stage

\* Nothing is printed twice before a conversation is finished.
LEMMA PrintedTwice ==
    ASSUME NEW c, NEW k, Stage(c, k)
    PROVE  Len(printed[c]) = 2 <=> k = "finished"
<1>1. Len(<< >>) # 2 /\ Len(<<xNum[c]>>) # 2 /\ Len(<<xNum[c], Z(c)>>) = 2
  OBVIOUS
<1>2. k = "unread" => printed[c] = << >>
  BY DEF Stage, Unread
<1>3. k = "asked" \/ k = "answered" => printed[c] = <<xNum[c]>>
  BY DEF Stage, Asked, Answered
<1>4. k = "finished" => printed[c] = <<xNum[c], Z(c)>>
  BY DEF Stage, Finished
<1>5. k \in {"unread", "asked", "answered", "finished"}
  BY DEF Stage
<1>6. CASE k = "unread"
  BY <1>1, <1>2, <1>6
<1>7. CASE k = "asked" \/ k = "answered"
  BY <1>1, <1>3, <1>7
<1>8. CASE k = "finished"
  BY <1>1, <1>4, <1>8
<1> QED
  BY <1>5, <1>6, <1>7, <1>8

-----------------------------------------------------------------------------
LEMMA InitInv == Init => Inv
<1> SUFFICES ASSUME Init PROVE Inv
  OBVIOUS
<1> USE DEF Init, NetInit
<1>1. TypeOK
  <2>1. Inputs \subseteq CInt /\ 0 \in CInt
    BY NetAssumption, IntsAreIntegers DEF CInt
  <2>2. << >> \in Seq(CInt) /\ << >> \in Seq(Clients)
    OBVIOUS
  <2> QED
    BY <2>1, <2>2, ThreadsAreFinite DEF TypeOK, NetTypeOK, MainPCs, ThreadPCs, ClientPCs
<1>2. /\ \A t \in Threads : ~Engaged(t) /\ ~Serving(t) /\ tpc[t] = "unborn" /\ t > nthreads
      /\ \A c \in Clients : ~InTable(c) /\ ~Removed(c) /\ Unread(c)
  <2>1. \A c \in Clients : printed[c] = << >> /\ ~InTable(c)
    BY ThreadsAreFinite DEF InTable
  <2>2. \A c \in Clients : ~Removed(c)
    BY <2>1 DEF Removed
  <2> QED
    BY <2>1, <2>2, AllUnread, ThreadsAreFinite DEF Engaged, Serving
<1>3. Conversing
  <2>1. \A c \in Clients : Stage(c, "unread") /\ Staffed(c, "unread")
    BY <1>2 DEF Stage, Staffed, NoPartner, Partner
  <2> QED
    BY <2>1 DEF Conversing
<1>4. Counted
  <2>1. Accepted = {} /\ RemovedOnes = {} /\ DoneThreads = {}
    BY <1>2 DEF Accepted, RemovedOnes, DoneThreads
  <2> QED
    BY <2>1, FS_EmptySet DEF Counted
<1>5. Basics
  <2>1. \A t \in Threads : Sane(t)
    BY <1>2 DEF Sane
  <2>2. Room
    <3>1. Unaccepted = Clients
      BY DEF Unaccepted
    <3> QED
      BY <3>1, ThreadsAreFinite DEF Room
  <2> QED
    BY <2>1, <2>2 DEF Basics, MainHolds, Queued
<1>6. ThreadsHold /\ Placed /\ Closed
  BY <1>2, <1>5, ThreadsAreFinite DEF Basics, ThreadsHold, ThreadHolds, Placed, Closed, Engaged
<1>7. Paced /\ Leaving
  BY <1>2 DEF Paced, Leaving
<1> QED
  BY <1>1, <1>3, <1>4, <1>5, <1>6, <1>7 DEF Inv, ServerInv, PacedInv

-----------------------------------------------------------------------------

\* What a thread's place says of its descriptor and of its recv() under way.
LEMMA ThreadFacts ==
    ASSUME TypeOK, Basics, NEW t \in Threads
    PROVE  /\ tpc[t] \in {"inX", "inZ"} => tcon[t] \in Clients
           /\ tpc[t] \notin {"inX", "inZ"} => tcon[t] = NoClient
           /\ tpc[t] \notin {"unborn", "start"} => tfd[t] \in Fds
<1>1. /\ tpc[t] \notin {"unborn", "start"} => tfd[t] \in Fds
      /\ tcon[t] # NoClient <=> tpc[t] \in {"inX", "inZ"}
  BY DEF Basics, Sane
<1>2. tcon[t] \in Clients \cup {NoClient}
  BY DEF TypeOK
<1> QED
  BY <1>1, <1>2

\* The descriptor of a thread in a conversation is open.
LEMMA EngagedFacts ==
    ASSUME TypeOK, Basics, ThreadsHold, NEW t \in Threads, Engaged(t)
    PROVE  fdTable[tfd[t]] \in Clients /\ tfd[t] \in Fds
<1>1. tfd[t] \in Fds /\ fdTable[tfd[t]] # NoClient
  BY ThreadFacts DEF ThreadsHold, ThreadHolds, Engaged
<1> QED
  BY <1>1 DEF TypeOK

\* There is a thread for every connection that main may accept.
LEMMA RoomForThread ==
    ASSUME TypeOK, Basics, mpc = "create"
    PROVE  nthreads + 1 \in 1 .. Cardinality(Clients) /\ nthreads \in Nat
<1>1. Unaccepted \subseteq Clients
  BY DEF Unaccepted
<1>2. Cardinality(Unaccepted) \in Nat
  BY <1>1, ThreadsAreFinite, FS_Subset, FS_CardinalityType
<1>3. Cardinality(Unaccepted) + nthreads + 1 <= Cardinality(Clients)
  BY DEF Basics, Room
<1> QED
  BY <1>2, <1>3, ThreadsAreFinite DEF TypeOK

LEMMA TypeStep == ASSUME Inv, Next PROVE TypeOK'
<1> USE DEF TypeOK, MainPCs, ThreadPCs, ThreadGoto
<1>0. TypeOK /\ Basics
  BY DEF Inv
<1>1. ASSUME NEW c \in Clients, Client(c) \/ (Kill(c) /\ UNCHANGED serverVars) PROVE TypeOK'
  BY <1>0, <1>1, ClientTypes DEF Client, serverVars, mainVars, threadVars
<1>2. CASE Main
  <2>1. CASE CallAccept
    BY <1>0, <1>2, <2>1 DEF Main, CallAccept, netVars, NetTypeOK, threadVars
  <2>2. CASE Accept
    <3>1. Head(backlog) \in Clients /\ Tail(backlog) \in Seq(Clients)
      BY <1>0, <2>2, HeadIsElement DEF Accept, NetTypeOK
    <3> QED
      BY <1>0, <1>2, <2>2, <3>1 DEF Main, Accept, NetTypeOK, clientVars, threadVars
  <2>3. CASE CreateThread
    <3>1. nthreads' \in 0 .. Cardinality(Clients)
      BY <1>0, <1>2, <2>3, RoomForThread, ThreadsAreFinite DEF Main, CreateThread
    <3> QED
      BY <1>0, <1>2, <2>3, <3>1 DEF Main, CreateThread, netVars, NetTypeOK
  <2> QED
    BY <1>2, <2>1, <2>2, <2>3 DEF Main
<1>3. ASSUME NEW t \in Threads, Thread(t) PROVE TypeOK'
  <2>0. TypeOK /\ Basics /\ up /\ paced' = paced
    BY <1>0, <1>3 DEF Thread
  <2>1. CASE Start(t)
    BY <2>0, <2>1 DEF Start, netVars, mainVars, NetTypeOK
  <2>2. CASE CallRecv(t)
    <3>1. fdTable[tfd[t]] # NoClient => fdTable[tfd[t]] \in Clients
      BY <2>0, <2>2, ThreadFacts DEF CallRecv
    <3> QED
      BY <2>0, <2>2, <3>1 DEF CallRecv, netVars, mainVars, NetTypeOK
  <2>3. CASE HungUp(t)
    <3>1. srvClosed' \subseteq Clients /\ fdTable' = fdTable /\ tcon' = [tcon EXCEPT ![t] = NoClient]
      BY <2>0, <2>3, ClosingTypes DEF HungUp, NewReferences
    <3> QED
      BY <2>0, <2>3, <3>1 DEF HungUp, clientVars, mainVars, NetTypeOK
  <2>4. CASE RecvX(t)
    <3>1. tcon[t] \in Clients /\ toServer[tcon[t]] # << >>
      BY <2>0, <2>4, ThreadFacts DEF RecvX
    <3>2. Received(tcon[t]) \in CInt /\ toServer' \in [Clients -> Seq(CInt)]
      BY <2>0, <2>4, <3>1, ReceivedTypes DEF RecvX
    <3>3. printed' \in [Clients -> Seq(CInt)] /\ Wrap(Received(tcon[t]) + 1) \in CInt
      BY <2>0, <2>4, <3>1, <3>2, OutputTypes, AnswerIsInt DEF RecvX
    <3>4. srvClosed' \subseteq Clients /\ fdTable' = fdTable /\ tcon' = [tcon EXCEPT ![t] = NoClient]
      BY <2>0, <2>4, ClosingTypes DEF RecvX, NewReferences
    <3> QED
      BY <2>0, <2>4, <3>2, <3>3, <3>4 DEF RecvX, clientVars, mainVars, NetTypeOK
  <2>5. CASE SendY(t)
    <3>1. tfd[t] \in Fds /\ ty[t] \in CInt
      BY <2>0, <2>5, ThreadFacts DEF SendY
    <3>2. toClient' \in [Clients -> Seq(CInt)]
      <4>1. CASE fdTable[tfd[t]] = NoClient
        BY <2>0, <2>5, <4>1 DEF SendY, NetTypeOK
      <4>2. CASE fdTable[tfd[t]] # NoClient
        <5>1. fdTable[tfd[t]] \in Clients
          BY <2>0, <3>1, <4>2
        <5> QED
          BY <2>0, <2>5, <3>1, <4>2, <5>1, OutputTypes DEF SendY, NetTypeOK
      <4> QED
        BY <4>1, <4>2
    <3> QED
      BY <2>0, <2>5, <3>2 DEF SendY, clientVars, mainVars, NetTypeOK
  <2>6. CASE RecvZ(t)
    <3>1. tcon[t] \in Clients /\ toServer[tcon[t]] # << >>
      BY <2>0, <2>6, ThreadFacts DEF RecvZ
    <3>2. Received(tcon[t]) \in CInt /\ toServer' \in [Clients -> Seq(CInt)]
      BY <2>0, <2>6, <3>1, ReceivedTypes DEF RecvZ
    <3>3. printed' \in [Clients -> Seq(CInt)]
      BY <2>0, <2>6, <3>1, <3>2, OutputTypes DEF RecvZ, NetTypeOK
    <3>4. srvClosed' \subseteq Clients /\ fdTable' = fdTable /\ tcon' = [tcon EXCEPT ![t] = NoClient]
      BY <2>0, <2>6, ClosingTypes DEF RecvZ, NewReferences
    <3> QED
      BY <2>0, <2>6, <3>2, <3>3, <3>4 DEF RecvZ, clientVars, mainVars, NetTypeOK
  <2>7. CASE CloseFd(t)
    <3>1. srvClosed' \subseteq Clients /\ tcon' = tcon /\ fdTable' = [fdTable EXCEPT ![tfd[t]] = NoClient]
      BY <2>0, <2>7, ClosingTypes DEF CloseFd, NewReferences
    <3> QED
      BY <2>0, <2>7, <3>1 DEF CloseFd, clientVars, mainVars, NetTypeOK
  <2>8. CASE ExitAll(t)
    BY <2>0, <2>8 DEF ExitAll, Exit, clientVars, mainVars, threadVars, NetTypeOK
  <2> QED
    BY <1>3, <2>1, <2>2, <2>3, <2>4, <2>5, <2>6, <2>7, <2>8 DEF Thread
<1>4. CASE Idle
  BY <1>0, <1>4 DEF Idle, vars, netVars, serverVars, mainVars, threadVars, NetTypeOK
<1> QED
  BY <1>1, <1>2, <1>3, <1>4 DEF Next

-----------------------------------------------------------------------------

(* What holds of the threads and of main also after a descriptor was closed that was *)
(* another's.                                                                        *)

LEMMA ClientBasics ==
    ASSUME TypeOK, Basics, NEW d \in Clients, Client(d) \/ (Kill(d) /\ UNCHANGED serverVars)
    PROVE  Basics'
<1>0. Connect(d) \/ ClientStep(d) \/ Kill(d)
  BY DEF Client
<1>1. UNCHANGED serverVars
  BY DEF Client
<1>2. \A c \in Clients : cpc[c] # "connect" => cpc'[c] # "connect"
  BY <1>0 DEF Connect, ClientStep, SendX, RecvY, SendZ, Close, Kill, ClientSend, Goto, TypeOK, NetTypeOK
<1>3. backlog \in Seq(Clients) /\ \A k \in 1 .. Len(backlog) : backlog[k] \in Clients
  <2>1. backlog \in Seq(Clients)
    BY DEF TypeOK, NetTypeOK
  <2> QED
    BY <2>1
<1>4. \/ backlog' = backlog
      \/ backlog' = Append(backlog, d) /\ cpc[d] = "connect" /\ cpc'[d] = "sendX"
  BY <1>0 DEF Connect, ClientStep, SendX, RecvY, SendZ, Close, Kill, ClientSend, Goto, TypeOK, NetTypeOK
<1>5. Queued' /\ \A c \in Clients : InBacklog(c)' => InBacklog(c) \/ (c = d /\ cpc[d] = "connect")
  <2>1. CASE backlog' = backlog
    BY <1>2, <1>3, <2>1 DEF Basics, Queued, InBacklog
  <2>2. CASE backlog' = Append(backlog, d) /\ cpc[d] = "connect" /\ cpc'[d] = "sendX"
    <3>1. /\ Len(backlog') = Len(backlog) + 1 /\ Len(backlog) \in Nat
          /\ \A k \in 1 .. Len(backlog) : backlog'[k] = backlog[k]
          /\ backlog'[Len(backlog) + 1] = d
      BY <1>3, <2>2
    <3>2. \A k \in 1 .. Len(backlog') : k \in 1 .. Len(backlog) \/ k = Len(backlog) + 1
      BY <3>1
    <3>3. \A k \in 1 .. Len(backlog) : backlog[k] # d /\ cpc'[backlog[k]] # "connect"
      BY <1>2, <1>3, <2>2 DEF Basics, Queued
    <3>4. \A k \in 1 .. Len(backlog') : cpc'[backlog'[k]] # "connect"
      BY <2>2, <3>1, <3>2, <3>3
    <3>5. \A j, k \in 1 .. Len(backlog') : backlog'[j] = backlog'[k] => j = k
      BY <3>1, <3>2, <3>3 DEF Basics, Queued
    <3>6. \A c \in Clients : InBacklog(c)' => InBacklog(c) \/ c = d
      BY <3>1, <3>2 DEF InBacklog
    <3> QED
      BY <2>2, <3>4, <3>5, <3>6 DEF Queued
  <2> QED
    BY <1>4, <2>1, <2>2
<1>6. Room'
  <2>1. Unaccepted' \subseteq Unaccepted /\ Unaccepted \subseteq Clients
    BY <1>2, <1>5 DEF Unaccepted
  <2>2. /\ Cardinality(Unaccepted') <= Cardinality(Unaccepted)
        /\ Cardinality(Unaccepted) \in Nat /\ Cardinality(Unaccepted') \in Nat
    BY <2>1, ThreadsAreFinite, FS_Subset, FS_CardinalityType
  <2> QED
    BY <1>1, <2>2, ThreadsAreFinite DEF Basics, Room, serverVars, mainVars, TypeOK
<1>7. (\A t \in Threads : Sane(t)') /\ MainHolds'
  BY <1>1 DEF Basics, Sane, MainHolds, serverVars, mainVars, threadVars
<1> QED
  BY <1>5, <1>6, <1>7 DEF Basics

LEMMA MainBasics == ASSUME TypeOK, Basics, Main PROVE Basics'
<1> USE DEF Basics
<1>0. nthreads \in Nat /\ Cardinality(Clients) \in Nat
  BY ThreadsAreFinite DEF TypeOK
<1>1. CASE CallAccept
  <2>1. UNCHANGED <<cpc, backlog, newS, nthreads, fdTable, tpc, tfd, tcon>>
    BY <1>1 DEF CallAccept, netVars, threadVars
  <2>2. mpc = "accept" /\ mpc' = "accepting" /\ freeFd' \in Fds /\ fdTable[freeFd'] = NoClient
    BY <1>1 DEF CallAccept, LowestFree
  <2>3. Unaccepted' = Unaccepted
    BY <2>1 DEF Unaccepted, InBacklog
  <2> QED
    BY <2>1, <2>2, <2>3 DEF Sane, MainHolds, Queued, Room
<1>2. CASE Accept
  <2>0. /\ UNCHANGED <<cpc, nthreads, tpc, tfd, tcon>> /\ mpc = "accepting" /\ mpc' = "create"
        /\ newS' = freeFd /\ freeFd \in Fds /\ backlog' = Tail(backlog) /\ backlog # << >>
        /\ backlog \in Seq(Clients)
    BY <1>2 DEF Accept, clientVars, threadVars, MainHolds, TypeOK, NetTypeOK
  <2>1. /\ Len(backlog') = Len(backlog) - 1 /\ Len(backlog) \in Nat \ {0}
        /\ \A k \in 1 .. Len(backlog') : backlog'[k] = backlog[k + 1] /\ k + 1 \in 1 .. Len(backlog) /\ k + 1 # 1
        /\ 1 \in 1 .. Len(backlog) /\ backlog[1] \in Clients
    BY <2>0
  <2>2. Queued'
    <3>1. \A k \in 1 .. Len(backlog') : cpc'[backlog'[k]] # "connect"
      BY <2>0, <2>1 DEF Queued
    <3>2. \A j, k \in 1 .. Len(backlog') : backlog'[j] = backlog'[k] => j = k
      BY <2>1 DEF Queued
    <3> QED
      BY <3>1, <3>2 DEF Queued
  <2>3. Unaccepted' \subseteq Unaccepted \ {backlog[1]} /\ backlog[1] \in Unaccepted
    <3>1. cpc[backlog[1]] # "connect" /\ InBacklog(backlog[1])
      BY <2>1 DEF Queued, InBacklog
    <3>2. \A c : InBacklog(c)' => InBacklog(c) /\ c # backlog[1]
      BY <2>1 DEF Queued, InBacklog
    <3> QED
      BY <2>0, <2>1, <3>1, <3>2 DEF Unaccepted
  <2>4. Cardinality(Unaccepted') <= Cardinality(Unaccepted) - 1 /\ Cardinality(Unaccepted') \in Nat
        /\ Cardinality(Unaccepted) \in Nat
    <3>1. IsFiniteSet(Unaccepted) /\ Cardinality(Unaccepted) \in Nat
      BY ThreadsAreFinite, FS_Subset, FS_CardinalityType DEF Unaccepted
    <3>2. /\ IsFiniteSet(Unaccepted \ {backlog[1]})
          /\ Cardinality(Unaccepted \ {backlog[1]}) = Cardinality(Unaccepted) - 1
      BY <2>3, <3>1, FS_RemoveElement
    <3>3. Cardinality(Unaccepted') <= Cardinality(Unaccepted \ {backlog[1]}) /\ IsFiniteSet(Unaccepted')
      BY <2>3, <3>2, FS_Subset
    <3> QED
      BY <3>1, <3>2, <3>3, FS_CardinalityType
  <2> QED
    BY <1>0, <2>0, <2>2, <2>4 DEF Sane, MainHolds, Room
<1>3. CASE CreateThread
  <2>0. /\ UNCHANGED <<cpc, backlog, freeFd, newS, fdTable, tfd, tcon>> /\ nthreads' = nthreads + 1
        /\ mpc = "create" /\ mpc' = "accept" /\ tpc' = [tpc EXCEPT ![nthreads + 1] = "start"]
    BY <1>3 DEF CreateThread, netVars, ThreadGoto
  <2>1. nthreads + 1 \in Threads
    BY <2>0, RoomForThread DEF Threads
  <2>2. ASSUME NEW t \in Threads PROVE Sane(t)'
    <3>1. t \in Nat /\ tpc'[t] = IF t = nthreads + 1 THEN "start" ELSE tpc[t]
      BY <2>0, <2>1, ThreadsAreFinite DEF TypeOK
    <3>2. tpc[t] = "unborn" <=> t > nthreads
      BY DEF Sane
    <3>3. tpc'[t] = "unborn" <=> t > nthreads'
      BY <1>0, <2>0, <3>1, <3>2
    <3> QED
      BY <1>0, <2>0, <3>1, <3>2, <3>3 DEF Sane
  <2>3. Unaccepted' = Unaccepted /\ Cardinality(Unaccepted) \in Nat
    <3>1. Unaccepted' = Unaccepted
      BY <2>0 DEF Unaccepted, InBacklog
    <3> QED
      BY <3>1, ThreadsAreFinite, FS_Subset, FS_CardinalityType DEF Unaccepted
  <2>4. Room'
    BY <1>0, <2>0, <2>3 DEF Room
  <2> QED
    BY <2>0, <2>2, <2>4 DEF MainHolds, Queued
<1> QED
  BY <1>1, <1>2, <1>3 DEF Main

LEMMA ThreadBasics == ASSUME TypeOK, Basics, NEW t \in Threads, Thread(t) PROVE Basics'
<1> USE DEF Basics
<1>1. UNCHANGED <<cpc, backlog, mpc, freeFd, newS, nthreads>>
  BY DEF Thread, Start, CallRecv, HungUp, RecvX, SendY, RecvZ, CloseFd, ExitAll, netVars, clientVars,
         mainVars, threadVars
<1>2. Queued' /\ Room'
  <2>1. Unaccepted' = Unaccepted
    BY <1>1 DEF Unaccepted, InBacklog
  <2> QED
    BY <1>1, <2>1 DEF Queued, Room
<1>3. MainHolds'
  <2>1. fdTable' = fdTable \/ fdTable' = [fdTable EXCEPT ![tfd[t]] = NoClient]
    BY DEF Thread, Start, CallRecv, HungUp, RecvX, SendY, RecvZ, CloseFd, ExitAll, NewReferences,
           threadVars
  <2>2. freeFd \in Fds /\ fdTable[freeFd] = NoClient => fdTable'[freeFd] = NoClient
    BY <2>1 DEF TypeOK
  <2> QED
    BY <1>1, <2>2 DEF MainHolds
<1>4. ASSUME NEW u \in Threads, u # t PROVE Sane(u)'
  <2>1. tpc'[u] = tpc[u] /\ tfd'[u] = tfd[u] /\ tcon'[u] = tcon[u]
    BY <1>4 DEF Thread, Start, CallRecv, HungUp, RecvX, SendY, RecvZ, CloseFd, ExitAll, NewReferences,
         ThreadGoto, netVars, threadVars, TypeOK
  <2> QED
    BY <1>1, <2>1 DEF Sane
<1>5. Sane(t)'
  <2>0. Sane(t) /\ t \in Nat /\ nthreads \in Nat /\ tcon[t] \in Clients \cup {NoClient}
    BY ThreadsAreFinite DEF TypeOK
  <2>1. CASE Start(t)
    <3>1. t <= nthreads /\ nthreads > 0
      BY <2>0, <2>1, ThreadsAreFinite DEF Start, Sane
    <3>2. newS \in Fds
      BY <3>1 DEF MainHolds
    <3>3. tpc[t] = "start" /\ tpc'[t] = "recvX" /\ tfd'[t] = newS /\ tcon' = tcon
      BY <2>1 DEF Start, ThreadGoto, TypeOK
    <3> QED
      BY <1>1, <2>0, <3>1, <3>2, <3>3 DEF Sane
  <2>2. CASE CallRecv(t)
    <3>1. tpc[t] \in {"recvX", "recvZ"} /\ tfd' = tfd
          /\ IF fdTable[tfd[t]] = NoClient
             THEN tpc'[t] = "abort" /\ tcon'[t] = tcon[t]
             ELSE tpc'[t] \in {"inX", "inZ"} /\ tcon'[t] = fdTable[tfd[t]]
      BY <2>2 DEF CallRecv, ThreadGoto, TypeOK
    <3> QED
      BY <1>1, <2>0, <3>1 DEF Sane
  <2>3. CASE HungUp(t) \/ RecvX(t) \/ RecvZ(t)
    <3>1. /\ tpc[t] \in {"inX", "inZ"} /\ tpc'[t] \in {"abort", "sendY", "close"} /\ tfd' = tfd
          /\ tcon'[t] = NoClient
      BY <2>3 DEF HungUp, RecvX, RecvZ, NewReferences, ThreadGoto, TypeOK
    <3> QED
      BY <1>1, <2>0, <3>1 DEF Sane
  <2>4. CASE SendY(t) \/ CloseFd(t)
    <3>1. /\ tpc[t] \in {"sendY", "close", "abort"} /\ tpc'[t] \in {"recvZ", "done", "exit"} /\ tfd' = tfd
          /\ tcon'[t] = tcon[t]
      BY <2>4 DEF SendY, CloseFd, NewReferences, ThreadGoto, TypeOK
    <3> QED
      BY <1>1, <2>0, <3>1 DEF Sane
  <2>5. CASE ExitAll(t)
    BY <1>1, <2>0, <2>5 DEF ExitAll, threadVars, Sane
  <2> QED
    BY <2>1, <2>2, <2>3, <2>4, <2>5 DEF Thread
<1> QED
  BY <1>2, <1>3, <1>4, <1>5

LEMMA BasicsStep == ASSUME Inv, Next PROVE Basics'
<1>0. TypeOK /\ Basics
  BY DEF Inv
<1>1. ASSUME Idle PROVE Basics'
  <2>1. UNCHANGED <<cpc, backlog, mpc, freeFd, newS, nthreads, fdTable, tpc, tfd, tcon>>
    BY <1>1 DEF Idle, vars, netVars, serverVars, mainVars, threadVars
  <2>2. Unaccepted' = Unaccepted
    BY <2>1 DEF Unaccepted, InBacklog
  <2> QED
    BY <1>0, <2>1, <2>2 DEF Basics, Sane, MainHolds, Queued, Room
<1> QED
  BY <1>0, <1>1, ClientBasics, MainBasics, ThreadBasics DEF Next

-----------------------------------------------------------------------------

(* Steps that leave a conversation where it is. *)

LEMMA StaffKept ==
    ASSUME NEW c, NEW k, Staffed(c, k), xNum' = xNum, Hopeless(c) => Hopeless(c)',
           \A u \in Threads : Partner(u, c)' <=> Partner(u, c),
           \A u \in Threads : Partner(u, c) =>
             ty'[u] = ty[u] /\ (tpc'[u] = tpc[u] \/ (tpc[u] = "recvZ" /\ tpc'[u] = "inZ")),
           toClient[c] = << >> => toClient'[c] = << >>
    PROVE  Staffed(c, k)'
<1>1. Y(c)' = Y(c)
  BY DEF Y, Wrap
<1>2. \A t \in Threads : Lone(t, c) <=> Lone(t, c)'
  BY DEF Lone
<1>3. \A t \in Threads : Lone(t, c) => ty'[t] = ty[t]
        /\ (tpc'[t] = tpc[t] \/ (tpc[t] = "recvZ" /\ tpc'[t] = "inZ"))
  BY DEF Lone
<1>4. NoPartner(c) => NoPartner(c)'
  BY DEF NoPartner
<1>5. CASE k = "unread"
  BY <1>4, <1>5 DEF Staffed
<1>6. CASE k = "asked"
  BY <1>1, <1>2, <1>3, <1>6 DEF Staffed
<1>7. CASE k = "answered"
  BY <1>1, <1>2, <1>3, <1>4, <1>7 DEF Staffed
<1>8. CASE k = "finished"
  <2>1. CASE Rivals(c)
    <3>1. \A u \in Threads : Partner(u, c)' =>
            Partner(u, c) /\ tpc'[u] \in {"sendY", "recvZ", "inZ"} /\ (tpc'[u] = "sendY" => tpc[u] = "sendY")
      BY <2>1 DEF Rivals
    <3>2. Rivals(c)'
      BY <2>1, <3>1 DEF Rivals
    <3> QED
      BY <1>8, <3>2 DEF Staffed
  <2>2. CASE \E t \in Threads : Lone(t, c) /\ tpc[t] = "close"
    BY <1>2, <1>3, <1>8, <2>2 DEF Staffed
  <2> QED
    BY <1>8, <2>1, <2>2 DEF Staffed
<1>9. k \notin {"unread", "asked", "answered", "finished"} => Staffed(c, k)'
  BY DEF Staffed
<1> QED
  BY <1>5, <1>6, <1>7, <1>8, <1>9

\* The conversation of a connection whose descriptor has been closed is finished.
LEMMA RemovedFinished ==
    ASSUME NEW c \in Clients, Removed(c), NEW k, Stage(c, k)
    PROVE  k = "finished"
BY PrintedTwice DEF Removed

\* No connection that waits to be accepted has been accepted.
LEMMA WaitingIsUnread ==
    ASSUME Placed, Conversing, NEW c \in Clients, cpc[c] = "connect" \/ InBacklog(c)
    PROVE  Unread(c) /\ ~InTable(c) /\ ~Removed(c)
<1>1. PICK k : Stage(c, k)
  BY DEF Conversing
<1>2. cpc[c] = "connect" => Unread(c)
  BY <1>1 DEF Stage, Asked, Answered, Finished
<1>3. InBacklog(c) => Unread(c) /\ ~InTable(c)
  BY DEF Placed, InBacklog
<1>4. Unread(c) => ~Removed(c)
  <2>1. Len(<< >>) # 2
    OBVIOUS
  <2> QED
    BY <2>1 DEF Removed, Unread
<1> QED
  BY <1>2, <1>3, <1>4 DEF Placed

\* A thread that is done with its client stays so till it closes, and clients stay killed.
LEMMA LeavingKept ==
    ASSUME Leaving,
           \A c \in Clients : InTable(c)' /\ Len(printed'[c]) = 2 =>
             \/ InTable(c) /\ Len(printed[c]) = 2
             \/ \E u \in Threads : Partner(u, c)' /\ tpc'[u] = "close",
           \A u \in Threads : \A c \in Clients : Partner(u, c) /\ tpc[u] = "close" /\ InTable(c)' =>
             Partner(u, c)' /\ tpc'[u] = "close",
           \A u \in Threads : tpc'[u] = "abort" =>
             \/ tpc[u] = "abort" /\ fdTable'[tfd'[u]] = fdTable[tfd[u]]
             \/ \E c \in Clients : fdTable'[tfd'[u]] = c /\ cpc'[c] = "failed",
           \A u \in Threads : tpc'[u] = "exit" =>
             tpc[u] = "exit" \/ \E c \in Clients : cpc'[c] = "failed",
           \A c \in Clients : cpc[c] = "failed" => cpc'[c] = "failed"
    PROVE  Leaving'
<1>1. \A c \in Clients : InTable(c)' /\ Len(printed'[c]) = 2 =>
        \E u \in Threads : Partner(u, c)' /\ tpc'[u] = "close"
  BY DEF Leaving
<1>2. \A u \in Threads : tpc'[u] = "abort" =>
        \E c \in Clients : fdTable'[tfd'[u]] = c /\ cpc'[c] = "failed"
  BY DEF Leaving
<1>3. \A u \in Threads : tpc'[u] = "exit" => \E c \in Clients : cpc'[c] = "failed"
  BY DEF Leaving
<1> QED
  BY <1>1, <1>2, <1>3 DEF Leaving

-----------------------------------------------------------------------------
(* The steps of the clients. *)

LEMMA ClientChanges ==
    ASSUME TypeOK, NEW d \in Clients, Client(d) \/ (Kill(d) /\ UNCHANGED serverVars)
    PROVE  /\ Connect(d) \/ ClientStep(d) \/ Kill(d)
           /\ UNCHANGED <<serverVars, xNum, srvClosed, printed, up>>
           /\ \A c : (InTable(c)' <=> InTable(c)) /\ (Removed(c)' <=> Removed(c))
           /\ \A c \in Clients : cpc[c] # "connect" => cpc'[c] # "connect"
           /\ \A c \in Clients : toClient[c] = << >> => toClient'[c] = << >>
           /\ \A c \in Clients : Hopeless(c) => Hopeless(c)'
           /\ cpc[d] # "failed" /\ \A c \in Clients : cpc[c] = "failed" => cpc'[c] = "failed"
<1>1. Connect(d) \/ ClientStep(d) \/ Kill(d)
  BY DEF Client
<1>2. UNCHANGED <<serverVars, xNum, srvClosed, printed, up>>
  BY <1>1, ClientIsAlone DEF Client, TypeOK
<1>3. \A c : (InTable(c)' <=> InTable(c)) /\ (Removed(c)' <=> Removed(c))
  BY <1>2 DEF InTable, Removed, serverVars
<1>4. \A c \in Clients : cpc[c] # "connect" => cpc'[c] # "connect"
  BY <1>1 DEF Connect, ClientStep, SendX, RecvY, SendZ, Close, Kill, ClientSend, Goto, TypeOK, NetTypeOK
<1>5. \A c \in Clients : toClient[c] = << >> => toClient'[c] = << >>
  BY <1>1 DEF Connect, ClientStep, SendX, RecvY, SendZ, Close, Kill, ClientSend, TypeOK, NetTypeOK
<1>6. cpc[d] # "failed"
  BY <1>1 DEF Connect, ClientStep, SendX, RecvY, SendZ, Close, Kill, Ended
<1>7. \A c \in Clients : cpc[c] = "failed" => cpc'[c] = "failed" /\ toServer'[c] = toServer[c]
  BY <1>1, <1>6, ClientIsAlone DEF TypeOK
<1> QED
  BY <1>1, <1>2, <1>3, <1>4, <1>5, <1>6, <1>7 DEF Hopeless

LEMMA ClientStage ==
    ASSUME TypeOK, up, Closed, NEW d \in Clients, Client(d) \/ (Kill(d) /\ UNCHANGED serverVars),
           NEW c \in Clients, NEW k, Stage(c, k)
    PROVE  Stage(c, k)'
<1>1. d \in srvClosed /\ c = d => k = "finished"
  BY ClientChanges, RemovedFinished DEF Closed
<1> QED
  BY <1>1, ClientChanges, ClientConverses, OthersStay DEF TypeOK

LEMMA ClientConversing ==
    ASSUME TypeOK, up, ServerInv, NEW d \in Clients, Client(d) \/ (Kill(d) /\ UNCHANGED serverVars)
    PROVE  Conversing'
<1> SUFFICES ASSUME NEW c \in Clients PROVE \E k : (Stage(c, k) /\ Staffed(c, k))'
  BY DEF Conversing
<1>1. PICK k : Stage(c, k) /\ Staffed(c, k)
  BY DEF ServerInv, Conversing
<1>2. Stage(c, k)'
  BY <1>1, ClientStage DEF ServerInv
<1>3. Staffed(c, k)'
  <2>1. \A u \in Threads : Partner(u, c)' <=> Partner(u, c)
    BY ClientChanges DEF Partner, Engaged, serverVars, threadVars
  <2> QED
    BY <1>1, <2>1, ClientChanges, StaffKept DEF serverVars, threadVars
<1> QED
  BY <1>2, <1>3

LEMMA ClientPlaced ==
    ASSUME TypeOK, up, Basics, ServerInv, NEW d \in Clients, Client(d) \/ (Kill(d) /\ UNCHANGED serverVars)
    PROVE  Placed'
<1> USE DEF ServerInv
<1>0. /\ backlog \in Seq(Clients) /\ \A k \in 1 .. Len(backlog) : backlog[k] \in Clients
      /\ UNCHANGED <<fdTable, printed, xNum>>
  <2>1. backlog \in Seq(Clients)
    BY DEF TypeOK, NetTypeOK
  <2>2. \A k \in 1 .. Len(backlog) : backlog[k] \in Clients
    BY <2>1
  <2> QED
    BY <2>1, <2>2, ClientChanges DEF serverVars
<1>1. \A c \in Clients : InTable(c) => cpc'[c] # "connect"
  BY ClientChanges DEF Placed
<1>2. \A c \in Clients : Unread(c) => Unread(c)'
  <2> SUFFICES ASSUME NEW c \in Clients, Unread(c) PROVE Unread(c)'
    OBVIOUS
  <2>1. Stage(c, "unread")
    BY DEF Stage
  <2>2. Stage(c, "unread")'
    BY <2>1, ClientStage
  <2> QED
    BY <2>2 DEF Stage
<1>3. CASE backlog' = backlog
  <2>1. \A c \in Clients : cpc'[c] \notin {"connect", "failed"} => cpc[c] \notin {"connect", "failed"}
    <3>1. Append(backlog, d) # backlog
      BY <1>0
    <3>2. ClientStep(d) \/ Kill(d) \/ cpc' = [cpc EXCEPT ![d] = "failed"]
      BY <1>3, <3>1, ClientChanges DEF Connect, Goto
    <3> QED
      BY <3>2 DEF ClientStep, SendX, RecvY, SendZ, Close, Kill, ClientSend, Goto, Ended, TypeOK, NetTypeOK
  <2>2. \A c : InBacklog(c)' <=> InBacklog(c)
    BY <1>3 DEF InBacklog
  <2>3. \A c \in Clients : cpc'[c] \notin {"connect", "failed"} =>
          (InBacklog(c) \/ InTable(c) \/ Removed(c))'
    BY <2>1, <2>2, ClientChanges DEF Placed
  <2>4. \A k \in 1 .. Len(backlog') : (Unread(backlog[k]) /\ ~InTable(backlog[k]))'
    <3> SUFFICES ASSUME NEW k \in 1 .. Len(backlog)
                 PROVE  (Unread(backlog[k]) /\ ~InTable(backlog[k]))'
      BY <1>3
    <3>1. PICK c \in Clients : c = backlog[k]
      BY <1>0
    <3>2. Unread(c)' /\ ~InTable(c)'
      BY <1>2, <3>1, ClientChanges DEF Placed
    <3>3. backlog'[k] = c
      BY <1>3, <3>1
    <3> QED
      BY <3>2, <3>3 DEF Unread, InTable
  <2> QED
    BY <1>0, <1>1, <1>3, <2>3, <2>4, ClientChanges DEF Placed
<1>4. CASE backlog' # backlog
  <2>1. Connect(d) /\ backlog' = Append(backlog, d) /\ cpc[d] = "connect"
        /\ cpc' = [cpc EXCEPT ![d] = "sendX"]
    BY <1>4, ClientChanges DEF Connect, ClientStep, SendX, RecvY, SendZ, Close, Kill, Goto
  <2>2. /\ Len(backlog') = Len(backlog) + 1 /\ Len(backlog) \in Nat
        /\ \A k \in 1 .. Len(backlog) : backlog'[k] = backlog[k]
        /\ backlog'[Len(backlog) + 1] = d
    BY <1>0, <2>1
  <2>3. \A k \in 1 .. Len(backlog') : k \in 1 .. Len(backlog) \/ k = Len(backlog) + 1
    BY <2>2
  <2>6. Unread(d) /\ ~InTable(d)
    BY <2>1, WaitingIsUnread
  <2>7. \A k \in 1 .. Len(backlog') : (Unread(backlog[k]) /\ ~InTable(backlog[k]))'
    <3> SUFFICES ASSUME NEW k \in 1 .. Len(backlog')
                 PROVE  (Unread(backlog[k]) /\ ~InTable(backlog[k]))'
      OBVIOUS
    <3>1. PICK c \in Clients : c = backlog'[k]
      BY <1>0, <2>2, <2>3
    <3>2. Unread(c) /\ ~InTable(c)
      BY <2>2, <2>3, <2>6, <3>1 DEF Placed
    <3>3. Unread(c)' /\ ~InTable(c)'
      BY <1>2, <3>2, ClientChanges
    <3> QED
      BY <3>1, <3>3 DEF Unread, InTable
  <2>8. \A c : InBacklog(c) \/ c = d => InBacklog(c)'
    BY <2>2 DEF InBacklog
  <2>9. \A c \in Clients : cpc'[c] \notin {"connect", "failed"} =>
          (InBacklog(c) \/ InTable(c) \/ Removed(c))'
    BY <2>1, <2>8, ClientChanges DEF Placed, TypeOK, NetTypeOK
  <2> QED
    BY <1>0, <1>1, <2>7, <2>9, ClientChanges DEF Placed
<1> QED
  BY <1>3, <1>4

LEMMA ClientClosed ==
    ASSUME TypeOK, up, ServerInv, NEW d \in Clients, Client(d) \/ (Kill(d) /\ UNCHANGED serverVars)
    PROVE  Closed'
<1>1. srvClosed' = srvClosed /\ tcon' = tcon
  BY ClientChanges DEF serverVars, threadVars
<1>2. \A c \in Clients : InBacklog(c)' => InBacklog(c) \/ cpc[c] = "connect"
  <2>1. backlog' = backlog \/ (backlog' = Append(backlog, d) /\ cpc[d] = "connect")
    BY ClientChanges DEF Connect, ClientStep, SendX, RecvY, SendZ, Close, Kill
  <2>2. CASE backlog' = Append(backlog, d) /\ cpc[d] = "connect"
    <3>1. backlog \in Seq(Clients)
      BY DEF TypeOK, NetTypeOK
    <3>2. /\ Len(backlog') = Len(backlog) + 1 /\ Len(backlog) \in Nat
          /\ \A k \in 1 .. Len(backlog) : backlog'[k] = backlog[k]
          /\ backlog'[Len(backlog) + 1] = d
      BY <2>2, <3>1
    <3>3. \A k \in 1 .. Len(backlog') : k \in 1 .. Len(backlog) \/ k = Len(backlog) + 1
      BY <3>2
    <3> QED
      BY <2>2, <3>2, <3>3 DEF InBacklog
  <2> QED
    BY <2>1, <2>2 DEF InBacklog
<1> QED
  BY <1>1, <1>2, ClientChanges DEF ServerInv, Closed

LEMMA ClientKeeps ==
    ASSUME Inv, up, InOrder, NEW d \in Clients, Client(d) \/ (Kill(d) /\ UNCHANGED serverVars)
    PROVE  ServerInv' /\ (paced' => PacedInv')
<1> USE DEF Inv
<1>0. UNCHANGED serverVars
  BY ClientChanges
<1>1. ThreadsHold'
  BY <1>0, ClientChanges DEF ServerInv, ThreadsHold, ThreadHolds, Sane, Engaged, serverVars, mainVars, threadVars
<1>2. Counted'
  <2>1. Accepted' = Accepted /\ RemovedOnes' = RemovedOnes /\ DoneThreads' = DoneThreads
    BY <1>0, ClientChanges DEF Accepted, RemovedOnes, DoneThreads, serverVars, threadVars
  <2> QED
    BY <1>0, <2>1 DEF ServerInv, Counted, serverVars, mainVars, threadVars
<1>3. paced => Paced'
  <2> SUFFICES ASSUME paced PROVE Paced'
    OBVIOUS
  <2>1. Paced
    BY DEF PacedInv
  <2>2. HandedOver' <=> HandedOver
    BY <1>0 DEF HandedOver, Serving, serverVars, mainVars, threadVars
  <2>3. backlog' # << >> => Len(backlog') = 1 /\ mpc = "accepting" /\ \A t \in Threads : tpc[t] # "start"
    <3>1. CASE backlog' = backlog
      BY <2>1, <3>1 DEF Paced
    <3>2. CASE backlog' # backlog
      <4>1. Connect(d) /\ backlog' = Append(backlog, d) /\ cpc[d] = "connect"
        BY <3>2, ClientChanges DEF Connect, ClientStep, SendX, RecvY, SendZ, Close, Kill
      <4>2. Settled
        BY <4>1 DEF Client, Kill, Connect, Goto, ClientStep, SendX, RecvY, SendZ, Close
      <4> QED
        BY <4>1, <4>2 DEF Settled
    <3> QED
      BY <3>1, <3>2
  <2> QED
    BY <1>0, <2>1, <2>2, <2>3 DEF Paced, Serving, serverVars, mainVars, threadVars
<1>4. paced => Leaving'
  <2>1. UNCHANGED <<fdTable, tpc, tfd, printed>>
    BY <1>0, ClientChanges DEF serverVars, threadVars
  <2>2. \A u, c : Partner(u, c)' <=> Partner(u, c)
    BY <2>1 DEF Partner, Engaged
  <2> QED
    BY <2>1, <2>2, ClientChanges, LeavingKept DEF PacedInv
<1> QED
  BY <1>0, <1>1, <1>2, <1>3, <1>4, ClientConversing, ClientPlaced, ClientClosed
     DEF ServerInv, PacedInv, serverVars

-----------------------------------------------------------------------------

(* The steps of main. *)

\* A conversation that a step of the server leaves alone.
LEMMA ConversationKept ==
    ASSUME Conversing, NEW c \in Clients, UNCHANGED clientVars, printed'[c] = printed[c],
           toServer'[c] = toServer[c], toClient'[c] = toClient[c],
           \A u \in Threads : Partner(u, c)' <=> Partner(u, c),
           \A u \in Threads : Partner(u, c) =>
             ty'[u] = ty[u] /\ (tpc'[u] = tpc[u] \/ (tpc[u] = "recvZ" /\ tpc'[u] = "inZ"))
    PROVE  \E k : (Stage(c, k) /\ Staffed(c, k))'
<1>1. PICK k : Stage(c, k) /\ Staffed(c, k)
  BY DEF Conversing
<1>2. Stage(c, k)'
  BY <1>1, LeftAlone
<1>3. Hopeless(c) => Hopeless(c)'
  BY DEF Hopeless, clientVars
<1>4. Staffed(c, k)'
  BY <1>1, <1>3, StaffKept DEF clientVars
<1> QED
  BY <1>2, <1>4

LEMMA CallAcceptKeeps ==
    ASSUME Inv, up, InOrder, CallAccept, UNCHANGED paced
    PROVE  ServerInv' /\ (paced' => PacedInv')
<1> USE DEF Inv, ServerInv, CallAccept, netVars, threadVars
<1>1. \A c : (InTable(c)' <=> InTable(c)) /\ (Removed(c)' <=> Removed(c)) /\ (Unread(c)' <=> Unread(c))
             /\ (InBacklog(c)' <=> InBacklog(c))
  BY DEF InTable, Removed, Unread, InBacklog
<1>2. \A u : (Engaged(u)' <=> Engaged(u)) /\ \A c : Partner(u, c)' <=> Partner(u, c)
  BY DEF Partner, Engaged
<1>3. ThreadsHold' /\ Closed'
  BY <1>1, <1>2 DEF ThreadsHold, ThreadHolds, Sane, Closed
<1>5. Placed'
  BY <1>1 DEF Placed, InTable, Unread
<1>6. Counted'
  <2>1. Accepted' = Accepted /\ RemovedOnes' = RemovedOnes /\ DoneThreads' = DoneThreads
    BY <1>1 DEF Accepted, RemovedOnes, DoneThreads
  <2> QED
    BY <2>1 DEF Counted
<1>7. Conversing'
  BY <1>1, <1>2, ConversationKept DEF Conversing, clientVars
<1>8. paced => Paced'
  BY DEF PacedInv, Paced, HandedOver, Serving
<1>9. paced => Leaving'
  BY <1>1, <1>2, LeavingKept DEF PacedInv
<1> QED
  BY <1>3, <1>5, <1>6, <1>7, <1>8, <1>9 DEF PacedInv

LEMMA CreateThreadKeeps ==
    ASSUME Inv, up, InOrder, CreateThread, UNCHANGED paced
    PROVE  ServerInv' /\ (paced' => PacedInv')
<1> USE DEF Inv, ServerInv, netVars
<1>0. /\ mpc = "create" /\ mpc' = "accept" /\ nthreads' = nthreads + 1
      /\ UNCHANGED <<netVars, freeFd, newS, fdTable, tfd, tcon, ty>>
      /\ tpc' = [tpc EXCEPT ![nthreads + 1] = "start"]
  BY DEF CreateThread, ThreadGoto
<1> DEFINE n == nthreads + 1
<1>1. n \in Threads /\ tpc[n] = "unborn" /\ nthreads \in Nat /\ tpc'[n] = "start"
      /\ \A t \in Threads : t # n => tpc'[t] = tpc[t]
  BY <1>0, RoomForThread DEF Threads, Basics, Sane, TypeOK
<1>2. \A c : (InTable(c)' <=> InTable(c)) /\ (Removed(c)' <=> Removed(c)) /\ (Unread(c)' <=> Unread(c))
             /\ (InBacklog(c)' <=> InBacklog(c))
  BY <1>0 DEF InTable, Removed, Unread, InBacklog
<1>3. \A u \in Threads : (Engaged(u)' <=> Engaged(u)) /\ \A c : Partner(u, c)' <=> Partner(u, c)
  BY <1>0, <1>1 DEF Partner, Engaged
<1>4. ThreadsHold'
  <2> SUFFICES ASSUME NEW t \in Threads PROVE ThreadHolds(t)'
    BY DEF ThreadsHold
  <2>1. t \in Nat
    BY ThreadsAreFinite
  <2>2. tpc'[t] = "unborn" <=> t > nthreads'
    BY <1>0, <1>1, <2>1 DEF ThreadsHold, ThreadHolds, Sane
  <2>3. tcon[t] # NoClient <=> tpc'[t] \in {"inX", "inZ"}
    BY <1>1 DEF ThreadsHold, ThreadHolds, Sane
  <2>4. Removed(tcon[t])' <=> Removed(tcon[t])
    BY <1>0 DEF Removed, InTable
  <2> QED
    BY <1>0, <1>1, <1>3, <2>2, <2>3, <2>4 DEF ThreadsHold, ThreadHolds, Sane
<1>6. Placed'
  BY <1>0, <1>2 DEF Placed, InTable, Unread
<1>7. Closed'
  BY <1>0, <1>2 DEF Closed
<1>8. Counted'
  <2>1. Accepted' = Accepted /\ RemovedOnes' = RemovedOnes /\ DoneThreads' = DoneThreads
    BY <1>1, <1>2 DEF Accepted, RemovedOnes, DoneThreads
  <2>2. (\A t \in Threads : tpc'[t] # "exit") => \A t \in Threads : tpc[t] # "exit"
    BY <1>1
  <2> QED
    BY <1>0, <1>1, <2>1, <2>2 DEF Counted
<1>9. Conversing'
  <2>1. \A u \in Threads : \A c : Partner(u, c) => u # n
    BY <1>1 DEF Partner, Engaged
  <2> QED
    BY <1>0, <1>1, <1>2, <1>3, <2>1, ConversationKept DEF Conversing, clientVars
<1>10. paced => Paced'
  <2> SUFFICES ASSUME paced PROVE Paced'
    OBVIOUS
  <2>1. backlog = << >> /\ HandedOver /\ \A t \in Threads : tpc[t] # "start"
    BY <1>0 DEF PacedInv, Paced
  <2>2. \A t \in Threads : Serving(t)' <=> Serving(t)
    BY <1>1 DEF Serving
  <2>3. HandedOver'
    BY <1>0, <2>1, <2>2 DEF HandedOver
  <2>4. \A t \in Threads : tpc'[t] = "start" => t = n
    BY <1>1, <2>1
  <2> QED
    BY <1>0, <2>1, <2>2, <2>3, <2>4 DEF PacedInv, Paced
<1>11. paced => Leaving'
  <2>1. \A u \in Threads : \A c : Partner(u, c) => u # n
    BY <1>1 DEF Partner, Engaged
  <2>2. \A u \in Threads : tpc'[u] \in {"abort", "exit"} => u # n
    BY <1>1
  <2> QED
    BY <1>0, <1>1, <1>2, <1>3, <2>1, <2>2, LeavingKept DEF PacedInv
<1> QED
  BY <1>0, <1>4, <1>6, <1>7, <1>8, <1>9, <1>10, <1>11 DEF PacedInv

LEMMA AcceptChanges ==
    ASSUME Inv, up, InOrder, Accept, NEW c, c = Head(backlog), NEW f, f = freeFd
    PROVE  /\ c \in Clients /\ c # NoClient /\ f \in Fds /\ fdTable[f] = NoClient
           /\ Unread(c) /\ InBacklog(c) /\ ~InTable(c) /\ ~Removed(c) /\ cpc[c] # "connect"
           /\ mpc = "accepting" /\ mpc' = "create" /\ newS' = f
           /\ fdTable'[f] = c /\ \A fd \in Fds : fd # f => fdTable'[fd] = fdTable[fd]
           /\ UNCHANGED <<clientVars, toServer, toClient, srvClosed, printed, up, nthreads, threadVars>>
           /\ \A d \in Clients : InTable(d)' <=> InTable(d) \/ d = c
           /\ \A d \in Clients : Removed(d)' <=> Removed(d)
           /\ \A t \in Threads : Engaged(t) => tfd[t] # f
<1> USE DEF Inv, ServerInv, Accept
<1>1. c \in Clients /\ c = backlog[1] /\ 1 \in 1 .. Len(backlog)
  <2>1. backlog \in Seq(Clients) /\ backlog # << >>
    BY DEF TypeOK, NetTypeOK
  <2> QED
    BY <2>1
<1>2. f \in Fds /\ fdTable[f] = NoClient /\ c # NoClient
  BY <1>1, NetAssumption DEF Basics, MainHolds
<1>3. cpc[c] # "connect" /\ Unread(c) /\ InBacklog(c) /\ ~InTable(c)
  BY <1>1 DEF Basics, Queued, Placed, InBacklog
<1>4. ~Removed(c) /\ Len(printed[c]) # 2
  <2>1. Len(<< >>) # 2
    OBVIOUS
  <2> QED
    BY <1>3, <2>1 DEF Unread, Removed
<1>5. fdTable' = [fdTable EXCEPT ![f] = c] /\ fdTable \in [Fds -> Clients \cup {NoClient}]
  BY DEF TypeOK
<1>6. fdTable'[f] = c /\ \A fd \in Fds : fd # f => fdTable'[fd] = fdTable[fd]
  BY <1>2, <1>5
<1>7. \A d \in Clients : InTable(d)' <=> InTable(d) \/ d = c
  <2> SUFFICES ASSUME NEW d \in Clients PROVE InTable(d)' <=> InTable(d) \/ d = c
    OBVIOUS
  <2>1. d # NoClient
    BY NetAssumption
  <2>2. InTable(d)' => InTable(d) \/ d = c
    BY <1>6 DEF InTable
  <2>3. InTable(d) \/ d = c => InTable(d)'
    BY <1>2, <1>6, <2>1 DEF InTable
  <2> QED
    BY <2>2, <2>3
<1>8. \A d \in Clients : Removed(d)' <=> Removed(d)
  BY <1>4, <1>7 DEF Removed
<1>9. \A t \in Threads : Engaged(t) => tfd[t] # f
  BY <1>2 DEF ThreadsHold, ThreadHolds
<1> QED
  BY <1>1, <1>2, <1>3, <1>4, <1>6, <1>7, <1>8, <1>9

LEMMA AcceptPlaced ==
    ASSUME Inv, up, InOrder, Accept, NEW c, c = Head(backlog), NEW f, f = freeFd
    PROVE  Placed' /\ \A d \in Clients : InBacklog(d)' => InBacklog(d) /\ d # c
<1> USE DEF Inv, ServerInv
<1>0. /\ Len(backlog') = Len(backlog) - 1 /\ Len(backlog) \in Nat \ {0} /\ c = backlog[1]
      /\ \A k \in 1 .. Len(backlog') : backlog'[k] = backlog[k + 1]
      /\ \A k \in 1 .. Len(backlog) : backlog[k] \in Clients
  <2>1. backlog \in Seq(Clients) /\ backlog # << >> /\ backlog' = Tail(backlog)
    BY DEF TypeOK, NetTypeOK, Accept
  <2> QED
    BY <2>1
<1>1. \A k \in 1 .. Len(backlog') : k + 1 \in 1 .. Len(backlog) /\ 1 \in 1 .. Len(backlog) /\ k + 1 # 1
  BY <1>0
<1>2. ASSUME NEW k \in 1 .. Len(backlog')
      PROVE  (Unread(backlog[k]) /\ ~InTable(backlog[k]))' /\ backlog'[k] # c
  <2>1. PICK d \in Clients : d = backlog[k + 1]
    BY <1>0, <1>1
  <2>2. d # c /\ Unread(d) /\ ~InTable(d)
    BY <1>0, <1>1, <2>1 DEF Basics, Queued, Placed
  <2>3. Unread(d)' /\ ~InTable(d)'
    BY <2>2, AcceptChanges DEF Unread, clientVars
  <2>4. backlog'[k] = d
    BY <1>0, <2>1
  <2> QED
    BY <2>2, <2>3, <2>4 DEF Unread, InTable
<1>4. ASSUME NEW fd \in Fds, NEW other \in Fds, fdTable'[fd] = fdTable'[other], fdTable'[fd] # NoClient
      PROVE  fd = other
  <2>1. fdTable'[f] = c /\ ~InTable(c) /\ \A x \in Fds : x # f => fdTable'[x] = fdTable[x]
    BY AcceptChanges
  <2>2. fd = f <=> other = f
    BY <1>4, <2>1 DEF InTable
  <2> QED
    BY <1>4, <2>1, <2>2 DEF Placed
<1>5. \A d \in Clients : InTable(d)' => cpc'[d] # "connect"
  BY AcceptChanges DEF Placed, clientVars
<1>6. \A d \in Clients : InBacklog(d) => InBacklog(d)' \/ d = c
  <2> SUFFICES ASSUME NEW d \in Clients, NEW k \in 1 .. Len(backlog), backlog[k] = d, d # c
               PROVE  InBacklog(d)'
    BY DEF InBacklog
  <2>1. k - 1 \in 1 .. Len(backlog') /\ k = (k - 1) + 1
    BY <1>0
  <2>2. backlog'[k - 1] = d
    BY <1>0, <2>1
  <2> QED
    BY <2>1, <2>2 DEF InBacklog
<1>7. \A d \in Clients : cpc'[d] \notin {"connect", "failed"} => (InBacklog(d) \/ InTable(d) \/ Removed(d))'
  BY <1>6, AcceptChanges DEF Placed, clientVars
<1>8. \A d \in Clients : InBacklog(d)' => InBacklog(d) /\ d # c
  BY <1>0, <1>1, <1>2 DEF InBacklog
<1> QED
  BY <1>2, <1>4, <1>5, <1>7, <1>8 DEF Placed

LEMMA AcceptKeeps ==
    ASSUME Inv, up, InOrder, Accept, UNCHANGED paced
    PROVE  ServerInv' /\ (paced' => PacedInv')
<1> USE DEF Inv, ServerInv
<1>0. PICK c, f : c = Head(backlog) /\ f = freeFd
  OBVIOUS
<1>1. UNCHANGED <<tpc, tfd, tcon, ty, nthreads, paced>>
  BY <1>0, AcceptChanges DEF threadVars
<1>2. \A d \in Clients : \A u \in Threads : Partner(u, d)' <=> Partner(u, d)
  <2> SUFFICES ASSUME NEW d \in Clients, NEW u \in Threads PROVE Partner(u, d)' <=> Partner(u, d)
    OBVIOUS
  <2>1. Engaged(u)' <=> Engaged(u)
    BY <1>1 DEF Engaged
  <2>2. Engaged(u) => fdTable'[tfd'[u]] = fdTable[tfd[u]]
    BY <1>0, <1>1, AcceptChanges, EngagedFacts
  <2> QED
    BY <2>1, <2>2 DEF Partner
<1>3. ThreadsHold'
  <2> SUFFICES ASSUME NEW t \in Threads PROVE ThreadHolds(t)'
    BY DEF ThreadsHold
  <2>1. Engaged(t) => tfd[t] \in Fds /\ fdTable'[tfd[t]] = fdTable[tfd[t]]
    BY <1>0, AcceptChanges, EngagedFacts
  <2>2. (Engaged(t)' <=> Engaged(t)) /\ (tpc[t] = "inZ" => Engaged(t))
    BY <1>1 DEF Engaged
  <2>3. tpc[t] = "inX" => tcon[t] = fdTable'[tfd[t]] \/ Removed(tcon[t])'
    <3> SUFFICES ASSUME tpc[t] = "inX" PROVE tcon[t] = fdTable'[tfd[t]] \/ Removed(tcon[t])'
      OBVIOUS
    <3>1. PICK d \in Clients : d = tcon[t]
      BY ThreadFacts
    <3>2. tfd[t] \in Fds /\ (d = fdTable[tfd[t]] \/ Removed(d)) /\ d # NoClient
      BY <3>1, ThreadFacts, NetAssumption DEF ThreadsHold, ThreadHolds
    <3>3. d = fdTable'[tfd[t]] \/ Removed(d)'
      BY <1>0, <3>2, AcceptChanges
    <3>4. tcon'[t] = d
      BY <1>1, <3>1
    <3> QED
      BY <3>1, <3>3, <3>4 DEF Removed, InTable
  <2> QED
    BY <1>1, <2>1, <2>2, <2>3 DEF ThreadsHold, ThreadHolds, Sane
<1>5. Closed'
  <2>1. c \notin srvClosed
    BY <1>0, AcceptChanges DEF Closed
  <2> QED
    BY <1>0, <1>1, <2>1, AcceptChanges, AcceptPlaced DEF Closed, clientVars
<1>6. Counted'
  <2> SUFFICES ASSUME \A t \in Threads : tpc[t] # "exit"
               PROVE  /\ Cardinality(Accepted') = nthreads' + 1 /\ mpc' = "create"
                      /\ Cardinality(RemovedOnes') = Cardinality(DoneThreads')
    BY <1>1 DEF Counted
  <2>1. Accepted' = Accepted \cup {c} /\ c \notin Accepted
        /\ RemovedOnes' = RemovedOnes /\ DoneThreads' = DoneThreads
    BY <1>0, <1>1, AcceptChanges DEF Accepted, RemovedOnes, DoneThreads
  <2>2. IsFiniteSet(Accepted)
    BY ThreadsAreFinite, FS_Subset DEF Accepted
  <2>3. Cardinality(Accepted \cup {c}) = Cardinality(Accepted) + 1
    BY <2>1, <2>2, FS_AddElement
  <2>4. mpc = "accepting" /\ mpc' = "create" /\ nthreads' = nthreads /\ nthreads \in Nat
    <3>1. nthreads \in 0 .. Cardinality(Clients)
      BY DEF TypeOK
    <3> QED
      BY <1>1, <3>1, ThreadsAreFinite DEF Accept
  <2>5. Cardinality(Accepted') = nthreads' + 1
    BY <2>1, <2>3, <2>4 DEF Counted
  <2> QED
    BY <2>1, <2>4, <2>5 DEF Counted
<1>7. Conversing'
  <2> SUFFICES ASSUME NEW d \in Clients PROVE \E k : (Stage(d, k) /\ Staffed(d, k))'
    BY DEF Conversing
  <2>0. UNCHANGED <<clientVars, printed, toServer, toClient>>
    BY <1>0, AcceptChanges
  <2> QED
    BY <1>0, <1>1, <1>2, <2>0, ConversationKept
<1>8. ASSUME paced, NEW t \in Threads, Serving(t)
      PROVE  tfd[t] # f /\ fdTable'[tfd[t]] = fdTable[tfd[t]]
  <2>1. tfd[t] \in Fds /\ fdTable[tfd[t]] # NoClient
    BY <1>8, ThreadFacts DEF PacedInv, Paced, Serving
  <2> QED
    BY <1>0, <2>1, AcceptChanges
<1>9. paced => Paced'
  <2> SUFFICES ASSUME paced PROVE Paced'
    OBVIOUS
  <2>1. /\ Len(backlog) = 1 /\ \A t \in Threads : tpc[t] # "start"
        /\ backlog' = Tail(backlog) /\ backlog \in Seq(Clients)
    BY DEF PacedInv, Paced, Accept, TypeOK, NetTypeOK
  <2>2. backlog' = << >>
    BY <2>1
  <2>3. newS' = f /\ fdTable'[f] = c /\ c # NoClient
    BY <1>0, AcceptChanges
  <2>4. \A t \in Threads : Serving(t)' <=> Serving(t)
    BY <1>1 DEF Serving
  <2>5. HandedOver'
    BY <1>1, <1>8, <2>3, <2>4 DEF HandedOver
  <2>6. \A t \in Threads : Serving(t) =>
          /\ fdTable'[tfd[t]] # NoClient
          /\ tcon[t] \in {NoClient, fdTable'[tfd[t]]}
          /\ \A u \in Threads : Serving(u) /\ tfd[u] = tfd[t] => u = t
    BY <1>8 DEF PacedInv, Paced
  <2> QED
    BY <1>1, <2>1, <2>2, <2>5, <2>4, <2>6 DEF Paced
<1>10. paced => Leaving'
  <2> SUFFICES ASSUME paced PROVE Leaving'
    OBVIOUS
  <2>1. Len(printed'[c]) # 2
    <3>1. Len(<< >>) # 2
      OBVIOUS
    <3> QED
      BY <1>0, <3>1, AcceptChanges DEF Unread
  <2>2. \A u \in Threads : tpc[u] = "abort" => fdTable'[tfd[u]] = fdTable[tfd[u]]
    BY <1>8 DEF Serving
  <2>3. \A d \in Clients : InTable(d)' /\ Len(printed'[d]) = 2 => InTable(d) /\ Len(printed[d]) = 2
    BY <1>0, <2>1, AcceptChanges
  <2>4. \A u \in Threads : \A d \in Clients : Partner(u, d) /\ tpc[u] = "close" =>
          Partner(u, d)' /\ tpc'[u] = "close"
    BY <1>1, <1>2
  <2>5. cpc' = cpc /\ Leaving
    BY <1>0, AcceptChanges DEF PacedInv, clientVars
  <2>6. \A u \in Threads : tpc'[u] = "abort" => tpc[u] = "abort" /\ fdTable'[tfd'[u]] = fdTable[tfd[u]]
    BY <1>1, <2>2
  <2>7. \A u \in Threads : tpc'[u] = "exit" => tpc[u] = "exit"
    BY <1>1
  <2> QED
    BY <2>3, <2>4, <2>5, <2>6, <2>7, LeavingKept
<1> QED
  BY <1>1, <1>3, <1>5, <1>6, <1>7, <1>9, <1>10, <1>0, AcceptPlaced DEF PacedInv

-----------------------------------------------------------------------------

(* The steps of the threads. *)

\* What a step keeps that leaves descriptors and main alone, and that touches no
\* conversation but one whose descriptor is open.
LEMMA InPlace ==
    ASSUME Inv, up, InOrder, UNCHANGED <<clientVars, backlog, fdTable, mainVars>>,
           \A d \in Clients : ~InTable(d) =>
             printed'[d] = printed[d] /\ toServer'[d] = toServer[d] /\ toClient'[d] = toClient[d],
           \A u \in Threads : (tpc'[u] = "done" <=> tpc[u] = "done") /\ (tpc'[u] = "exit" <=> tpc[u] = "exit")
    PROVE  /\ Placed' /\ Counted'
           /\ \A d : InTable(d)' <=> InTable(d)
           /\ \A d \in Clients : Removed(d)' <=> Removed(d)
           /\ \A d \in Clients : InBacklog(d)' <=> InBacklog(d)
<1> USE DEF Inv, ServerInv, mainVars, clientVars
<1>1. \A d : InTable(d)' <=> InTable(d)
  BY DEF InTable
<1>2. \A d \in Clients : (Removed(d)' <=> Removed(d)) /\ (InBacklog(d)' <=> InBacklog(d))
  BY <1>1 DEF Removed, InBacklog
<1>3. \A d \in Clients : Unread(d) /\ ~InTable(d) => Unread(d)'
  BY DEF Unread
<1>4. Placed'
  <2>1. \A k \in 1 .. Len(backlog) : (Unread(backlog[k]) /\ ~InTable(backlog[k]))'
    <3> SUFFICES ASSUME NEW k \in 1 .. Len(backlog)
                 PROVE  (Unread(backlog[k]) /\ ~InTable(backlog[k]))'
      OBVIOUS
    <3>1. backlog[k] \in Clients
      BY DEF TypeOK, NetTypeOK
    <3>2. PICK c \in Clients : c = backlog[k]
      BY <3>1
    <3>3. Unread(c)' /\ ~InTable(c)'
      BY <1>1, <1>3, <3>2 DEF Placed
    <3>4. backlog'[k] = c
      BY <3>2
    <3> QED
      BY <3>3, <3>4 DEF Unread, InTable
  <2> QED
    BY <1>1, <1>2, <2>1 DEF Placed
<1>5. Counted'
  <2>1. Accepted' = Accepted /\ RemovedOnes' = RemovedOnes /\ DoneThreads' = DoneThreads
    BY <1>1, <1>2 DEF Accepted, RemovedOnes, DoneThreads
  <2> QED
    BY <2>1 DEF Counted
<1> QED
  BY <1>1, <1>2, <1>4, <1>5

\* A thread that does not take part in a step that leaves descriptors alone.
LEMMA OtherThreadHolds ==
    ASSUME TypeOK, Basics, ThreadsHold, NEW u \in Threads, fdTable' = fdTable, nthreads' = nthreads,
           tpc'[u] = tpc[u], tfd'[u] = tfd[u], tcon'[u] = tcon[u],
           \A d \in Clients : Removed(d) => Removed(d)'
    PROVE  ThreadHolds(u)'
<1>1. ThreadHolds(u)
  BY DEF ThreadsHold
<1>2. Engaged(u)' <=> Engaged(u)
  BY DEF Engaged
<1>3. tpc[u] = "inX" => tcon'[u] = fdTable'[tfd'[u]] \/ Removed(tcon[u])'
  <2> SUFFICES ASSUME tpc[u] = "inX" PROVE tcon'[u] = fdTable'[tfd'[u]] \/ Removed(tcon[u])'
    OBVIOUS
  <2>1. PICK d \in Clients : d = tcon[u]
    BY ThreadFacts
  <2>2. d = fdTable[tfd[u]] \/ Removed(d)'
    BY <1>1, <2>1 DEF ThreadHolds
  <2> QED
    BY <2>1, <2>2 DEF Removed, InTable
<1> QED
  BY <1>1, <1>2, <1>3 DEF ThreadHolds, Sane

\* A paced thread goes on with the descriptor it has.
LEMMA PacedKept ==
    ASSUME Paced, UNCHANGED <<backlog, mainVars, fdTable, tfd>>,
           \A u \in Threads : /\ tpc'[u] = "start" <=> tpc[u] = "start"
                              /\ Serving(u)' => Serving(u)
                              /\ tcon'[u] \in {tcon[u], NoClient, fdTable[tfd[u]]}
    PROVE  Paced'
<1>1. HandedOver => HandedOver'
  BY DEF HandedOver, mainVars
<1> QED
  BY <1>1 DEF Paced, mainVars

\* Paced, a conversation has no second thread.
LEMMA PacedAlone ==
    ASSUME Inv, up, paced, NEW t \in Threads, Serving(t), NEW c \in Clients, c = fdTable[tfd[t]],
           NEW u \in Threads, Partner(u, c)
    PROVE  u = t
<1> USE DEF Inv, ServerInv, PacedInv, InOrder
<1>1. Serving(u) /\ tfd[u] \in Fds /\ tfd[t] \in Fds /\ fdTable[tfd[u]] = c /\ c # NoClient
  BY ThreadFacts, NetAssumption DEF Partner, Engaged, Serving
<1>2. tfd[u] = tfd[t]
  BY <1>1 DEF Placed
<1> QED
  BY <1>1, <1>2 DEF Paced

\* Paced, a thread that waits for a message waits in a conversation of its own.
LEMMA PacedWaits ==
    ASSUME Inv, up, paced, NEW t \in Threads, tpc[t] \in {"inX", "inZ"}, NEW c, c = tcon[t]
    PROVE  /\ c \in Clients /\ c = fdTable[tfd[t]] /\ InTable(c)
           /\ tpc[t] = "inX" => Unread(c) \/ (Answered(c) /\ Hopeless(c))
           /\ tpc[t] = "inZ" => Answered(c)
<1> USE DEF Inv, ServerInv, PacedInv, InOrder
<1>1. c \in Clients /\ Serving(t) /\ tfd[t] \in Fds /\ c # NoClient
  BY ThreadFacts, NetAssumption DEF Serving
<1>2. c = fdTable[tfd[t]] /\ InTable(c)
  BY <1>1 DEF Paced, InTable
<1>3. PICK k : Stage(c, k) /\ Staffed(c, k)
  BY <1>1 DEF Conversing
<1>4. \A u \in Threads : Partner(u, c) => u = t
  BY <1>1, <1>2, PacedAlone
<1>5. k # "asked"
  BY <1>3, <1>4 DEF Staffed, Lone
<1>6. k # "finished"
  <2>1. Len(printed[c]) # 2
    BY <1>1, <1>2, <1>4 DEF Leaving
  <2> QED
    BY <1>3, <2>1, PrintedTwice
<1>7. tpc[t] = "inX" /\ k = "answered" => Hopeless(c)
  BY <1>3, <1>4 DEF Staffed, Lone
<1>8. tpc[t] = "inZ" => k # "unread"
  BY <1>2, <1>3 DEF Staffed, NoPartner, Partner, Engaged
<1> QED
  BY <1>1, <1>2, <1>3, <1>5, <1>6, <1>7, <1>8 DEF Stage

LEMMA StartKeeps ==
    ASSUME Inv, up, InOrder, NEW t \in Threads, Start(t), UNCHANGED paced
    PROVE  ServerInv' /\ (paced' => PacedInv')
<1> USE DEF Inv, ServerInv
<1>0. /\ tpc[t] = "start" /\ tpc'[t] = "recvX" /\ tfd'[t] = newS
      /\ \A u \in Threads : u # t => tpc'[u] = tpc[u] /\ tfd'[u] = tfd[u]
      /\ UNCHANGED <<netVars, mainVars, fdTable, tcon, ty, paced>>
  BY DEF Start, ThreadGoto, TypeOK
<1>1. /\ Placed' /\ Counted'
      /\ \A d : InTable(d)' <=> InTable(d)
      /\ \A d \in Clients : Removed(d)' <=> Removed(d)
      /\ \A d \in Clients : InBacklog(d)' <=> InBacklog(d)
  <2>1. UNCHANGED <<clientVars, backlog, fdTable, mainVars, printed, toServer, toClient>>
    BY <1>0 DEF netVars, clientVars
  <2>2. \A u \in Threads : (tpc'[u] = "done" <=> tpc[u] = "done") /\ (tpc'[u] = "exit" <=> tpc[u] = "exit")
    BY <1>0
  <2> QED
    BY <2>1, <2>2, InPlace
<1>2. ThreadsHold'
  <2>1. \A u \in Threads : u # t => ThreadHolds(u)'
    BY <1>0, <1>1, OtherThreadHolds DEF mainVars
  <2>2. ThreadHolds(t)'
    <3>1. ThreadHolds(t) /\ t \in Nat /\ nthreads \in Nat
      BY ThreadsAreFinite DEF ThreadsHold, TypeOK
    <3>2. t <= nthreads /\ nthreads > 0
      BY <1>0, <3>1, ThreadsAreFinite DEF ThreadHolds, Sane
    <3>3. newS \in Fds
      BY <3>2 DEF Basics, MainHolds
    <3> QED
      BY <1>0, <3>1, <3>2, <3>3 DEF ThreadHolds, Sane, Engaged, mainVars
  <2> QED
    BY <2>1, <2>2 DEF ThreadsHold
<1>3. Closed'
  BY <1>0, <1>1 DEF Closed, netVars
<1>4. /\ \A u \in Threads : \A d : Partner(u, d)' <=> Partner(u, d)
      /\ \A u \in Threads : \A d : Partner(u, d) => tpc'[u] = tpc[u]
  BY <1>0 DEF Partner, Engaged
<1>5. Conversing'
  BY <1>0, <1>1, <1>4, ConversationKept DEF Conversing, netVars, clientVars
<1>6. paced => Paced'
  <2> SUFFICES ASSUME paced PROVE Paced'
    OBVIOUS
  <2>1. /\ backlog = << >> /\ mpc # "create" /\ HandedOver
        /\ \A u \in Threads : tpc[u] = "start" => u = t
    BY <1>0 DEF PacedInv, Paced
  <2>2. /\ \A u \in Threads : u # t => (Serving(u)' <=> Serving(u))
        /\ ~Serving(t) /\ \A u \in Threads : tpc'[u] # "start"
    BY <1>0, <2>1 DEF Serving
  <2>3. tcon[t] = NoClient
    BY <1>0, ThreadFacts
  <2>4. fdTable[newS] # NoClient /\ \A u \in Threads : Serving(u) => tfd[u] # newS
    BY <2>1 DEF HandedOver
  <2>5. ASSUME NEW u \in Threads, Serving(u)'
        PROVE  /\ fdTable'[tfd'[u]] # NoClient
               /\ tcon'[u] \in {NoClient, fdTable'[tfd'[u]]}
               /\ \A v \in Threads : Serving(v)' /\ tfd'[v] = tfd'[u] => v = u
    <3>1. CASE u = t
      BY <1>0, <2>2, <2>3, <2>4, <3>1
    <3>2. CASE u # t
      <4>1. Serving(u)
        BY <2>2, <2>5, <3>2
      <4>2. fdTable[tfd[u]] # NoClient /\ tcon[u] \in {NoClient, fdTable[tfd[u]]}
            /\ \A v \in Threads : Serving(v) /\ tfd[v] = tfd[u] => v = u
        BY <4>1 DEF PacedInv, Paced
      <4> QED
        BY <1>0, <2>2, <2>4, <3>2, <4>1, <4>2
    <3> QED
      BY <3>1, <3>2
  <2> QED
    BY <1>0, <2>1, <2>2, <2>5 DEF PacedInv, Paced, netVars, mainVars
<1>7. paced => Leaving'
  <2>1. \A u \in Threads : tpc'[u] \in {"abort", "exit"} => u # t
    BY <1>0
  <2> QED
    BY <1>0, <1>1, <1>4, <2>1, LeavingKept DEF PacedInv, netVars
<1> QED
  BY <1>0, <1>1, <1>2, <1>3, <1>5, <1>6, <1>7 DEF PacedInv

LEMMA CallRecvKeeps ==
    ASSUME Inv, up, InOrder, NEW t \in Threads, CallRecv(t), UNCHANGED paced
    PROVE  ServerInv' /\ (paced' => PacedInv')
<1> USE DEF Inv, ServerInv
<1>0. /\ tpc[t] \in {"recvX", "recvZ"}
      /\ \A u \in Threads : u # t => tpc'[u] = tpc[u] /\ tcon'[u] = tcon[u]
      /\ UNCHANGED <<clientVars, toServer, toClient, backlog, srvClosed, printed, mainVars, fdTable, tfd, ty>>
  BY DEF CallRecv, ThreadGoto, TypeOK, netVars, clientVars
<1>a. \/ /\ fdTable[tfd[t]] # NoClient /\ tcon'[t] = fdTable[tfd[t]]
         /\ tpc'[t] = IF tpc[t] = "recvX" THEN "inX" ELSE "inZ"
      \/ fdTable[tfd[t]] = NoClient /\ tcon'[t] = tcon[t] /\ tpc'[t] = "abort"
  BY DEF CallRecv, ThreadGoto, TypeOK
<1>1. /\ Placed' /\ Counted'
      /\ \A d : InTable(d)' <=> InTable(d)
      /\ \A d \in Clients : Removed(d)' <=> Removed(d)
      /\ \A d \in Clients : InBacklog(d)' <=> InBacklog(d)
  <2>1. \A u \in Threads : (tpc'[u] = "done" <=> tpc[u] = "done") /\ (tpc'[u] = "exit" <=> tpc[u] = "exit")
    BY <1>0, <1>a
  <2> QED
    BY <1>0, <2>1, InPlace
<1>2. tfd[t] \in Fds /\ tcon[t] = NoClient /\ ThreadHolds(t)
  BY <1>0, ThreadFacts DEF ThreadsHold
\* A thread whose descriptor is closed has taken no part in a conversation yet.
<1>b. tpc'[t] = "abort" => tpc[t] = "recvX" /\ ~paced
  BY <1>0, <1>a, <1>2 DEF ThreadHolds, Engaged, PacedInv, Paced, Serving
<1>3. ThreadsHold'
  <2>1. \A u \in Threads : u # t => ThreadHolds(u)'
    BY <1>0, <1>1, OtherThreadHolds DEF mainVars
  <2>2. ThreadHolds(t)'
    BY <1>0, <1>a, <1>b, <1>2 DEF ThreadHolds, Sane, Engaged, mainVars
  <2> QED
    BY <2>1, <2>2 DEF ThreadsHold
<1>4. Closed'
  <2>1. \A c \in Clients : ~InTable(c) => tcon'[t] # c /\ tcon[t] # c
    BY <1>a, <1>2, NetAssumption DEF InTable
  <2>2. \A c \in Clients : ~InTable(c) =>
          ((\A u \in Threads : tcon'[u] # c) <=> \A u \in Threads : tcon[u] # c)
    BY <1>0, <2>1
  <2>3. \A c \in Clients : Removed(c) => ~InTable(c)
    BY DEF Removed
  <2> QED
    BY <1>0, <1>1, <2>2, <2>3 DEF Closed, clientVars
<1>5. /\ \A u \in Threads : \A d : Partner(u, d)' <=> Partner(u, d)
      /\ \A u \in Threads : \A d : Partner(u, d) =>
           tpc'[u] = tpc[u] \/ (tpc[u] = "recvZ" /\ tpc'[u] = "inZ")
  BY <1>0, <1>a, <1>b DEF Partner, Engaged
<1>6. Conversing'
  BY <1>0, <1>1, <1>5, ConversationKept DEF Conversing
<1>7. paced => Paced'
  <2>1. \A u \in Threads : /\ tpc'[u] = "start" <=> tpc[u] = "start"
                           /\ Serving(u)' => Serving(u)
                           /\ tcon'[u] \in {tcon[u], NoClient, fdTable[tfd[u]]}
    BY <1>0, <1>a DEF Serving
  <2> QED
    BY <1>0, <2>1, PacedKept DEF PacedInv
<1>8. paced => Leaving'
  <2> SUFFICES ASSUME paced PROVE Leaving'
    OBVIOUS
  <2>1. \A u \in Threads : tpc'[u] \in {"abort", "exit"} => u # t
    BY <1>a, <1>b
  <2>2. \A u \in Threads : \A d : Partner(u, d) /\ tpc[u] = "close" => Partner(u, d)' /\ tpc'[u] = "close"
    BY <1>5
  <2> QED
    BY <1>0, <1>1, <2>1, <2>2, LeavingKept DEF PacedInv, clientVars
<1> QED
  BY <1>1, <1>3, <1>4, <1>6, <1>7, <1>8 DEF PacedInv

\* A thread that receives a message receives it from the conversation that its
\* descriptor stands for: in a finished one there is nothing left to receive.
LEMMA ReceivesFrom ==
    ASSUME Inv, up, InOrder, NEW t \in Threads, NEW c, c = tcon[t], tpc[t] \in {"inX", "inZ"},
           toServer[c] # << >>
    PROVE  c \in Clients /\ c = fdTable[tfd[t]] /\ InTable(c) /\ c \notin srvClosed
<1> USE DEF Inv, ServerInv
<1>1. c \in Clients /\ tfd[t] \in Fds
  BY ThreadFacts
<1>2. ~Removed(c)
  <2>1. PICK k : Stage(c, k) /\ Staffed(c, k)
    BY <1>1 DEF Conversing
  <2> QED
    BY <1>1, <2>1, RemovedFinished DEF Stage, Finished
<1>3. c = fdTable[tfd[t]]
  BY <1>2 DEF ThreadsHold, ThreadHolds
<1> QED
  BY <1>1, <1>2, <1>3 DEF InTable, Closed

\* The end of a recv() closes a connection only if its descriptor was closed before.
LEMMA RecvCloses ==
    ASSUME Inv, up, InOrder, NEW t \in Threads, tpc[t] \in {"inX", "inZ"},
           NewReferences(fdTable, [tcon EXCEPT ![t] = NoClient]), cpc' = cpc,
           \A d \in Clients : (Removed(d)' <=> Removed(d)) /\ (InTable(d)' <=> InTable(d))
                              /\ (InBacklog(d)' <=> InBacklog(d))
    PROVE  Closed'
<1> USE DEF Inv, ServerInv
<1>1. PICK c : c = tcon[t]
  OBVIOUS
<1>2. c \in Clients /\ c # NoClient /\ tfd[t] \in Fds
  BY <1>1, ThreadFacts, NetAssumption
<1>3. tcon'[t] = NoClient /\ (\A u \in Threads : u # t => tcon'[u] = tcon[u])
      /\ tcon' = [tcon EXCEPT ![t] = NoClient]
  BY DEF NewReferences, TypeOK
<1> SUFFICES ASSUME NEW d \in Clients
             PROVE  /\ d \in srvClosed' =>
                         /\ ~InTable(d) /\ ~InBacklog(d) /\ cpc[d] # "connect"
                         /\ \A u \in Threads : tcon'[u] # d
                         /\ Removed(d) \/ cpc[d] = "failed"
                    /\ Removed(d) /\ (\A u \in Threads : tcon'[u] # d) => d \in srvClosed'
  BY DEF Closed
<1>4. d \in srvClosed' <=>
        \/ d \in srvClosed
        \/ /\ InTable(d) \/ \E u \in Threads : tcon[u] = d
           /\ ~InTable(d) /\ \A u \in Threads : tcon'[u] # d
  <2>1. PICK calls : calls = [tcon EXCEPT ![t] = NoClient]
    OBVIOUS
  <2>2. NewReferences(fdTable, calls)
    BY <2>1
  <2> QED
    BY <1>3, <2>1, <2>2, NetAssumption DEF NewReferences, Held, InTable
<1>5. d # NoClient /\ (Removed(d) => ~InTable(d))
  BY NetAssumption DEF Removed
<1>6. CASE d \in srvClosed
  BY <1>3, <1>4, <1>5, <1>6 DEF Closed
<1>7. CASE d \notin srvClosed /\ d \in srvClosed'
  <2>1. d = c
    BY <1>1, <1>3, <1>4, <1>7
  <2>2. ~InTable(c) /\ \A u \in Threads : tcon'[u] # d
    BY <1>4, <1>7, <2>1
  <2>3. Removed(c)
    BY <1>1, <1>2, <2>2 DEF ThreadsHold, ThreadHolds, InTable
  <2>4. ~InBacklog(c) /\ cpc[c] # "connect"
    BY <1>2, <2>3, WaitingIsUnread
  <2> QED
    BY <2>1, <2>2, <2>3, <2>4, <1>7
<1>8. CASE d \notin srvClosed /\ d \notin srvClosed'
  BY <1>4, <1>5, <1>8 DEF Closed
<1> QED
  BY <1>6, <1>7, <1>8

LEMMA HungUpKeeps ==
    ASSUME Inv, up, InOrder, NEW t \in Threads, HungUp(t), UNCHANGED paced
    PROVE  ServerInv' /\ (paced' => PacedInv')
<1> USE DEF Inv, ServerInv
<1>a. PICK c : c = tcon[t]
  OBVIOUS
<1>0. /\ tpc[t] \in {"inX", "inZ"} /\ tpc'[t] = "abort" /\ tcon'[t] = NoClient
      /\ c = tcon[t] /\ toServer[c] = << >> /\ Ended(c)
      /\ \A u \in Threads : u # t => tpc'[u] = tpc[u] /\ tcon'[u] = tcon[u]
      /\ NewReferences(fdTable, [tcon EXCEPT ![t] = NoClient])
      /\ UNCHANGED <<clientVars, toServer, toClient, backlog, printed, up, mainVars, fdTable, tfd, ty>>
  BY <1>a DEF HungUp, ThreadGoto, TypeOK, NewReferences, Readable
<1>1. c \in Clients /\ c # NoClient /\ tfd[t] \in Fds
  BY <1>0, ThreadFacts, NetAssumption
<1>2. /\ Placed' /\ Counted'
      /\ \A d : InTable(d)' <=> InTable(d)
      /\ \A d \in Clients : Removed(d)' <=> Removed(d)
      /\ \A d \in Clients : InBacklog(d)' <=> InBacklog(d)
  <2>1. \A u \in Threads : (tpc'[u] = "done" <=> tpc[u] = "done") /\ (tpc'[u] = "exit" <=> tpc[u] = "exit")
    BY <1>0
  <2> QED
    BY <1>0, <2>1, InPlace
<1>3. ThreadsHold'
  <2>1. \A u \in Threads : u # t => ThreadHolds(u)'
    BY <1>0, <1>2, OtherThreadHolds DEF mainVars
  <2>2. ThreadHolds(t)'
    BY <1>0, <1>1 DEF ThreadsHold, ThreadHolds, Sane, Engaged, mainVars
  <2> QED
    BY <2>1, <2>2 DEF ThreadsHold
<1>4. Closed'
  BY <1>0, <1>2, RecvCloses DEF clientVars
<1>5. \A u \in Threads : \A d : Partner(u, d)' <=> Partner(u, d) /\ u # t
  BY <1>0 DEF Partner, Engaged
<1>6. \A d : Partner(t, d) => d = c /\ tpc[t] = "inZ"
  BY <1>0 DEF Partner, Engaged, ThreadsHold, ThreadHolds
<1>7. Conversing'
  <2> SUFFICES ASSUME NEW d \in Clients PROVE \E k : (Stage(d, k) /\ Staffed(d, k))'
    BY DEF Conversing
  <2>1. CASE ~Partner(t, d)
    <3>1. \A u \in Threads : Partner(u, d)' <=> Partner(u, d)
      BY <1>5, <2>1
    <3>2. \A u \in Threads : Partner(u, d) => tpc'[u] = tpc[u]
      BY <1>0, <2>1
    <3> QED
      BY <1>0, <3>1, <3>2, ConversationKept
  <2>2. CASE Partner(t, d)
    <3>1. PICK k : Stage(d, k) /\ Staffed(d, k)
      BY DEF Conversing
    <3>2. Stage(d, k)'
      BY <1>0, <3>1, LeftAlone
    <3>3. d = c /\ tpc[t] = "inZ"
      BY <1>6, <2>2
    <3>4. CASE k = "answered"
      <4>1. Lone(t, d)
        BY <2>2, <3>1, <3>4 DEF Staffed, NoPartner, Lone
      <4>2. NoPartner(d)'
        BY <1>5, <4>1 DEF NoPartner, Lone
      <4>3. cpc[d] = "failed"
        <5>1. \A n : << >> # <<n>>
          OBVIOUS
        <5> QED
          BY <1>0, <3>1, <3>3, <3>4, <5>1 DEF Stage, Answered, Ended
      <4>4. Hopeless(d)'
        BY <1>0, <3>3, <4>3 DEF Hopeless, clientVars
      <4> QED
        BY <3>2, <3>4, <4>2, <4>4 DEF Staffed
    <3>5. CASE k = "finished"
      <4>1. Rivals(d)
        BY <2>2, <3>1, <3>3, <3>5 DEF Staffed, Lone
      <4>2. \A u \in Threads : Partner(u, d)' => Partner(u, d) /\ tpc'[u] = tpc[u]
        BY <1>0, <1>5
      <4>3. Rivals(d)'
        BY <1>0, <4>1, <4>2 DEF Rivals
      <4> QED
        BY <3>2, <3>5, <4>3 DEF Staffed
    <3>6. k \notin {"unread", "asked"}
      BY <2>2, <3>1, <3>3 DEF Staffed, NoPartner, Lone
    <3> QED
      BY <3>1, <3>4, <3>5, <3>6 DEF Stage
  <2> QED
    BY <2>1, <2>2
<1>8. paced => Paced'
  <2>1. \A u \in Threads : /\ tpc'[u] = "start" <=> tpc[u] = "start"
                           /\ Serving(u)' => Serving(u)
                           /\ tcon'[u] \in {tcon[u], NoClient, fdTable[tfd[u]]}
    BY <1>0 DEF Serving
  <2> QED
    BY <1>0, <2>1, PacedKept DEF PacedInv
\* Paced, the client that hung up was killed: the thread has an open connection.
<1>9. paced => Leaving'
  <2> SUFFICES ASSUME paced PROVE Leaving'
    OBVIOUS
  <2>1. c = fdTable[tfd[t]] /\ (Unread(c) \/ Answered(c))
    BY <1>0, PacedWaits
  <2>2. cpc[c] = "failed"
    <3>1. \A n : << >> # <<n>>
      OBVIOUS
    <3> QED
      BY <1>0, <2>1, <3>1 DEF Unread, Answered, Ended
  <2>3. \A u \in Threads : tpc'[u] = "abort" =>
          \/ tpc[u] = "abort" /\ fdTable'[tfd'[u]] = fdTable[tfd[u]]
          \/ \E d \in Clients : fdTable'[tfd'[u]] = d /\ cpc'[d] = "failed"
    BY <1>0, <1>1, <2>1, <2>2 DEF clientVars
  <2>4. \A u \in Threads : \A d : Partner(u, d) /\ tpc[u] = "close" => Partner(u, d)' /\ tpc'[u] = "close"
    BY <1>0, <1>5
  <2>5. \A u \in Threads : tpc'[u] = "exit" => tpc[u] = "exit"
    BY <1>0
  <2> QED
    BY <1>0, <1>2, <2>3, <2>4, <2>5, LeavingKept DEF PacedInv, clientVars
<1> QED
  BY <1>2, <1>3, <1>4, <1>7, <1>8, <1>9 DEF PacedInv

LEMMA RecvXKeeps ==
    ASSUME Inv, up, InOrder, NEW t \in Threads, RecvX(t), UNCHANGED paced
    PROVE  ServerInv' /\ (paced' => PacedInv')
<1> USE DEF Inv, ServerInv
<1> DEFINE c0 == tcon[t]
<1>a. PICK c : c = c0
  OBVIOUS
<1> HIDE DEF c0
<1>0. /\ tpc[t] = "inX" /\ tpc'[t] = "sendY" /\ ty'[t] = Wrap(Received(c) + 1)
      /\ \A u \in Threads : u # t => tpc'[u] = tpc[u] /\ tcon'[u] = tcon[u] /\ ty'[u] = ty[u]
      /\ tcon'[t] = NoClient /\ c = tcon[t] /\ toServer[c] # << >> /\ Drain(c) /\ Fputs(c, Received(c))
      /\ NewReferences(fdTable, [tcon EXCEPT ![t] = NoClient])
      /\ UNCHANGED <<clientVars, toClient, backlog, up, mainVars, fdTable, tfd>>
  BY <1>a DEF RecvX, ThreadGoto, TypeOK, NewReferences, c0
<1>1. c \in Clients /\ c = fdTable[tfd[t]] /\ InTable(c) /\ c \notin srvClosed
  BY <1>0, ReceivesFrom
<1>2. \A d \in Clients : d # c => printed'[d] = printed[d] /\ toServer'[d] = toServer[d]
  BY <1>0 DEF Fputs, Drain, TypeOK, NetTypeOK
<1>3. /\ Placed' /\ Counted'
      /\ \A d : InTable(d)' <=> InTable(d)
      /\ \A d \in Clients : Removed(d)' <=> Removed(d)
      /\ \A d \in Clients : InBacklog(d)' <=> InBacklog(d)
  <2>1. \A u \in Threads : (tpc'[u] = "done" <=> tpc[u] = "done") /\ (tpc'[u] = "exit" <=> tpc[u] = "exit")
    BY <1>0
  <2> QED
    BY <1>0, <1>1, <1>2, <2>1, InPlace
<1>4. ThreadsHold'
  <2>1. \A u \in Threads : u # t => ThreadHolds(u)'
    BY <1>0, <1>3, OtherThreadHolds DEF mainVars
  <2>2. ThreadHolds(t)'
    <3>1. ThreadHolds(t) /\ c # NoClient
      BY <1>1, NetAssumption DEF ThreadsHold
    <3> QED
      BY <1>0, <1>1, <3>1 DEF ThreadHolds, Sane, Engaged, mainVars
  <2> QED
    BY <2>1, <2>2 DEF ThreadsHold
<1>5. Closed'
  BY <1>0, <1>3, RecvCloses DEF clientVars
<1>6. \A u \in Threads : \A d \in Clients : u # t \/ d # c => (Partner(u, d)' <=> Partner(u, d))
  BY <1>0, <1>1 DEF Partner, Engaged
<1>7. Partner(t, c)' /\ ~Partner(t, c)
  BY <1>0, <1>1 DEF Partner, Engaged
<1>8. Conversing'
  <2> SUFFICES ASSUME NEW d \in Clients PROVE \E k : (Stage(d, k) /\ Staffed(d, k))'
    BY DEF Conversing
  <2>1. CASE d # c
    <3>1. \A u \in Threads : Partner(u, d) => u # t
      BY <1>0 DEF Partner, Engaged
    <3> QED
      BY <1>0, <1>2, <1>3, <1>6, <2>1, <3>1, ConversationKept
  <2>2. CASE d = c
    <3>1. PICK k : Stage(c, k) /\ Staffed(c, k)
      BY <1>1 DEF Conversing
    <3>2. CASE k = "unread"
      <4>1. Unread(c) /\ NoPartner(c)
        BY <3>1, <3>2 DEF Stage, Staffed
      <4>2. Asked(c)' /\ Received(c) = xNum[c]
        BY <1>0, <1>1, <4>1, ReceivesX DEF TypeOK
      <4>3. Lone(t, c)' /\ ty'[t] = Y(c)'
        BY <1>0, <1>1, <1>6, <1>7, <4>1, <4>2 DEF NoPartner, Lone, Y, Wrap, clientVars
      <4>4. Stage(c, "asked")' /\ Staffed(c, "asked")'
        BY <1>0, <4>2, <4>3 DEF Stage, Staffed
      <4> QED
        BY <2>2, <4>4
    <3>3. CASE k = "answered"
      <4>1. Answered(c)
        BY <3>1, <3>3 DEF Stage
      <4>2. PICK p \in Threads : Lone(p, c) /\ tpc[p] \in {"recvZ", "inZ"}
        BY <1>0, <3>1, <3>3 DEF Staffed, Hopeless
      <4>3. Finished(c)'
        BY <1>0, <1>1, <4>1, ReceivesZ DEF TypeOK
      <4>4. p # t /\ tpc'[p] \in {"recvZ", "inZ"} /\ \A u \in Threads : Partner(u, c)' => u \in {p, t}
        BY <1>0, <1>1, <1>6, <1>7, <4>2 DEF Lone
      <4>5. toClient'[c] = << >>
        BY <1>0, <4>1 DEF Answered
      <4>6. Rivals(c)'
        BY <1>0, <4>4, <4>5 DEF Rivals
      <4>7. Stage(c, "finished")' /\ Staffed(c, "finished")'
        BY <4>3, <4>6 DEF Stage, Staffed
      <4> QED
        BY <2>2, <4>7
    <3>4. k \notin {"asked", "finished"}
      BY <1>0, <3>1 DEF Stage, Asked, Finished
    <3> QED
      BY <3>1, <3>2, <3>3, <3>4 DEF Stage
  <2> QED
    BY <2>1, <2>2
<1>9. paced => Paced'
  <2>1. \A u \in Threads : /\ tpc'[u] = "start" <=> tpc[u] = "start"
                           /\ Serving(u)' => Serving(u)
                           /\ tcon'[u] \in {tcon[u], NoClient, fdTable[tfd[u]]}
    BY <1>0 DEF Serving
  <2> QED
    BY <1>0, <2>1, PacedKept DEF PacedInv
<1>10. paced => Leaving'
  <2> SUFFICES ASSUME paced PROVE Leaving'
    OBVIOUS
  <2>1. Unread(c)
    BY <1>0, PacedWaits DEF Hopeless
  <2>2. Len(printed'[c]) # 2
    <3>1. Asked(c)'
      BY <1>0, <1>1, <2>1, ReceivesX DEF TypeOK
    <3>2. Len(<<xNum'[c]>>) # 2
      OBVIOUS
    <3> QED
      BY <3>1, <3>2 DEF Asked
  <2>3. \A d \in Clients : InTable(d)' /\ Len(printed'[d]) = 2 => InTable(d) /\ Len(printed[d]) = 2
    BY <1>2, <1>3, <2>2
  <2>4. \A u \in Threads : \A d \in Clients : Partner(u, d) /\ tpc[u] = "close" =>
          Partner(u, d)' /\ tpc'[u] = "close"
    BY <1>0, <1>6
  <2>5. \A u \in Threads : tpc'[u] \in {"abort", "exit"} => u # t
    BY <1>0
  <2> QED
    BY <1>0, <2>3, <2>4, <2>5, LeavingKept DEF PacedInv, clientVars
<1> QED
  BY <1>3, <1>4, <1>5, <1>8, <1>9, <1>10 DEF PacedInv

LEMMA SendYKeeps ==
    ASSUME Inv, up, InOrder, NEW t \in Threads, SendY(t), UNCHANGED paced
    PROVE  ServerInv' /\ (paced' => PacedInv')
<1> USE DEF Inv, ServerInv
<1>a. PICK c : c = fdTable[tfd[t]]
  OBVIOUS
<1>0. /\ tpc[t] = "sendY" /\ tpc'[t] = "recvZ" /\ c = fdTable[tfd[t]]
      /\ \A u \in Threads : u # t => tpc'[u] = tpc[u]
      /\ UNCHANGED <<clientVars, toServer, backlog, srvClosed, printed, up, mainVars, fdTable, tfd, tcon, ty>>
  BY <1>a DEF SendY, ThreadGoto, TypeOK
<1>1. c \in Clients /\ tfd[t] \in Fds /\ InTable(c) /\ Partner(t, c)
  BY <1>0, EngagedFacts DEF Engaged, InTable, Partner
<1>2. ServerSend(c, ty[t]) /\ \A d \in Clients : d # c => toClient'[d] = toClient[d]
  BY <1>0, <1>1, NetAssumption DEF SendY, ServerSend, TypeOK, NetTypeOK
<1>3. /\ Placed' /\ Counted'
      /\ \A d : InTable(d)' <=> InTable(d)
      /\ \A d \in Clients : Removed(d)' <=> Removed(d)
      /\ \A d \in Clients : InBacklog(d)' <=> InBacklog(d)
  <2>1. \A u \in Threads : (tpc'[u] = "done" <=> tpc[u] = "done") /\ (tpc'[u] = "exit" <=> tpc[u] = "exit")
    BY <1>0
  <2> QED
    BY <1>0, <1>1, <1>2, <2>1, InPlace
<1>4. ThreadsHold'
  <2>1. \A u \in Threads : u # t => ThreadHolds(u)'
    BY <1>0, <1>3, OtherThreadHolds DEF mainVars
  <2>2. ThreadHolds(t)'
    <3>1. ThreadHolds(t) /\ c # NoClient
      BY <1>1, NetAssumption DEF ThreadsHold
    <3> QED
      BY <1>0, <1>1, <3>1 DEF ThreadHolds, Sane, Engaged, mainVars
  <2> QED
    BY <2>1, <2>2 DEF ThreadsHold
<1>5. Closed'
  BY <1>0, <1>3 DEF Closed, clientVars
<1>6. \A u \in Threads : \A d \in Clients : Partner(u, d)' <=> Partner(u, d)
  BY <1>0 DEF Partner, Engaged
<1>7. Conversing'
  <2> SUFFICES ASSUME NEW d \in Clients PROVE \E k : (Stage(d, k) /\ Staffed(d, k))'
    BY DEF Conversing
  <2>1. CASE d # c
    <3>1. \A u \in Threads : Partner(u, d) => u # t
      BY <1>0, <2>1 DEF Partner
    <3> QED
      BY <1>0, <1>2, <1>6, <2>1, <3>1, ConversationKept
  <2>2. CASE d = c
    <3>1. PICK k : Stage(c, k) /\ Staffed(c, k)
      BY <1>1 DEF Conversing
    <3>2. CASE k = "asked"
      <4>1. Asked(c) /\ Lone(t, c) /\ ty[t] = Y(c)
        BY <1>1, <3>1, <3>2 DEF Stage, Staffed, Lone
      <4>2. Answered(c)'
        BY <1>0, <1>1, <1>2, <4>1, SendsY DEF TypeOK
      <4>3. Lone(t, c)' /\ ty'[t] = Y(c)'
        BY <1>0, <1>1, <1>6, <4>1 DEF Lone, Y, Wrap, clientVars
      <4>4. Stage(c, "answered")' /\ Staffed(c, "answered")'
        BY <1>0, <4>2, <4>3 DEF Stage, Staffed
      <4> QED
        BY <2>2, <4>4
    <3>3. CASE k = "finished"
      <4>1. Finished(c)
        BY <3>1, <3>3 DEF Stage
      <4>2. Rivals(c)
        BY <1>0, <1>1, <3>1, <3>3 DEF Staffed, Lone
      <4>3. toClient[c] = << >> /\ \A u \in Threads : Partner(u, c) /\ tpc[u] = "sendY" => u = t
        BY <1>0, <1>1, <4>2 DEF Rivals
      <4>4. Len(toClient'[c]) <= 1
        <5>1. ty[t] \in CInt /\ toClient \in [Clients -> Seq(CInt)]
          BY DEF TypeOK, NetTypeOK
        <5>2. Len(Append(<< >>, ty[t])) = 1 /\ Len(<< >>) = 0
          OBVIOUS
        <5> QED
          BY <1>1, <1>2, <4>3, <5>1, <5>2 DEF ServerSend
      <4>5. Finished(c)'
        BY <1>0, <4>1, <4>4 DEF Finished, Y, Z, Wrap, clientVars
      <4>6. Rivals(c)'
        BY <1>0, <1>1, <1>6, <4>2, <4>3 DEF Rivals
      <4>7. Stage(c, "finished")' /\ Staffed(c, "finished")'
        BY <4>5, <4>6 DEF Stage, Staffed
      <4> QED
        BY <2>2, <4>7
    <3>4. k \notin {"unread", "answered"}
      BY <1>0, <1>1, <3>1 DEF Staffed, NoPartner, Lone
    <3> QED
      BY <3>1, <3>2, <3>3, <3>4 DEF Stage
  <2> QED
    BY <2>1, <2>2
<1>8. paced => Paced'
  <2>1. \A u \in Threads : /\ tpc'[u] = "start" <=> tpc[u] = "start"
                           /\ Serving(u)' => Serving(u)
                           /\ tcon'[u] \in {tcon[u], NoClient, fdTable[tfd[u]]}
    BY <1>0 DEF Serving
  <2> QED
    BY <1>0, <2>1, PacedKept DEF PacedInv
<1>9. paced => Leaving'
  <2>1. \A u \in Threads : tpc'[u] \in {"abort", "exit"} => u # t
    BY <1>0
  <2>2. \A u \in Threads : \A d \in Clients : Partner(u, d) /\ tpc[u] = "close" =>
          Partner(u, d)' /\ tpc'[u] = "close"
    BY <1>0, <1>6
  <2> QED
    BY <1>0, <1>3, <2>1, <2>2, LeavingKept DEF PacedInv, clientVars
<1> QED
  BY <1>3, <1>4, <1>5, <1>7, <1>8, <1>9 DEF PacedInv

\* The message that a thread takes for Z is Z, and the one it waits for.
LEMMA RecvZMeetsZ ==
    ASSUME Inv, up, InOrder, NEW t \in Threads, NEW c, c = tcon[t], tpc[t] = "inZ", toServer[c] # << >>
    PROVE  /\ c \in Clients /\ c = fdTable[tfd[t]] /\ InTable(c) /\ c \notin srvClosed
           /\ Answered(c) /\ Lone(t, c) /\ ty[t] = Y(c) /\ Received(c) = Wrap(ty[t] + 1)
<1> USE DEF Inv, ServerInv
<1>1. c \in Clients /\ c = fdTable[tfd[t]] /\ InTable(c) /\ c \notin srvClosed
  BY ReceivesFrom
<1>2. Partner(t, c)
  BY <1>1 DEF Partner, Engaged
<1>3. Answered(c) /\ Lone(t, c) /\ ty[t] = Y(c)
  BY <1>1, <1>2, PartnerStage DEF Finished
<1>4. Received(c) = Z(c)
  BY <1>1, <1>3, ZReceived DEF TypeOK
<1> QED
  BY <1>1, <1>3, <1>4 DEF Z

LEMMA RecvZKeeps ==
    ASSUME Inv, up, InOrder, NEW t \in Threads, RecvZ(t), UNCHANGED paced
    PROVE  ServerInv' /\ (paced' => PacedInv')
<1> USE DEF Inv, ServerInv
<1>a. PICK c : c = tcon[t]
  OBVIOUS
<1>0. /\ tpc[t] = "inZ" /\ c = tcon[t] /\ toServer[c] # << >> /\ Drain(c)
      /\ NewReferences(fdTable, [tcon EXCEPT ![t] = NoClient])
      /\ UNCHANGED <<clientVars, toClient, backlog, up, mainVars, fdTable, tfd, ty>>
  BY <1>a DEF RecvZ, NewReferences
<1>1. /\ c \in Clients /\ c = fdTable[tfd[t]] /\ InTable(c) /\ c \notin srvClosed
      /\ Answered(c) /\ Lone(t, c) /\ Received(c) = Wrap(ty[t] + 1)
  BY <1>0, RecvZMeetsZ
<1>2. /\ Fputs(c, Received(c)) /\ tpc'[t] = "close" /\ tcon'[t] = NoClient
      /\ \A u \in Threads : u # t => tpc'[u] = tpc[u] /\ tcon'[u] = tcon[u]
  BY <1>a, <1>1 DEF RecvZ, ThreadGoto, TypeOK, NewReferences
<1>3. \A d \in Clients : d # c => printed'[d] = printed[d] /\ toServer'[d] = toServer[d]
  BY <1>0, <1>2 DEF Fputs, Drain, TypeOK, NetTypeOK
<1>4. /\ Placed' /\ Counted'
      /\ \A d : InTable(d)' <=> InTable(d)
      /\ \A d \in Clients : Removed(d)' <=> Removed(d)
      /\ \A d \in Clients : InBacklog(d)' <=> InBacklog(d)
  <2>1. \A u \in Threads : (tpc'[u] = "done" <=> tpc[u] = "done") /\ (tpc'[u] = "exit" <=> tpc[u] = "exit")
    BY <1>0, <1>2
  <2> QED
    BY <1>0, <1>1, <1>3, <2>1, InPlace
<1>5. ThreadsHold'
  <2>1. \A u \in Threads : u # t => ThreadHolds(u)'
    BY <1>0, <1>2, <1>4, OtherThreadHolds DEF mainVars
  <2>2. ThreadHolds(t)'
    <3>1. ThreadHolds(t) /\ c # NoClient
      BY <1>1, NetAssumption DEF ThreadsHold
    <3> QED
      BY <1>0, <1>1, <1>2, <3>1 DEF ThreadHolds, Sane, Engaged, mainVars
  <2> QED
    BY <2>1, <2>2 DEF ThreadsHold
<1>6. Closed'
  BY <1>0, <1>4, RecvCloses DEF clientVars
<1>7. \A u \in Threads : \A d \in Clients : Partner(u, d)' <=> Partner(u, d)
  BY <1>0, <1>2 DEF Partner, Engaged
<1>8. Partner(t, c)
  BY <1>0, <1>1 DEF Partner, Engaged
<1>9. Conversing'
  <2> SUFFICES ASSUME NEW d \in Clients PROVE \E k : (Stage(d, k) /\ Staffed(d, k))'
    BY DEF Conversing
  <2>1. CASE d # c
    <3>1. \A u \in Threads : Partner(u, d) => u # t
      BY <1>1, <2>1 DEF Partner
    <3> QED
      BY <1>0, <1>2, <1>3, <1>7, <2>1, <3>1, ConversationKept
  <2>2. CASE d = c
    <3>1. Finished(c)'
      BY <1>0, <1>1, <1>2, ReceivesZ DEF TypeOK
    <3>2. Lone(t, c)'
      BY <1>1, <1>7 DEF Lone
    <3>3. Stage(c, "finished")' /\ Staffed(c, "finished")'
      BY <1>2, <3>1, <3>2 DEF Stage, Staffed
    <3> QED
      BY <2>2, <3>3
  <2> QED
    BY <2>1, <2>2
<1>10. paced => Paced'
  <2>1. \A u \in Threads : /\ tpc'[u] = "start" <=> tpc[u] = "start"
                           /\ Serving(u)' => Serving(u)
                           /\ tcon'[u] \in {tcon[u], NoClient, fdTable[tfd[u]]}
    BY <1>0, <1>2 DEF Serving
  <2> QED
    BY <1>0, <2>1, PacedKept DEF PacedInv
<1>11. paced => Leaving'
  <2>1. \A u \in Threads : tpc'[u] \in {"abort", "exit"} => u # t
    BY <1>2
  <2>2. \A u \in Threads : \A d \in Clients : Partner(u, d) /\ tpc[u] = "close" =>
          Partner(u, d)' /\ tpc'[u] = "close"
    BY <1>0, <1>2, <1>7
  <2>3. \A d \in Clients : InTable(d)' /\ Len(printed'[d]) = 2 =>
          (InTable(d) /\ Len(printed[d]) = 2) \/ (Partner(t, d)' /\ tpc'[t] = "close")
    BY <1>2, <1>3, <1>4, <1>7, <1>8
  <2> QED
    BY <1>0, <1>2, <2>1, <2>2, <2>3, LeavingKept DEF PacedInv, clientVars
<1> QED
  BY <1>4, <1>5, <1>6, <1>9, <1>10, <1>11 DEF PacedInv

\* A thread that closes its descriptor, at the end of its conversation or, paced, after
\* an error, closes the connection that it has to itself.
LEMMA CloseFdChanges ==
    ASSUME Inv, up, InOrder, NEW t \in Threads, CloseFd(t), tpc[t] = "close" \/ paced
    PROVE  \E c \in Clients, f \in Fds :
             /\ f = tfd[t] /\ fdTable[f] = c /\ InTable(c)
             /\ fdTable' = [fdTable EXCEPT ![f] = NoClient]
             /\ fdTable'[f] = NoClient /\ \A fd \in Fds : fd # f => fdTable'[fd] = fdTable[fd]
             /\ tpc[t] = "close" => tpc'[t] = "done" /\ Finished(c) /\ Lone(t, c)
             /\ tpc[t] = "abort" => tpc'[t] = "exit" /\ cpc[c] = "failed" /\ NoPartner(c)
             /\ tpc[t] \in {"close", "abort"} /\ \A u \in Threads : u # t => tpc'[u] = tpc[u]
             /\ UNCHANGED <<clientVars, toServer, toClient, backlog, printed, up, mainVars, tfd, tcon, ty>>
             /\ \A d \in Clients : InTable(d)' <=> InTable(d) /\ d # c
             /\ \A d \in Clients : Removed(d)' <=> Removed(d) \/ (d = c /\ tpc[t] = "close")
             /\ \A u \in Threads : u # t /\ (Engaged(u) \/ (paced /\ Serving(u))) => tfd[u] # f
<1> USE DEF Inv, ServerInv
<1>a. PICK f : f = tfd[t]
  OBVIOUS
<1>1. tpc[t] \in {"close", "abort"} /\ f \in Fds /\ Serving(t) /\ (tpc[t] = "close" => Engaged(t))
  BY <1>a, ThreadFacts DEF CloseFd, Engaged, Serving
<1>b. PICK c : c = fdTable[f]
  OBVIOUS
<1>2. c \in Clients /\ InTable(c)
  <2>1. c # NoClient
    BY <1>a, <1>b, <1>1, EngagedFacts, NetAssumption DEF PacedInv, Paced
  <2> QED
    BY <1>1, <1>b, <2>1 DEF TypeOK, InTable
<1>3. /\ fdTable' = [fdTable EXCEPT ![f] = NoClient] /\ fdTable'[f] = NoClient
      /\ \A fd \in Fds : fd # f => fdTable'[fd] = fdTable[fd]
      /\ UNCHANGED <<clientVars, toServer, toClient, backlog, printed, up, mainVars, tfd, tcon, ty>>
      /\ tpc'[t] = (IF tpc[t] = "close" THEN "done" ELSE "exit")
      /\ \A u \in Threads : u # t => tpc'[u] = tpc[u]
  BY <1>a, <1>1 DEF CloseFd, NewReferences, ThreadGoto, TypeOK
<1>4. \A d \in Clients : InTable(d)' <=> InTable(d) /\ d # c
  <2> SUFFICES ASSUME NEW d \in Clients PROVE InTable(d)' <=> InTable(d) /\ d # c
    OBVIOUS
  <2>0. d # NoClient /\ \A fd \in Fds : fdTable[fd] = c => fd = f
    BY <1>1, <1>2, <1>b, NetAssumption DEF Placed
  <2> QED
    BY <1>1, <1>3, <1>b, <2>0 DEF InTable
<1>5. tpc[t] = "close" => Finished(c) /\ Lone(t, c) /\ Len(printed[c]) = 2
  <2> SUFFICES ASSUME tpc[t] = "close" PROVE Finished(c) /\ Lone(t, c) /\ Len(printed[c]) = 2
    OBVIOUS
  <2>1. Partner(t, c)
    BY <1>a, <1>b, <1>1 DEF Partner
  <2>2. Finished(c) /\ Lone(t, c)
    BY <1>2, <2>1, PartnerStage
  <2>3. Len(<<xNum[c], Z(c)>>) = 2
    OBVIOUS
  <2> QED
    BY <2>2, <2>3 DEF Finished
<1>6. tpc[t] = "abort" => cpc[c] = "failed" /\ NoPartner(c) /\ Len(printed[c]) # 2
  <2> SUFFICES ASSUME tpc[t] = "abort" PROVE cpc[c] = "failed" /\ NoPartner(c) /\ Len(printed[c]) # 2
    OBVIOUS
  <2>1. cpc[c] = "failed"
    BY <1>a, <1>b DEF PacedInv, Leaving
  <2>2. \A u \in Threads : Partner(u, c) => u = t
    BY <1>a, <1>b, <1>1, <1>2, PacedAlone
  <2>3. NoPartner(c)
    BY <2>2 DEF NoPartner, Partner, Engaged
  <2>4. Len(printed[c]) # 2
    BY <1>2, <2>3 DEF PacedInv, Leaving, NoPartner
  <2> QED
    BY <2>1, <2>3, <2>4
<1>7. \A d \in Clients : Removed(d)' <=> Removed(d) \/ (d = c /\ tpc[t] = "close")
  BY <1>1, <1>3, <1>4, <1>5, <1>6 DEF Removed
<1>8. \A u \in Threads : u # t /\ (Engaged(u) \/ (paced /\ Serving(u))) => tfd[u] # f
  <2>1. ASSUME paced, NEW u \in Threads, u # t, Serving(u) PROVE tfd[u] # f
    BY <1>a, <1>1, <2>1 DEF PacedInv, Paced
  <2>2. ASSUME NEW u \in Threads, u # t, Engaged(u), ~paced PROVE tfd[u] # f
    BY <1>1, <1>5, <1>b, <2>2 DEF Lone, Partner
  <2>3. \A u \in Threads : Engaged(u) => Serving(u)
    BY DEF Engaged, Serving
  <2> QED
    BY <2>1, <2>2, <2>3
<1> QED
  BY <1>a, <1>b, <1>1, <1>2, <1>3, <1>4, <1>5, <1>6, <1>7, <1>8

LEMMA CloseFdKeeps ==
    ASSUME Inv, up, InOrder, NEW t \in Threads, CloseFd(t), tpc[t] = "close" \/ paced, UNCHANGED paced
    PROVE  ServerInv' /\ (paced' => PacedInv')
<1>0. PICK c \in Clients, f \in Fds :
             /\ f = tfd[t] /\ fdTable[f] = c /\ InTable(c)
             /\ fdTable' = [fdTable EXCEPT ![f] = NoClient]
             /\ fdTable'[f] = NoClient /\ \A fd \in Fds : fd # f => fdTable'[fd] = fdTable[fd]
             /\ tpc[t] = "close" => tpc'[t] = "done" /\ Finished(c) /\ Lone(t, c)
             /\ tpc[t] = "abort" => tpc'[t] = "exit" /\ cpc[c] = "failed" /\ NoPartner(c)
             /\ tpc[t] \in {"close", "abort"} /\ \A u \in Threads : u # t => tpc'[u] = tpc[u]
             /\ UNCHANGED <<clientVars, toServer, toClient, backlog, printed, up, mainVars, tfd, tcon, ty>>
             /\ \A d \in Clients : InTable(d)' <=> InTable(d) /\ d # c
             /\ \A d \in Clients : Removed(d)' <=> Removed(d) \/ (d = c /\ tpc[t] = "close")
             /\ \A u \in Threads : u # t /\ (Engaged(u) \/ (paced /\ Serving(u))) => tfd[u] # f
  BY CloseFdChanges
<1> USE DEF Inv, ServerInv
<1>1. tpc'[t] \in {"done", "exit"} /\ ~Engaged(t)'
  BY <1>0 DEF Engaged
<1>2. \A u \in Threads : \A d \in Clients : u # t => (Partner(u, d)' <=> Partner(u, d))
  <2> SUFFICES ASSUME NEW u \in Threads, NEW d \in Clients, u # t PROVE Partner(u, d)' <=> Partner(u, d)
    OBVIOUS
  <2>1. Engaged(u)' <=> Engaged(u)
    BY <1>0 DEF Engaged
  <2>2. Engaged(u) => fdTable'[tfd'[u]] = fdTable[tfd[u]]
    BY <1>0, EngagedFacts
  <2> QED
    BY <2>1, <2>2 DEF Partner
<1>3. ThreadsHold'
  <2> SUFFICES ASSUME NEW u \in Threads PROVE ThreadHolds(u)'
    BY DEF ThreadsHold
  <2>0. ThreadHolds(u) /\ Sane(u) /\ UNCHANGED <<nthreads, tfd, tcon>>
    BY <1>0 DEF ThreadsHold, ThreadHolds, mainVars
  <2>1. CASE u = t
    BY <1>0, <1>1, <2>0, <2>1 DEF ThreadHolds, Sane
  <2>2. CASE u # t
    <3>1. tpc'[u] = tpc[u] /\ (Engaged(u)' <=> Engaged(u)) /\ (tpc[u] = "inZ" => Engaged(u))
      BY <1>0, <2>2 DEF Engaged
    <3>2. Engaged(u) => fdTable'[tfd[u]] = fdTable[tfd[u]]
      BY <1>0, <2>2, EngagedFacts
    <3>3. tpc[u] = "inX" => tcon[u] = fdTable'[tfd[u]] \/ Removed(tcon[u])'
      <4> SUFFICES ASSUME tpc[u] = "inX" PROVE tcon[u] = fdTable'[tfd[u]] \/ Removed(tcon[u])'
        OBVIOUS
      <4>1. PICK d \in Clients : d = tcon[u]
        BY ThreadFacts
      <4>2. tfd[u] \in Fds /\ (d = fdTable[tfd[u]] \/ Removed(d))
        BY <2>0, <4>1, ThreadFacts DEF ThreadHolds
      <4>3. paced => tfd[u] # f
        BY <1>0, <2>2 DEF Serving
      <4>4. d = fdTable'[tfd[u]] \/ Removed(d)'
        BY <1>0, <4>2, <4>3
      <4>5. tcon'[u] = d
        BY <2>0, <4>1
      <4> QED
        BY <4>1, <4>4, <4>5 DEF Removed, InTable
    <3> QED
      BY <2>0, <3>1, <3>2, <3>3 DEF ThreadHolds, Sane
  <2> QED
    BY <2>1, <2>2
<1>4. Placed'
  <2>0. UNCHANGED <<cpc, xNum, toServer, toClient, backlog, printed>>
    BY <1>0 DEF clientVars
  <2>1. \A k \in 1 .. Len(backlog) : (Unread(backlog[k]) /\ ~InTable(backlog[k]))'
    <3> SUFFICES ASSUME NEW k \in 1 .. Len(backlog)
                 PROVE  (Unread(backlog[k]) /\ ~InTable(backlog[k]))'
      OBVIOUS
    <3>1. backlog[k] \in Clients
      BY DEF TypeOK, NetTypeOK
    <3>2. PICK d \in Clients : d = backlog[k]
      BY <3>1
    <3>3. Unread(d)' /\ ~InTable(d)'
      BY <1>0, <2>0, <3>2 DEF Placed, Unread
    <3>4. backlog'[k] = d
      BY <2>0, <3>2
    <3> QED
      BY <3>3, <3>4 DEF Unread, InTable
  <2>2. ASSUME NEW fd \in Fds, NEW other \in Fds, fdTable'[fd] = fdTable'[other], fdTable'[fd] # NoClient
        PROVE  fd = other
    BY <1>0, <2>2 DEF Placed
  <2>3. \A d \in Clients : InTable(d)' => cpc'[d] # "connect"
    BY <1>0, <2>0 DEF Placed
  <2>4. \A d \in Clients : InBacklog(d)' <=> InBacklog(d)
    BY <2>0 DEF InBacklog
  <2>5. \A d \in Clients : cpc'[d] \notin {"connect", "failed"} => (InBacklog(d) \/ InTable(d) \/ Removed(d))'
    BY <1>0, <2>0, <2>4 DEF Placed
  <2> QED
    BY <2>0, <2>1, <2>2, <2>3, <2>5 DEF Placed
<1>5. Closed'
  <2> SUFFICES ASSUME NEW d \in Clients
               PROVE  /\ d \in srvClosed' =>
                           /\ ~InTable(d)' /\ ~InBacklog(d) /\ cpc[d] # "connect"
                           /\ \A u \in Threads : tcon[u] # d
                           /\ Removed(d)' \/ cpc[d] = "failed"
                      /\ Removed(d)' /\ (\A u \in Threads : tcon[u] # d) => d \in srvClosed'
    <3>1. UNCHANGED <<backlog, cpc, tcon>>
      BY <1>0 DEF clientVars
    <3> QED
      BY <3>1 DEF Closed, InBacklog
  <2>1. PICK table : table = [fdTable EXCEPT ![tfd[t]] = NoClient]
    OBVIOUS
  <2>2. NewReferences(table, tcon) /\ d # NoClient /\ fdTable' = table
    BY <2>1, NetAssumption DEF CloseFd, NewReferences
  <2>3. d \in srvClosed' <=>
          \/ d \in srvClosed
          \/ /\ InTable(d) \/ \E u \in Threads : tcon[u] = d
             /\ ~InTable(d)' /\ \A u \in Threads : tcon[u] # d
    BY <2>2 DEF NewReferences, Held, InTable
  <2>4. Removed(d) => ~InTable(d)
    BY DEF Removed
  <2>5. CASE d \in srvClosed
    BY <1>0, <2>3, <2>4, <2>5 DEF Closed
  <2>6. CASE d \notin srvClosed /\ d \in srvClosed'
    <3>1. d = c /\ \A u \in Threads : tcon[u] # d
      BY <1>0, <2>3, <2>6
    <3>2. ~InBacklog(c) /\ cpc[c] # "connect"
      BY <1>0 DEF Placed, InBacklog
    <3>3. ~InTable(c)' /\ (Removed(c)' \/ cpc[c] = "failed")
      BY <1>0
    <3> QED
      BY <2>6, <3>1, <3>2, <3>3
  <2>7. CASE d \notin srvClosed /\ d \notin srvClosed'
    BY <1>0, <2>3, <2>7 DEF Closed
  <2> QED
    BY <2>5, <2>6, <2>7
<1>6. Counted'
  <2>1. CASE tpc[t] = "abort"
    BY <1>0, <2>1 DEF Counted
  <2>2. CASE tpc[t] = "close" /\ \E u \in Threads : tpc[u] = "exit"
    BY <1>0, <2>2 DEF Counted
  <2>3. CASE tpc[t] = "close" /\ \A u \in Threads : tpc[u] # "exit"
    <3>1. Accepted' = Accepted
      BY <1>0, <2>3 DEF Accepted
    <3>2. RemovedOnes' = RemovedOnes \cup {c} /\ c \notin RemovedOnes
      BY <1>0, <2>3 DEF RemovedOnes, Removed
    <3>3. DoneThreads' = DoneThreads \cup {t} /\ t \notin DoneThreads
      BY <1>0, <2>3 DEF DoneThreads
    <3>4. IsFiniteSet(RemovedOnes) /\ IsFiniteSet(DoneThreads)
      BY ThreadsAreFinite, FS_Subset DEF RemovedOnes, DoneThreads
    <3>5. /\ Cardinality(RemovedOnes \cup {c}) = Cardinality(RemovedOnes) + 1
          /\ Cardinality(DoneThreads \cup {t}) = Cardinality(DoneThreads) + 1
      BY <3>2, <3>3, <3>4, FS_AddElement
    <3>6. Cardinality(RemovedOnes') = Cardinality(DoneThreads')
      BY <2>3, <3>2, <3>3, <3>5 DEF Counted
    <3> QED
      BY <1>0, <2>3, <3>1, <3>6 DEF Counted, mainVars
  <2> QED
    BY <1>0, <2>1, <2>2, <2>3
<1>7. Conversing'
  <2> SUFFICES ASSUME NEW d \in Clients PROVE \E k : (Stage(d, k) /\ Staffed(d, k))'
    BY DEF Conversing
  <2>1. ~Partner(t, d)'
    BY <1>1 DEF Partner
  <2>2. CASE ~Partner(t, d)
    <3>1. \A u \in Threads : Partner(u, d)' <=> Partner(u, d)
      BY <1>2, <2>1, <2>2
    <3>2. \A u \in Threads : Partner(u, d) => ty'[u] = ty[u] /\ tpc'[u] = tpc[u]
      BY <1>0, <2>2
    <3> QED
      BY <1>0, <3>1, <3>2, ConversationKept
  <2>3. CASE Partner(t, d)
    <3>1. d = c /\ tpc[t] = "close"
      BY <1>0, <2>3 DEF Partner, Engaged
    <3>2. NoPartner(c)'
      BY <1>0, <1>2, <2>1, <3>1 DEF Lone, NoPartner
    <3>3. Stage(c, "finished")'
      BY <1>0, <3>1, LeftAlone DEF Stage
    <3>4. Staffed(c, "finished")'
      BY <3>2 DEF Staffed, Rivals, NoPartner
    <3> QED
      BY <3>1, <3>3, <3>4
  <2> QED
    BY <2>2, <2>3
<1>8. paced => Paced'
  <2> SUFFICES ASSUME paced PROVE Paced'
    OBVIOUS
  <2>1. Serving(t) /\ ~Serving(t)' /\ \A u \in Threads : u # t => (Serving(u)' <=> Serving(u))
    BY <1>0, <1>1 DEF Serving
  <2>2. \A u \in Threads : u # t /\ Serving(u) => tfd[u] # f /\ tfd[u] \in Fds
    BY <1>0, <2>1, ThreadFacts DEF Serving
  <2>3. HandedOver => HandedOver'
    <3> SUFFICES ASSUME HandedOver PROVE HandedOver'
      OBVIOUS
    <3>1. newS # f /\ fdTable[newS] # NoClient
      BY <1>0, <2>1 DEF HandedOver
    <3>2. newS \in Fds => fdTable'[newS] # NoClient
      BY <1>0, <3>1
    <3>3. newS \in Fds
      <4>1. Sane(t) /\ t \in Nat \ {0} /\ nthreads \in Nat
        BY ThreadsAreFinite DEF Basics, TypeOK
      <4>2. nthreads > 0
        BY <1>0, <4>1 DEF Sane
      <4> QED
        BY <4>2 DEF Basics, MainHolds
    <3> QED
      BY <1>0, <2>1, <3>2, <3>3 DEF HandedOver, mainVars
  <2>4. \A u \in Threads : tpc'[u] = "start" <=> tpc[u] = "start"
    BY <1>0, <1>1
  <2>5. ASSUME NEW u \in Threads, Serving(u)'
        PROVE  /\ fdTable'[tfd'[u]] # NoClient
               /\ tcon'[u] \in {NoClient, fdTable'[tfd'[u]]}
               /\ \A v \in Threads : Serving(v)' /\ tfd'[v] = tfd'[u] => v = u
    <3>1. u # t /\ Serving(u) /\ fdTable'[tfd[u]] = fdTable[tfd[u]]
      BY <1>0, <2>1, <2>2, <2>5
    <3> QED
      BY <1>0, <2>1, <3>1 DEF PacedInv, Paced
  <2> QED
    BY <1>0, <2>3, <2>4, <2>5 DEF PacedInv, Paced, mainVars
<1>9. paced => Leaving'
  <2> SUFFICES ASSUME paced PROVE Leaving'
    OBVIOUS
  <2>1. \A u \in Threads : tpc'[u] = "abort" => tpc[u] = "abort" /\ fdTable'[tfd'[u]] = fdTable[tfd[u]]
    <3>1. \A u \in Threads : tpc'[u] = "abort" => u # t /\ tpc[u] = "abort" /\ Serving(u)
      BY <1>0, <1>1 DEF Serving
    <3>2. \A u \in Threads : tpc[u] = "abort" => tfd[u] \in Fds
      BY ThreadFacts
    <3> QED
      BY <1>0, <3>1, <3>2
  <2>2. \A u \in Threads : \A d \in Clients : Partner(u, d) /\ tpc[u] = "close" /\ InTable(d)' =>
          Partner(u, d)' /\ tpc'[u] = "close"
    <3>1. \A d \in Clients : Partner(t, d) => d = c
      BY <1>0 DEF Partner
    <3> QED
      BY <1>0, <1>2, <3>1
  <2>3. \A u \in Threads : tpc'[u] = "exit" =>
          tpc[u] = "exit" \/ \E d \in Clients : cpc'[d] = "failed"
    BY <1>0 DEF clientVars
  <2>4. \A d \in Clients : InTable(d)' /\ Len(printed'[d]) = 2 => InTable(d) /\ Len(printed[d]) = 2
    BY <1>0
  <2>5. UNCHANGED cpc
    BY <1>0 DEF clientVars
  <2> QED
    BY <2>1, <2>2, <2>3, <2>4, <2>5, LeavingKept DEF PacedInv
<1> QED
  BY <1>3, <1>4, <1>5, <1>6, <1>7, <1>8, <1>9 DEF PacedInv

-----------------------------------------------------------------------------

(* The invariant as a whole. *)

\* A thread that has closed its descriptor on an error goes nowhere but to exit(1).
LEMMA ExitStays ==
    ASSUME Inv, Next, NEW t \in Threads, tpc[t] = "exit"
    PROVE  tpc'[t] = "exit"
<1> USE DEF Inv
<1>1. CASE Main
  <2>1. CASE CreateThread
    <3>1. nthreads + 1 \in Threads /\ tpc[nthreads + 1] = "unborn"
      BY <2>1, RoomForThread DEF CreateThread, Threads, Basics, Sane, TypeOK
    <3> QED
      BY <2>1, <3>1 DEF CreateThread, ThreadGoto, TypeOK
  <2> QED
    BY <1>1, <2>1 DEF Main, CallAccept, Accept, threadVars
<1>2. ASSUME NEW u \in Threads, Thread(u) PROVE tpc'[t] = "exit"
  BY <1>2 DEF Thread, Start, CallRecv, HungUp, RecvX, SendY, RecvZ, CloseFd, ExitAll, ThreadGoto,
              TypeOK, threadVars
<1>3. ASSUME NEW c \in Clients, Client(c) \/ (Kill(c) /\ UNCHANGED serverVars) PROVE tpc'[t] = "exit"
  BY <1>3 DEF Client, serverVars, threadVars
<1>4. CASE Idle
  BY <1>4 DEF Idle, vars, serverVars, threadVars
<1> QED
  BY <1>1, <1>2, <1>3, <1>4 DEF Next

LEMMA PacedNever == Next => paced' = paced
BY DEF Next, Main, Thread, Client, Idle, vars, serverVars

LEMMA MainKeeps ==
    ASSUME Inv, InOrder, Main
    PROVE  up' /\ ServerInv' /\ (paced' => PacedInv')
<1>1. CASE CallAccept
  BY <1>1, CallAcceptKeeps DEF Main, CallAccept, netVars
<1>2. CASE Accept
  BY <1>2, AcceptKeeps DEF Main, Accept
<1>3. CASE CreateThread
  BY <1>3, CreateThreadKeeps DEF Main, CreateThread, netVars
<1> QED
  BY <1>1, <1>2, <1>3 DEF Main

LEMMA ThreadKeeps ==
    ASSUME Inv, InOrder, NEW t \in Threads, Thread(t)
    PROVE  /\ up' /\ InOrder' => ServerInv' /\ (paced' => PacedInv')
           /\ ~up' => paced /\ \A c \in Clients : Leftover(c)'
<1>0. up /\ UNCHANGED paced
  BY DEF Thread
<1>1. CASE Start(t)
  BY <1>0, <1>1, StartKeeps DEF Start, netVars
<1>2. CASE CallRecv(t)
  BY <1>0, <1>2, CallRecvKeeps DEF CallRecv, netVars
<1>3. CASE HungUp(t)
  BY <1>0, <1>3, HungUpKeeps DEF HungUp
<1>4. CASE RecvX(t)
  BY <1>0, <1>4, RecvXKeeps DEF RecvX
<1>5. CASE SendY(t)
  BY <1>0, <1>5, SendYKeeps DEF SendY
<1>6. CASE RecvZ(t)
  BY <1>0, <1>6, RecvZKeeps DEF RecvZ
<1>7. CASE CloseFd(t)
  <2>1. CASE tpc[t] = "close" \/ paced
    BY <1>0, <1>7, <2>1, CloseFdKeeps DEF CloseFd
  <2>2. CASE tpc[t] # "close" /\ ~paced
    BY <1>0, <1>7, <2>2 DEF CloseFd, ThreadGoto, InOrder, Inv, TypeOK
  <2> QED
    BY <2>1, <2>2
<1>8. CASE ExitAll(t)
  <2>1. paced /\ ~up'
    BY <1>8 DEF ExitAll, InOrder, Exit
  <2>2. \A c \in Clients : Leftover(c)'
    BY <1>0, <1>8, StagesLeave, LeftAlone DEF ExitAll, Inv, ServerInv
  <2> QED
    BY <2>1, <2>2
<1> QED
  BY <1>1, <1>2, <1>3, <1>4, <1>5, <1>6, <1>7, <1>8 DEF Thread

LEMMA Unmoved ==
    ASSUME Inv, UNCHANGED vars
    PROVE  Inv'
<1> USE DEF vars, netVars, serverVars, mainVars, threadVars
<1>1. TypeOK'
  BY DEF Inv, TypeOK, NetTypeOK
<1>2. \A c : /\ InTable(c)' <=> InTable(c)
             /\ Removed(c)' <=> Removed(c)
             /\ Unread(c)' <=> Unread(c)
             /\ InBacklog(c)' <=> InBacklog(c)
             /\ \A k : Stage(c, k) => Stage(c, k)'
             /\ Leftover(c) => Leftover(c)'
             /\ \A t : Partner(t, c)' <=> Partner(t, c)
  BY DEF InTable, Removed, Unread, InBacklog, Stage, Asked, Answered, Finished, Leftover, Partner, Engaged, Y, Z, Wrap
<1>3. Basics => Basics'
  <2>1. Unaccepted' = Unaccepted
    BY <1>2 DEF Unaccepted
  <2> QED
    BY <2>1 DEF Basics, Sane, MainHolds, Queued, Room
<1>4. ServerInv => ServerInv'
  <2>1. ThreadsHold /\ Closed => ThreadsHold' /\ Closed'
    BY <1>2 DEF ThreadsHold, ThreadHolds, Sane, Closed, Engaged
  <2>2. Placed => Placed'
    BY <1>2 DEF Placed, Unread, InTable
  <2>3. Counted => Counted'
    <3>1. Accepted' = Accepted /\ RemovedOnes' = RemovedOnes /\ DoneThreads' = DoneThreads
      BY <1>2 DEF Accepted, RemovedOnes, DoneThreads
    <3> QED
      BY <3>1 DEF Counted
  <2>4. Conversing => Conversing'
    BY <1>2, ConversationKept DEF Conversing, clientVars
  <2> QED
    BY <2>1, <2>2, <2>3, <2>4 DEF ServerInv
<1>5. PacedInv => PacedInv'
  <2>1. Paced => Paced'
    BY PacedKept DEF Serving
  <2>2. Leaving => Leaving'
    BY <1>2 DEF Leaving
  <2> QED
    BY <2>1, <2>2 DEF PacedInv
<1>6. InOrder' <=> InOrder
  BY DEF InOrder
<1> QED
  BY <1>1, <1>2, <1>3, <1>4, <1>5, <1>6 DEF Inv

LEMMA InvStep == Inv /\ [Next]_vars => Inv'
<1>1. ASSUME Inv, Next PROVE Inv'
  <2>0. TypeOK' /\ Basics' /\ paced' = paced
    BY <1>1, TypeStep, BasicsStep, PacedNever
  <2>1. CASE ~InOrder
    <3>1. ~paced /\ \E t \in Threads : tpc'[t] = "exit"
      BY <1>1, <2>1, ExitStays DEF InOrder
    <3> QED
      BY <2>0, <3>1 DEF Inv, InOrder
  <2>2. CASE InOrder
    <3>1. ASSUME NEW c \in Clients, Client(c) \/ (Kill(c) /\ UNCHANGED serverVars) PROVE Inv'
      <4>1. up' = up
        BY <1>1, <3>1, ClientChanges DEF Inv
      <4>2. CASE up
        BY <1>1, <2>0, <2>2, <3>1, <4>1, <4>2, ClientKeeps DEF Inv
      <4>3. CASE ~up
        <5>1. paced
          BY <1>1, <2>2, <4>3 DEF Inv, InOrder
        <5>2. Connect(c) \/ ClientStep(c) \/ Kill(c)
          BY <3>1 DEF Client
        <5>3. \A d \in Clients : Leftover(d)'
          BY <1>1, <4>3, <5>1, <5>2, ClientWindsUp, OthersStay DEF Inv, TypeOK
        <5> QED
          BY <2>0, <4>1, <4>3, <5>1, <5>3 DEF Inv
      <4> QED
        BY <4>2, <4>3
    <3>2. CASE Main
      BY <1>1, <2>0, <2>2, <3>2, MainKeeps DEF Inv
    <3>3. ASSUME NEW t \in Threads, Thread(t) PROVE Inv'
      <4>1. paced' => InOrder'
        BY DEF InOrder
      <4> QED
        BY <1>1, <2>0, <2>2, <3>3, <4>1, ThreadKeeps DEF Inv
    <3>4. CASE Idle
      BY <1>1, <3>4, Unmoved DEF Idle
    <3> QED
      BY <1>1, <3>1, <3>2, <3>3, <3>4 DEF Next
  <2> QED
    BY <2>1, <2>2
<1>2. ASSUME Inv, UNCHANGED vars PROVE Inv'
  BY <1>2, Unmoved
<1> QED
  BY <1>1, <1>2

LEMMA Invariance == Spec => []Inv
  BY InitInv, InvStep, PTL DEF Spec

-----------------------------------------------------------------------------

\* The variables of main, its threads, the descriptors and the connections keep
\* their types; in particular there are never more threads than connections.
THEOREM TypeCorrect == Spec => []TypeOK
<1>1. Inv => TypeOK
  BY DEF Inv
<1> QED
  BY <1>1, Invariance, PTL

\* With clients that tcp.sh paces, each thread has a descriptor and a connection
\* to itself until it closes it, although it is handed the address of new_s.
THEOREM OneThreadEach == Spec => []OneThreadPerConnection
<1>1. Inv => OneThreadPerConnection
  BY DEF Inv, PacedInv, Paced, OneThreadPerConnection
<1> QED
  BY <1>1, Invariance, PTL

\* Also with threads that share a descriptor, recv() never meets two messages at
\* once, in either direction, as long as no thread has closed what may be another's.
THEOREM OneInFlight == Spec => [](InOrder => AtMostOneInFlight)
<1>1. Inv /\ InOrder => AtMostOneInFlight
  <2> SUFFICES ASSUME Inv, InOrder PROVE AtMostOneInFlight
    OBVIOUS
  <2>1. \A c \in Clients : Leftover(c)
    BY StagesLeave DEF Inv, ServerInv, InOrder
  <2> QED
    BY <2>1 DEF Leftover, AtMostOneInFlight
<1> QED
  BY <1>1, Invariance, PTL

\* No connection is lost silently: when the server is quiet, every connection it
\* took has had both messages printed and been closed, whoever served it.
THEOREM QuietServed == Spec => []QuietMeansServed
<1>1. ASSUME Inv, up, mpc # "create", ThreadsFinished, NEW c \in Clients,
             cpc[c] \notin {"connect", "failed"}, ~InBacklog(c)
      PROVE  Len(printed[c]) = 2 /\ c \in srvClosed
  <2> USE <1>1 DEF Inv
  <2>0. InOrder /\ ServerInv /\ \A t \in Threads : tpc[t] # "exit"
    BY DEF ThreadsFinished, InOrder
  <2>1. DoneThreads = 1 .. nthreads
    BY ThreadsAreFinite DEF DoneThreads, ThreadsFinished, Basics, Sane, Threads, TypeOK
  <2>2. Cardinality(DoneThreads) = nthreads
    <3>1. nthreads \in Nat
      BY ThreadsAreFinite DEF TypeOK
    <3> QED
      BY <2>1, <3>1, FS_Interval
  <2>3. Accepted = RemovedOnes
    <3>1. RemovedOnes \subseteq Accepted /\ IsFiniteSet(Accepted)
      BY ThreadsAreFinite, FS_Subset DEF Accepted, RemovedOnes
    <3>2. Cardinality(Accepted) = Cardinality(RemovedOnes)
      BY <1>1, <2>0, <2>2, ThreadsAreFinite DEF ServerInv, Counted, TypeOK
    <3> QED
      BY <3>1, <3>2, FS_Subset
  <2>4. Removed(c)
    BY <2>0, <2>3 DEF ServerInv, Placed, Accepted, RemovedOnes
  <2>5. \A t \in Threads : tcon[t] = NoClient
    BY ThreadFacts DEF ThreadsFinished
  <2>6. c \in srvClosed
    BY <2>0, <2>4, <2>5, NetAssumption DEF ServerInv, Closed
  <2> QED
    BY <2>4, <2>6 DEF Removed
<1>2. Inv => QuietMeansServed
  BY <1>1 DEF QuietMeansServed
<1> QED
  BY <1>2, Invariance, PTL

-----------------------------------------------------------------------------
(***************************************************************************)
(* The refinement of HandshakeService.  In order, the threaded server      *)
(* takes the steps of the steady service.  Unpaced, a thread that closes   *)
(* its descriptor on an error is the end of that.                          *)
(***************************************************************************)

LEMMA InitRefines == Init => ThreadedService!Init
<1> SUFFICES ASSUME Init PROVE ThreadedService!Init
  OBVIOUS
<1>1. \A c \in Clients : Outcome(c) = "running"
  BY OutcomeIs DEF Init, NetInit
<1>2. up /\ InOrder
  BY DEF Init, NetInit, InOrder
<1> QED
  BY <1>1, <1>2 DEF Init, NetInit, ThreadedService!Init

\* What a thread takes for X is X, or Z.
LEMMA RecvXRefines ==
    ASSUME Inv, up, InOrder, NEW t \in Threads, RecvX(t)
    PROVE  Service!Next
<1> USE DEF Inv, ServerInv
<1>0. PICK c : c = tcon[t]
  OBVIOUS
<1>1. /\ tpc[t] = "inX" /\ toServer[c] # << >> /\ Fputs(c, Received(c))
      /\ UNCHANGED <<cpc, xNum, up>>
  BY <1>0 DEF RecvX, clientVars
<1>2. c \in Clients
  BY <1>0, <1>1, ReceivesFrom
<1>3. Unread(c) \/ Answered(c)
  BY <1>1, <1>2 DEF Conversing, Stage, Asked, Finished
<1> QED
  BY <1>1, <1>2, <1>3, PrintsX, PrintsZ DEF TypeOK

\* As long as things are in order, the steps are those of the steady service.
LEMMA SteadyStep ==
    ASSUME Inv, Next, InOrder, InOrder'
    PROVE  Service!Next \/ UNCHANGED Service!vars
<1>1. ASSUME NEW c \in Clients, Client(c) \/ (Kill(c) /\ UNCHANGED serverVars)
      PROVE  Service!Next \/ UNCHANGED Service!vars
  <2>0. (Connect(c) \/ ClientStep(c) \/ Kill(c)) /\ cpc[c] # "failed"
    BY <1>1, ClientChanges DEF Inv
  <2>1. CASE up
    <3>1. PICK k : Stage(c, k) /\ Staffed(c, k)
      BY <2>1 DEF Inv, ServerInv, Conversing
    <3>2. c \in srvClosed => k = "finished"
      BY <2>0, <2>1, <3>1, RemovedFinished DEF Inv, ServerInv, Closed
    <3> QED
      BY <2>0, <2>1, <3>1, <3>2, ClientRefines DEF Inv, TypeOK
  <2>2. CASE ~up
    <3>1. Leftover(c)
      BY <2>2 DEF Inv, InOrder
    <3> QED
      BY <2>0, <2>2, <3>1, ClientRefines DEF Inv, TypeOK
  <2> QED
    BY <2>1, <2>2
<1>2. CASE Main
  BY <1>2, Stutters DEF Main, CallAccept, Accept, CreateThread, netVars, clientVars
<1>3. ASSUME NEW t \in Threads, Thread(t)
      PROVE  Service!Next \/ UNCHANGED Service!vars
  <2>0. up
    BY <1>3 DEF Thread
  <2>1. CASE Start(t) \/ CallRecv(t) \/ HungUp(t) \/ SendY(t) \/ CloseFd(t)
    BY <2>1, Stutters DEF Start, CallRecv, HungUp, SendY, CloseFd, netVars, clientVars
  <2>2. CASE RecvX(t)
    BY <2>0, <2>2, RecvXRefines
  <2>3. CASE RecvZ(t)
    <3>1. PICK c : c = tcon[t]
      OBVIOUS
    <3>2. c \in Clients /\ Answered(c) /\ Received(c) = Wrap(ty[t] + 1)
      BY <2>0, <2>3, <3>1, RecvZMeetsZ DEF RecvZ
    <3> QED
      BY <2>0, <2>3, <3>1, <3>2, PrintsZ DEF RecvZ, clientVars, Inv, TypeOK
  <2>4. CASE ExitAll(t)
    <3>1. \E c \in Clients : cpc[c] = "failed"
      BY <2>0, <2>4 DEF ExitAll, InOrder, Inv, PacedInv, Leaving
    <3>2. \E c \in Clients : Outcomes[c] = "failed"
      BY <3>1, OutcomesSay
    <3>3. Service!ServerExits
      BY <2>0, <2>4, <3>2 DEF ExitAll, Exit, clientVars, Service!ServerExits, Outcomes, Outcome
    <3> QED
      BY <3>3 DEF Service!Next
  <2> QED
    BY <1>3, <2>1, <2>2, <2>3, <2>4 DEF Thread
<1>4. CASE Idle
  BY <1>4, Stutters DEF Idle, vars, netVars
<1> QED
  BY <1>1, <1>2, <1>3, <1>4 DEF Next

\* As long as things are in order, the steady service's steps are the threaded one's.
LEMMA SteadyIsThreaded ==
    ASSUME UNCHANGED paced, InOrder, InOrder'
    PROVE  /\ Service!Next => ThreadedService!Next
           /\ UNCHANGED Service!vars => UNCHANGED ThreadedService!vars
<1>0. /\ up' = up => (up /\ InOrder)' = (up /\ InOrder)
      /\ up' = FALSE => (up /\ InOrder)' = FALSE
      /\ up => up /\ InOrder
      /\ ~up => ~(up /\ InOrder)
      /\ (~paced)' = ~paced
  OBVIOUS
<1>1. Service!ServerExits => ThreadedService!ServerExits
  BY <1>0 DEF Service!ServerExits, ThreadedService!ServerExits
<1>2. ASSUME NEW c \in Clients,
             \/ Service!PrintFirst(c) \/ Service!PrintSecond(c) \/ Service!PrintForDead(c)
             \/ Service!LastWords(c) \/ Service!ClientEnds(c) \/ Service!ClientFails(c)
      PROVE  \/ ThreadedService!PrintFirst(c) \/ ThreadedService!PrintSecond(c)
             \/ ThreadedService!PrintForDead(c)
             \/ ThreadedService!ClientEnds(c) \/ ThreadedService!ClientFails(c)
  <2>1. CASE Service!PrintFirst(c)
    BY <1>0, <2>1 DEF Service!PrintFirst, Service!Fputs, ThreadedService!PrintFirst, ThreadedService!Fputs
  <2>2. CASE Service!PrintSecond(c)
    BY <1>0, <2>2 DEF Service!PrintSecond, Service!Fputs, Service!Wrap,
          ThreadedService!PrintSecond, ThreadedService!Fputs, ThreadedService!Wrap
  <2>3. CASE Service!PrintForDead(c)
    BY <1>0, <2>3 DEF Service!PrintForDead, Service!Fputs, Service!CInt,
          ThreadedService!PrintForDead, ThreadedService!Fputs, ThreadedService!CInt
  <2>4. CASE Service!ClientEnds(c)
    BY <1>0, <2>4 DEF Service!ClientEnds, ThreadedService!ClientEnds
  <2>5. CASE Service!ClientFails(c)
    BY <1>0, <2>5 DEF Service!ClientFails, ThreadedService!ClientFails
  <2> QED
    BY <1>2, <2>1, <2>2, <2>3, <2>4, <2>5 DEF Service!LastWords
<1>3. UNCHANGED Service!vars => UNCHANGED ThreadedService!vars
  BY <1>0 DEF Service!vars, ThreadedService!vars
<1> QED
  BY <1>1, <1>2, <1>3 DEF Service!Next, ThreadedService!Next

\* A close() on an error, unpaced, is where the service breaks down.
LEMMA BreaksDown ==
    ASSUME Inv, Next, InOrder, ~InOrder'
    PROVE  ThreadedService!ServerExits
<1>0. ~paced /\ UNCHANGED paced
  BY PacedNever DEF InOrder
<1>1. PICK t \in Threads : tpc'[t] = "exit" /\ tpc[t] # "exit"
  BY <1>0 DEF InOrder
<1>2. \E u \in Threads : Thread(u) /\ CloseFd(u)
  <2>1. ~Main
    BY <1>1 DEF Main, CallAccept, Accept, CreateThread, ThreadGoto, Inv, TypeOK, threadVars
  <2>2. \A c \in Clients : ~Client(c) /\ ~(Kill(c) /\ UNCHANGED serverVars)
    BY <1>1 DEF Client, serverVars, threadVars
  <2>3. ASSUME NEW u \in Threads, Thread(u) PROVE CloseFd(u)
    BY <1>1, <2>3 DEF Thread, Start, CallRecv, HungUp, RecvX, SendY, RecvZ, ExitAll, ThreadGoto,
          Inv, TypeOK, threadVars
  <2>4. ~Idle
    BY <1>1 DEF Idle, vars, serverVars, threadVars
  <2> QED
    BY <2>1, <2>2, <2>3, <2>4 DEF Next
<1>3. up /\ UNCHANGED <<cpc, xNum, printed>>
  BY <1>2 DEF Thread, CloseFd, clientVars
<1>4. (up /\ InOrder) /\ (up /\ InOrder)' = FALSE /\ (~paced)' = ~paced
  BY <1>0, <1>3
<1> QED
  BY <1>0, <1>3, <1>4 DEF ThreadedService!ServerExits, Outcome

\* After that, until exit(1), threads print and clients end as chance has it.
LEMMA BrokenDown ==
    ASSUME Inv, Next, ~InOrder
    PROVE  ThreadedService!Next \/ UNCHANGED ThreadedService!vars
<1>0. /\ ~paced /\ UNCHANGED paced /\ ~(up /\ InOrder)
      /\ (up /\ InOrder)' = (up /\ InOrder) /\ (~paced)' = ~paced
  <2>1. ~InOrder'
    BY ExitStays, PacedNever DEF InOrder
  <2> QED
    BY <2>1, PacedNever DEF InOrder
<1>1. UNCHANGED <<cpc, xNum, printed>> => UNCHANGED ThreadedService!vars
  BY <1>0 DEF ThreadedService!vars, Outcome
<1>2. ASSUME NEW c \in Clients, Client(c) \/ (Kill(c) /\ UNCHANGED serverVars)
      PROVE  ThreadedService!Next \/ UNCHANGED ThreadedService!vars
  <2>0. (Connect(c) \/ ClientStep(c) \/ Kill(c)) /\ cpc[c] # "failed" /\ NetTypeOK
    BY <1>2, ClientChanges DEF Inv, TypeOK
  <2>1. /\ UNCHANGED <<xNum, printed>>
        /\ Outcomes' = [Outcomes EXCEPT ![c] = Outcome(c)']
    BY <2>0, OutcomeChanges
  <2>2. Outcome(c) = "running"
    BY <2>0, OutcomeIs DEF Connect, ClientStep, SendX, RecvY, SendZ, Close, Kill, Ended
  <2>3. CASE cpc'[c] = "done"
    <3>1. Outcomes' = [Outcomes EXCEPT ![c] = "ok"]
      BY <2>1, <2>3, OutcomeNext
    <3>2. ThreadedService!ClientEnds(c)
      BY <1>0, <2>1, <2>2, <3>1 DEF ThreadedService!ClientEnds, Outcomes
    <3> QED
      BY <3>2 DEF ThreadedService!Next
  <2>4. CASE cpc'[c] = "failed"
    <3>1. Outcomes' = [Outcomes EXCEPT ![c] = "failed"]
      BY <2>1, <2>4, OutcomeNext
    <3>2. ThreadedService!ClientFails(c)
      BY <1>0, <2>1, <2>2, <3>1 DEF ThreadedService!ClientFails, Outcomes
    <3> QED
      BY <3>2 DEF ThreadedService!Next
  <2>5. CASE cpc'[c] \notin {"done", "failed"}
    <3>1. Outcome(c)' = Outcome(c)
      BY <2>2, <2>5, OutcomeNext
    <3>2. Outcomes' = Outcomes
      BY <2>1, <3>1 DEF Outcomes
    <3> QED
      BY <1>0, <2>1, <3>2 DEF ThreadedService!vars, Outcomes
  <2> QED
    BY <2>3, <2>4, <2>5
<1>3. CASE Main
  BY <1>1, <1>3 DEF Main, CallAccept, Accept, CreateThread, netVars, clientVars
<1>4. ASSUME NEW t \in Threads, Thread(t)
      PROVE  ThreadedService!Next \/ UNCHANGED ThreadedService!vars
  <2>1. CASE Start(t) \/ CallRecv(t) \/ HungUp(t) \/ SendY(t) \/ CloseFd(t) \/ ExitAll(t)
    BY <1>1, <2>1 DEF Start, CallRecv, HungUp, SendY, CloseFd, ExitAll, netVars, clientVars
  <2>2. CASE RecvX(t) \/ RecvZ(t)
    <3>0. PICK c : c = tcon[t]
      OBVIOUS
    <3>1. /\ c \in Clients /\ toServer[c] # << >> /\ UNCHANGED <<cpc, xNum>>
          /\ Fputs(c, Received(c)) \/ printed' = printed
      BY <2>2, <3>0, ThreadFacts DEF RecvX, RecvZ, clientVars, Inv
    <3>2. CASE printed' = printed
      BY <1>1, <3>1, <3>2
    <3>3. CASE Fputs(c, Received(c))
      <4>1. Received(c) \in ThreadedService!CInt
        BY <3>1, ReceivedTypes DEF Inv, TypeOK, CInt, ThreadedService!CInt
      <4>2. ThreadedService!Fputs(c, Received(c))
        BY <3>3 DEF Fputs, ThreadedService!Fputs
      <4>3. ThreadedService!LastWords(c)
        BY <1>0, <3>1, <4>1, <4>2 DEF ThreadedService!LastWords, Outcome
      <4> QED
        BY <3>1, <4>3 DEF ThreadedService!Next
    <3> QED
      BY <3>1, <3>2, <3>3
  <2> QED
    BY <1>4, <2>1, <2>2 DEF Thread
<1>5. CASE Idle
  BY <1>1, <1>5 DEF Idle, vars, netVars
<1> QED
  BY <1>2, <1>3, <1>4, <1>5 DEF Next

LEMMA StepRefines == Inv /\ [Next]_vars => ThreadedService!Next \/ UNCHANGED ThreadedService!vars
<1>1. ASSUME Inv, Next PROVE ThreadedService!Next \/ UNCHANGED ThreadedService!vars
  <2>1. CASE InOrder /\ InOrder'
    BY <1>1, <2>1, SteadyStep, SteadyIsThreaded, PacedNever
  <2>2. CASE InOrder /\ ~InOrder'
    BY <1>1, <2>2, BreaksDown DEF ThreadedService!Next
  <2>3. CASE ~InOrder
    BY <1>1, <2>3, BrokenDown
  <2> QED
    BY <2>1, <2>2, <2>3
<1>2. ASSUME UNCHANGED vars PROVE UNCHANGED ThreadedService!vars
  <2>1. UNCHANGED <<cpc, xNum, printed, up, paced, tpc>>
    BY <1>2 DEF vars, netVars, serverVars, threadVars
  <2> QED
    BY <2>1 DEF ThreadedService!vars, Outcome, InOrder
<1> QED
  BY <1>1, <1>2

\* The threaded server keeps the promise of HandshakeService for every INT_MAX: paced,
\* without a reservation; unpaced, until a thread that met an error closes its
\* descriptor, a number that may be somebody else's by then.
THEOREM Refinement == Spec => ThreadedServiceSpec
<1>1. Inv /\ [Next]_vars => [ThreadedService!Next]_ThreadedService!vars
  BY StepRefines
<1> QED
  BY <1>1, InitRefines, Invariance, PTL DEF Spec, ThreadedServiceSpec, ThreadedService!Spec

\* What the clients of the threaded server can rely on.  Paced, all that the others'
\* can, and that it ends only if somebody is killed.  Unpaced, until a thread closes its
\* descriptor on an error: the numbers printed for a client are its own, in order, and
\* no client that is not killed fails before the server is gone.
THEOREM ServesItsClients == Spec => []((InOrder => ClientsServed) /\ (paced => DownForAKill))
<1> DEFINE Served == (InOrder => ClientsServed) /\ (paced => DownForAKill)
<1>1. Init => Served
  BY StartsServed DEF Init
<1>2. ASSUME Inv, Served, Next PROVE Served'
  <2>1. NetTypeOK /\ paced' = paced
    BY <1>2, PacedNever DEF Inv, TypeOK
  <2>2. InOrder' => InOrder
    BY <1>2, <2>1, ExitStays DEF InOrder
  <2>3. paced' => InOrder /\ InOrder'
    BY <2>1 DEF InOrder
  <2>4. ASSUME InOrder' PROVE ClientsServed' /\ (DownForAKill => DownForAKill')
    BY <1>2, <2>1, <2>2, <2>4, SteadyStep, ServiceServes, StutterServes
  <2> QED
    BY <1>2, <2>1, <2>3, <2>4
<1>3. ASSUME Served, UNCHANGED vars PROVE Served'
  <2>1. UNCHANGED <<cpc, xNum, printed, up, paced, tpc>>
    BY <1>3 DEF vars, netVars, serverVars, threadVars
  <2>2. UNCHANGED Service!vars /\ (InOrder' <=> InOrder)
    BY <2>1, Stutters DEF InOrder
  <2> QED
    BY <1>3, <2>1, <2>2, StutterServes
<1> QED
  BY <1>1, <1>2, <1>3, Invariance, PTL DEF Spec

=============================================================================
