---------------------------- MODULE AsyncServer -----------------------------
(***************************************************************************)
(* project3c/async-tcpserver.c: one process that waits in select() for the *)
(* listener and all its connections, and then scans its connection table.  *)
(*                                                                         *)
(* The table is three arrays of MAX_PENDING ints, new_sockets,             *)
(* handshake_flags and handshake_xNums, which the build of project3c lays  *)
(* out one after the other.  new_sockets_i is only ever incremented, so    *)
(* the connection accepted after MAX_PENDING others is stored past the end *)
(* of new_sockets: into the other two arrays.  The three arrays are        *)
(* therefore one function, frame.                                          *)
(***************************************************************************)
EXTENDS HandshakeNet

CONSTANT
    Junk    \* what uninitialised memory may hold

ASSUME AsyncAssumption ==
    /\ Junk \subseteq CInt /\ Junk # {}
    /\ IsFiniteSet(Clients)
    /\ Cardinality(Clients) <= 3 * MaxPending  \* nothing is stored past the frame

VARIABLES
    spc,        \* where the server is: select, accept or scan
    fdTable,    \* fdTable[fd]: the connection open as fd
    rfds,       \* the descriptors to wait for
    ready,      \* temp_rfds: those select() found ready
    maxfd,
    frame,      \* new_sockets, handshake_flags and handshake_xNums
    slotI,      \* new_sockets_i
    i           \* the index of the scan

serverVars == <<spc, fdTable, rfds, ready, maxfd, frame, slotI, i>>
vars == <<netVars, serverVars>>

Listener == 3
Fds == Listener + 1 .. Listener + Cardinality(Clients)
AllFds == Fds \cup {Listener}

Slots == 0 .. MaxPending - 1
Frame == 0 .. 3 * MaxPending - 1

\* The cells of the three arrays.
Sock(s) == s
Flag(s) == MaxPending + s
XNum(s) == 2 * MaxPending + s

ServerPCs == {"select", "accept", "scan"}

TypeOK ==
    /\ NetTypeOK
    /\ spc \in ServerPCs
    /\ fdTable \in [Fds -> Clients \cup {NoClient}]
    /\ rfds \subseteq AllFds
    /\ ready \subseteq AllFds
    /\ maxfd \in AllFds
    /\ frame \in [Frame -> Int]
    /\ slotI \in Nat
    /\ i \in 0 .. MaxPending

Init ==
    /\ NetInit
    /\ spc = "select"
    /\ fdTable = [fd \in Fds |-> NoClient]
    /\ rfds = {Listener}
    /\ ready = {}
    /\ maxfd = Listener
    /\ \E x \in [Slots -> Junk] :
         frame = [a \in Frame |-> IF a < XNum(0) THEN -1 ELSE x[a - XNum(0)]]
    /\ slotI = 0
    /\ i = 0

LowestFree(fd) ==
    /\ fdTable[fd] = NoClient
    /\ \A lower \in Fds : lower < fd => fdTable[lower] # NoClient

\* What select() reports for a descriptor it is asked about.  A client makes
\* its own descriptor ready and no other, so the instant at which select()
\* looks at each of them does not matter.
IsReady(fd) ==
    IF fd = Listener THEN backlog # << >>
    ELSE fdTable[fd] # NoClient /\ Readable(fdTable[fd])

-----------------------------------------------------------------------------
\* select() blocks until something is ready.
Select ==
    /\ spc = "select"
    /\ ready' = {fd \in rfds : fd <= maxfd /\ IsReady(fd)}
    /\ ready' # {}
    /\ spc' = "accept"
    /\ UNCHANGED <<netVars, fdTable, rfds, maxfd, frame, slotI, i>>

\* Without a ready listener the server goes straight to the scan.
SkipAccept ==
    /\ spc = "accept"
    /\ Listener \notin ready
    /\ spc' = "scan"
    /\ i' = 0
    /\ UNCHANGED <<netVars, fdTable, rfds, ready, maxfd, frame, slotI>>

\* accept() stores the new descriptor in the next cell of the table, whatever
\* that cell is.
Accept ==
    /\ spc = "accept"
    /\ Listener \in ready
    /\ backlog' = Tail(backlog)
    /\ \E fd \in Fds :
         /\ LowestFree(fd)
         /\ fdTable' = [fdTable EXCEPT ![fd] = Head(backlog)]
         /\ frame' = [frame EXCEPT ![slotI] = fd]
         /\ rfds' = rfds \cup {fd}
         /\ maxfd' = IF fd > maxfd THEN fd ELSE maxfd
    /\ slotI' = slotI + 1
    /\ spc' = "scan"
    /\ i' = 0
    /\ UNCHANGED <<clientVars, toServer, toClient, srvClosed, printed, up, ready>>

-----------------------------------------------------------------------------
\* Mutant of AtReadySlot: the scan tests rfds instead of temp_rfds.
AtWaitedSlot == spc = "scan" /\ i \in Slots /\ frame[Sock(i)] > 0 /\ frame[Sock(i)] \in rfds

\* The scan stands at a slot whose descriptor is ready.
AtReadySlot == spc = "scan" /\ i \in Slots /\ frame[Sock(i)] > 0 /\ frame[Sock(i)] \in ready

Conn == fdTable[frame[Sock(i)]]

\* Mutants of FirstShake: X is not remembered, or the slot's flag is not set.
FirstShakeForgetful(sets, remembers) ==
    /\ AtReadySlot
    /\ frame[Flag(i)] = -1
    /\ toServer[Conn] # << >>
    /\ LET x == Received(Conn) IN
         /\ Fputs(Conn, x)
         /\ ServerSend(Conn, Wrap(x + 1))
         /\ frame' = [frame EXCEPT ![Flag(i)] = IF sets THEN 0 ELSE @,
                                   ![XNum(i)] = IF remembers THEN x ELSE @]
    /\ Drain(Conn)
    /\ i' = i + 1
    /\ UNCHANGED <<clientVars, backlog, srvClosed, up, spc, fdTable, rfds, ready, maxfd, slotI>>
FirstShakeWithoutX == FirstShakeForgetful(TRUE, FALSE)
FirstShakeWithoutFlag == FirstShakeForgetful(FALSE, TRUE)

\* handle_first_shake: print X, remember it, answer with Y.
FirstShake ==
    /\ AtReadySlot
    /\ frame[Flag(i)] = -1
    /\ toServer[Conn] # << >>
    /\ LET x == Received(Conn) IN
         /\ Fputs(Conn, x)
         /\ ServerSend(Conn, Wrap(x + 1))
         /\ frame' = [frame EXCEPT ![Flag(i)] = 0, ![XNum(i)] = x]
    /\ Drain(Conn)
    /\ i' = i + 1
    /\ UNCHANGED <<clientVars, backlog, srvClosed, up, spc, fdTable, rfds, ready, maxfd, slotI>>

\* Without a message, recv() fails (EAGAIN) and the server exits.  At the end
\* of file handle_first_shake parses a buffer it never initialised: sscanf
\* finds nothing and the server exits, or it finds some number, which the
\* server prints and answers.
FirstShakeEmpty ==
    /\ AtReadySlot
    /\ frame[Flag(i)] = -1
    /\ toServer[Conn] = << >>
    /\ \/ Exit /\ UNCHANGED <<printed, toClient, frame, i>>
       \/ /\ Ended(Conn)
          /\ \E x \in Junk :
               /\ Fputs(Conn, x)
               /\ ServerSend(Conn, Wrap(x + 1))
               /\ frame' = [frame EXCEPT ![Flag(i)] = 0, ![XNum(i)] = x]
          /\ i' = i + 1
          /\ UNCHANGED up
    /\ UNCHANGED <<clientVars, toServer, backlog, srvClosed, spc, fdTable, rfds, ready, maxfd, slotI>>

\* Mutants of SecondShake: the slot is not given up, or the descriptor is
\* closed and left in rfds.
SecondShakeForgetful(clears, frees) ==
    /\ AtReadySlot
    /\ frame[Flag(i)] > -1
    /\ toServer[Conn] # << >>
    /\ Fputs(Conn, Received(Conn))
    /\ Drain(Conn)
    /\ rfds' = IF clears THEN rfds \ {frame[Sock(i)]} ELSE rfds
    /\ fdTable' = [fdTable EXCEPT ![frame[Sock(i)]] = NoClient]
    /\ srvClosed' = srvClosed \cup {Conn}
    /\ frame' = IF frees THEN [frame EXCEPT ![Sock(i)] = -1] ELSE frame
    /\ i' = i + 1
    /\ UNCHANGED <<clientVars, toClient, backlog, up, spc, ready, maxfd, slotI>>
SecondShakeKeepsSlot == SecondShakeForgetful(TRUE, FALSE)
SecondShakeKeepsFd == SecondShakeForgetful(FALSE, TRUE)

\* handle_second_shake: the buffer was zeroed, so the end of file ends the
\* server, as does a number other than X + 2; otherwise Z is printed and the
\* connection leaves rfds and the table.
SecondShake ==
    /\ AtReadySlot
    /\ frame[Flag(i)] > -1
    /\ IF toServer[Conn] # << >> /\ Received(Conn) = Wrap(frame[XNum(i)] + 2)
       THEN /\ Fputs(Conn, Received(Conn))
            /\ Drain(Conn)
            /\ rfds' = rfds \ {frame[Sock(i)]}
            /\ fdTable' = [fdTable EXCEPT ![frame[Sock(i)]] = NoClient]
            /\ srvClosed' = srvClosed \cup {Conn}
            /\ frame' = [frame EXCEPT ![Sock(i)] = -1]
            /\ i' = i + 1
            /\ UNCHANGED up
       ELSE /\ Exit
            /\ UNCHANGED <<printed, toServer, rfds, fdTable, srvClosed, frame, i>>
    /\ UNCHANGED <<clientVars, toClient, backlog, spc, ready, maxfd, slotI>>

SkipSlot ==
    /\ spc = "scan"
    /\ i \in Slots
    /\ ~AtReadySlot
    /\ i' = i + 1
    /\ UNCHANGED <<netVars, spc, fdTable, rfds, ready, maxfd, frame, slotI>>

\* Mutant of EndScan: the scan starts over without another select().
EndScanRescans ==
    /\ spc = "scan"
    /\ i = MaxPending
    /\ i' = 0
    /\ UNCHANGED <<netVars, spc, fdTable, rfds, ready, maxfd, frame, slotI>>

EndScan ==
    /\ spc = "scan"
    /\ i = MaxPending
    /\ spc' = "select"
    /\ i' = 0
    /\ UNCHANGED <<netVars, fdTable, rfds, ready, maxfd, frame, slotI>>

Server ==
    /\ up
    /\ \/ Select \/ SkipAccept \/ Accept
       \/ FirstShake \/ FirstShakeEmpty \/ SecondShake \/ SkipSlot \/ EndScan

-----------------------------------------------------------------------------
Client(c) == (Connect(c) \/ ClientStep(c)) /\ UNCHANGED serverVars

Idle ==
    /\ \A c \in Clients : Ended(c)
    /\ up => spc = "select" /\ \A fd \in rfds : ~IsReady(fd)
    /\ UNCHANGED vars

Next ==
    \/ Server
    \/ \E c \in Clients : Client(c) \/ (Kill(c) /\ UNCHANGED serverVars)
    \/ Idle

Fairness == WF_vars(Server) /\ \A c \in Clients : WF_vars(Client(c))

Spec == Init /\ [][Next]_vars
FairSpec == Spec /\ Fairness

-----------------------------------------------------------------------------
(***************************************************************************)
(* Properties.  Those with the premise WithinTable hold for as long as no  *)
(* more than MAX_PENDING connections have been accepted.                   *)
(***************************************************************************)
WithinTable == slotI <= MaxPending

LiveSlot(s) == frame[Sock(s)] # -1

\* The table and the open files agree: a live slot has an open descriptor of
\* its own, and no open connection is missing from the table.
TableMatchesFiles ==
    /\ \A s \in Slots : LiveSlot(s) =>
         s < slotI /\ frame[Sock(s)] \in Fds /\ fdTable[frame[Sock(s)]] # NoClient
    /\ \A s, r \in Slots : LiveSlot(s) /\ frame[Sock(s)] = frame[Sock(r)] => s = r
    /\ WithinTable =>
         \A fd \in Fds : fdTable[fd] # NoClient => \E s \in Slots : frame[Sock(s)] = fd

\* select() is asked about exactly the open files, and about all of them:
\* no closed descriptor is left in rfds (that would be EBADF), none is
\* forgotten, and maxfd reaches the highest.
WaitsForOpenFiles ==
    /\ rfds = {Listener} \cup {fd \in Fds : fdTable[fd] # NoClient}
    /\ \A fd \in rfds : fd <= maxfd

\* The flag and the number of a slot belong to the conversation with the
\* client whose descriptor the slot holds.
SlotMatchesConversation ==
    (WithinTable /\ up) =>
        \A s \in Slots : LiveSlot(s) =>
            LET c == fdTable[frame[Sock(s)]] IN
            \/ frame[Flag(s)] = -1 /\ printed[c] = << >>
            \/ frame[Flag(s)] = 0 /\ printed[c] = <<frame[XNum(s)]>>

\* The server blocks nowhere but in select(): accept() is called only when a
\* connection waits, and a handler only on an open connection with something
\* to receive (EAGAIN would be fatal), although ready was computed before the
\* accept() and the handlers that ran since.
HandlersDoNotBlock ==
    up => /\ spc = "accept" /\ Listener \in ready => backlog # << >>
          /\ AtReadySlot => Conn \in Clients /\ Readable(Conn)

=============================================================================
