----------------------------- MODULE SeqServer ------------------------------
(***************************************************************************)
(* project3a/tcpserver.c: one process that serves one connection after the *)
(* other.  A step of the server runs from one system call that can block   *)
(* (or that the other side can notice) to the next.                        *)
(***************************************************************************)
EXTENDS HandshakeNet

VARIABLES
    spc,        \* the system call the server is about to make
    cur,        \* new_s: the connection being served
    sy          \* the server's variable yNum

serverVars == <<spc, cur, sy>>
vars == <<netVars, serverVars>>

ServerPCs == {"accept", "recvX", "sendY", "recvZ", "close"}

TypeOK ==
    /\ NetTypeOK
    /\ spc \in ServerPCs
    /\ cur \in Clients \cup {NoClient}
    /\ sy \in CInt

Init ==
    /\ NetInit
    /\ spc = "accept"
    /\ cur = NoClient
    /\ sy = 0

-----------------------------------------------------------------------------
Accept ==
    /\ spc = "accept"
    /\ backlog # << >>
    /\ cur' = Head(backlog)
    /\ backlog' = Tail(backlog)
    /\ spc' = "recvX"
    /\ UNCHANGED <<clientVars, toServer, toClient, srvClosed, printed, up, sy>>

\* Mutant of HungUp: the server calls recv() again.
HungUpRetries ==
    /\ spc \in {"recvX", "recvZ"}
    /\ Ended(cur) /\ toServer[cur] = << >>
    /\ UNCHANGED vars

\* recv() failed, or it returned end of file and left the zeroed buffer, on
\* which sscanf returns EOF: either way the server calls exit(1).
HungUp ==
    /\ spc \in {"recvX", "recvZ"}
    /\ Readable(cur)
    /\ toServer[cur] = << >>
    /\ Exit
    /\ UNCHANGED <<clientVars, toServer, toClient, backlog, srvClosed, printed, serverVars>>

\* Mutant of RecvX: X is answered and not printed.
RecvXUnprinted ==
    /\ spc = "recvX"
    /\ toServer[cur] # << >>
    /\ sy' = Wrap(Received(cur) + 1)
    /\ Drain(cur)
    /\ spc' = "sendY"
    /\ UNCHANGED <<clientVars, toClient, backlog, srvClosed, printed, up, cur>>

RecvX ==
    /\ spc = "recvX"
    /\ toServer[cur] # << >>
    /\ Fputs(cur, Received(cur))
    /\ sy' = Wrap(Received(cur) + 1)
    /\ Drain(cur)
    /\ spc' = "sendY"
    /\ UNCHANGED <<clientVars, toClient, backlog, srvClosed, up, cur>>

\* Mutant of SendY: the server does not wait for Z.
SendYAndClose ==
    /\ spc = "sendY"
    /\ ServerSend(cur, sy)
    /\ spc' = "close"
    /\ UNCHANGED <<clientVars, toServer, backlog, srvClosed, printed, up, cur, sy>>

SendY ==
    /\ spc = "sendY"
    /\ ServerSend(cur, sy)
    /\ spc' = "recvZ"
    /\ UNCHANGED <<clientVars, toServer, backlog, srvClosed, printed, up, cur, sy>>

\* Mutant of RecvZ: the server prints its own Y instead of Z.
RecvZPrintsY ==
    /\ spc = "recvZ"
    /\ toServer[cur] # << >>
    /\ Drain(cur)
    /\ Fputs(cur, sy)
    /\ spc' = "close"
    /\ UNCHANGED <<clientVars, toClient, backlog, srvClosed, up, cur, sy>>

RecvZ ==
    /\ spc = "recvZ"
    /\ toServer[cur] # << >>
    /\ Drain(cur)
    /\ IF Received(cur) = Wrap(sy + 1)
       THEN Fputs(cur, Received(cur)) /\ spc' = "close" /\ UNCHANGED up
       ELSE Exit /\ UNCHANGED <<printed, spc>>
    /\ UNCHANGED <<clientVars, toClient, backlog, srvClosed, cur, sy>>

CloseConn ==
    /\ spc = "close"
    /\ srvClosed' = srvClosed \cup {cur}
    /\ cur' = NoClient
    /\ spc' = "accept"
    /\ UNCHANGED <<clientVars, toServer, toClient, backlog, printed, up, sy>>

Server == up /\ (Accept \/ HungUp \/ RecvX \/ SendY \/ RecvZ \/ CloseConn)

\* All clients have ended and the server waits in accept(), or is gone.
Idle ==
    /\ \A c \in Clients : Ended(c)
    /\ up => (spc = "accept" /\ backlog = << >>)
    /\ UNCHANGED vars

Client(c) == (Connect(c) \/ ClientStep(c)) /\ UNCHANGED serverVars

Next ==
    \/ Server
    \/ \E c \in Clients : Client(c) \/ (Kill(c) /\ UNCHANGED serverVars)
    \/ Idle

\* The kernel schedules the server and every client; nobody is obliged to
\* kill a client.
Fairness == WF_vars(Server) /\ \A c \in Clients : WF_vars(Client(c))

Spec == Init /\ [][Next]_vars
FairSpec == Spec /\ Fairness

-----------------------------------------------------------------------------
\* The server serves its clients strictly one at a time: as long as the server
\* lives, nothing is printed for a client that still waits in the backlog, and
\* of the connections taken from it every one but the current has both its
\* messages printed.
OneAtATime ==
    up => \A c \in Clients :
            /\ InBacklog(c) => printed[c] = << >>
            /\ c \in srvClosed => Len(printed[c]) = 2
            /\ (c # cur /\ printed[c] # << >>) => c \in srvClosed

=============================================================================
