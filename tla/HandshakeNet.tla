---------------------------- MODULE HandshakeNet ----------------------------
(***************************************************************************)
(* The clients of project3a/b/c (tcpclient.c, the same program in the three*)
(* directories) and the TCP connections between them and a server on the   *)
(* same host.  SeqServer, MultiServer and AsyncServer extend this module   *)
(* with the server side.                                                   *)
(*                                                                         *)
(* A message "HELLO n" is the number n.  A direction of a connection is the*)
(* sequence of messages sent and not yet received; a recv takes everything *)
(* there is and sscanf parses the first message of it.  The messages are   *)
(* much shorter than a segment, and AtMostOneInFlight shows that a recv    *)
(* never meets two of them, so a message is received whole or not at all.  *)
(* (A recv of 20 bytes could leave a piece of a second message behind.     *)
(* Two are only met in MultiServer after a close() on an error, when it    *)
(* promises nothing any more.)                                             *)
(***************************************************************************)
EXTENDS Integers, Sequences, FiniteSets

CONSTANTS
    Clients,     \* the client processes
    Inputs,      \* the numbers X a client may be started with (argv[3])
    MaxInt,      \* INT_MAX: C's int is -(MaxInt+1)..MaxInt
    MaxPending,  \* MAX_PENDING, the argument of listen()
    Fragile,     \* the clients that may be killed
    NoClient     \* not a client

ASSUME NetAssumption ==
    /\ MaxInt \in Nat
    /\ Inputs \subseteq -(MaxInt + 1) .. MaxInt
    /\ MaxPending \in Nat \ {0}
    /\ Fragile \subseteq Clients
    /\ NoClient \notin Clients

VARIABLES
    cpc,        \* cpc[c]: the system call client c is about to make
    xNum,       \* xNum[c]: the client's variable xNum
    yNum,       \* yNum[c]: the client's variable yNum
    toServer,   \* toServer[c]: numbers sent by c and not received
    toClient,   \* toClient[c]: numbers sent to c and not received
    backlog,    \* connections established and not yet accepted
    srvClosed,  \* connections whose server side has been closed
    printed,    \* printed[c]: numbers the server printed for c, in order
    up          \* is the server process alive?

clientVars == <<cpc, xNum, yNum>>
netVars == <<cpc, xNum, yNum, toServer, toClient, backlog, srvClosed, printed, up>>

CInt == -(MaxInt + 1) .. MaxInt

Wrap(n) == ((n + MaxInt + 1) % (2 * (MaxInt + 1))) - (MaxInt + 1)

ClientPCs == {"connect", "sendX", "recvY", "sendZ", "close", "done", "failed"}

NetTypeOK ==
    /\ cpc \in [Clients -> ClientPCs]
    /\ xNum \in [Clients -> CInt]
    /\ yNum \in [Clients -> CInt]
    /\ toServer \in [Clients -> Seq(CInt)]
    /\ toClient \in [Clients -> Seq(CInt)]
    /\ backlog \in Seq(Clients)
    /\ srvClosed \subseteq Clients
    /\ printed \in [Clients -> Seq(CInt)]
    /\ up \in BOOLEAN

NetInit ==
    /\ cpc = [c \in Clients |-> "connect"]
    /\ xNum \in [Clients -> Inputs]
    /\ yNum = [c \in Clients |-> 0]
    /\ toServer = [c \in Clients |-> << >>]
    /\ toClient = [c \in Clients |-> << >>]
    /\ backlog = << >>
    /\ srvClosed = {}
    /\ printed = [c \in Clients |-> << >>]
    /\ up = TRUE

-----------------------------------------------------------------------------
(***************************************************************************)
(* What each end of a connection sees of the other.  The kernel closes the *)
(* sockets of a process that ends, so an ended client is an end of file    *)
(* for the server, and an exited server is one for every client.           *)
(***************************************************************************)
Ended(c) == cpc[c] \in {"done", "failed"}

PeerGone(c) == ~up \/ c \in srvClosed

InBacklog(c) == \E i \in 1 .. Len(backlog) : backlog[i] = c

Goto(c, l) == cpc' = [cpc EXCEPT ![c] = l]

(***************************************************************************)
(* A send on a connection whose other end is gone loses the message, and   *)
(* the process either goes on or, when the reset has already come back, is *)
(* killed by SIGPIPE, which no client ignores.                             *)
(***************************************************************************)
ClientSend(c, n, next) ==
    \/ /\ toServer' = IF PeerGone(c) THEN toServer
                      ELSE [toServer EXCEPT ![c] = Append(@, n)]
       /\ Goto(c, next)
    \/ /\ PeerGone(c)
       /\ toServer' = toServer
       /\ Goto(c, "failed")

-----------------------------------------------------------------------------
(***************************************************************************)
(* connect(): the kernel establishes the connection when the accept queue  *)
(* has room (Linux holds one more than the argument of listen) and retries *)
(* otherwise; no server, no connection.                                    *)
(***************************************************************************)
Connect(c) ==
    /\ cpc[c] = "connect"
    /\ \/ /\ up
          /\ Len(backlog) <= MaxPending
          /\ backlog' = Append(backlog, c)
          /\ Goto(c, "sendX")
       \/ /\ ~up
          /\ Goto(c, "failed")
          /\ UNCHANGED backlog
    /\ UNCHANGED <<xNum, yNum, toServer, toClient, srvClosed, printed, up>>

\* Mutant of SendX: a client that sends Z without waiting for Y.
SendXWithoutWaiting(c) ==
    /\ cpc[c] = "sendX"
    /\ ClientSend(c, xNum[c], "sendZ")
    /\ UNCHANGED <<xNum, yNum, toClient, backlog, srvClosed, printed, up>>

SendX(c) ==
    /\ cpc[c] = "sendX"
    /\ ClientSend(c, xNum[c], "recvY")
    /\ UNCHANGED <<xNum, yNum, toClient, backlog, srvClosed, printed, up>>

(***************************************************************************)
(* recv() returns what has arrived, else it fails or returns end of file   *)
(* when the server is gone: the buffer was zeroed, so sscanf then returns  *)
(* EOF and the client exits as well.                                       *)
(***************************************************************************)
RecvY(c) ==
    /\ cpc[c] = "recvY"
    /\ \/ /\ toClient[c] # << >>
          /\ yNum' = [yNum EXCEPT ![c] = Head(toClient[c])]
          /\ toClient' = [toClient EXCEPT ![c] = << >>]
          /\ Goto(c, IF yNum'[c] = Wrap(xNum[c] + 1) THEN "sendZ" ELSE "failed")
       \/ /\ toClient[c] = << >>
          /\ PeerGone(c)
          /\ Goto(c, "failed")
          /\ UNCHANGED <<yNum, toClient>>
    /\ UNCHANGED <<xNum, toServer, backlog, srvClosed, printed, up>>

SendZ(c) ==
    /\ cpc[c] = "sendZ"
    /\ ClientSend(c, Wrap(yNum[c] + 1), "close")
    /\ UNCHANGED <<xNum, yNum, toClient, backlog, srvClosed, printed, up>>

Close(c) ==
    /\ cpc[c] = "close"
    /\ Goto(c, "done")
    /\ UNCHANGED <<xNum, yNum, toServer, toClient, backlog, srvClosed, printed, up>>

(***************************************************************************)
(* A client that may be killed is killed, at any point of its run.         *)
(***************************************************************************)
Kill(c) ==
    /\ c \in Fragile
    /\ ~Ended(c)
    /\ Goto(c, "failed")
    /\ UNCHANGED <<xNum, yNum, toServer, toClient, backlog, srvClosed, printed, up>>

ClientStep(c) == SendX(c) \/ RecvY(c) \/ SendZ(c) \/ Close(c)

-----------------------------------------------------------------------------
(***************************************************************************)
(* The pieces of system calls the three servers share.                     *)
(***************************************************************************)

\* recv() on the connection of c would not block.
Readable(c) == toServer[c] # << >> \/ Ended(c)

\* The message a recv() takes from c, and the stream it leaves behind.
Received(c) == Head(toServer[c])
Drain(c) == toServer' = [toServer EXCEPT ![c] = << >>]

\* send() to c.  The message is lost when the client has ended.  A reset only
\* comes back for a message that arrived after the client had ended, and no
\* server sends a client a second one of those: SIGPIPE does not kill it (where
\* MultiServer might, a thread is about to end the process anyway).
ServerSend(c, n) ==
    toClient' = IF Ended(c) THEN toClient
                ELSE [toClient EXCEPT ![c] = Append(@, n)]

\* fputs() of the message received from c.
Fputs(c, n) == printed' = [printed EXCEPT ![c] = Append(@, n)]

Exit == up' = FALSE

-----------------------------------------------------------------------------
(***************************************************************************)
(* Properties of every server.                                             *)
(***************************************************************************)

\* No direction of a connection ever holds two messages: each side waits for
\* the other's answer before it sends again, so recv() can rely on meeting
\* one "HELLO n" at a time.
AtMostOneInFlight ==
    \A c \in Clients : Len(toServer[c]) <= 1 /\ Len(toClient[c]) <= 1

\* Every client comes to an end: none waits for ever in connect() or recv().
EveryClientEnds == \A c \in Clients : <>Ended(c)

\* Both messages of every client are printed in the end, as the comment at
\* the top of each server says of it ("a reference socket server
\* implementation that prints out the messages received from clients").
MessagesPrinted ==
    \A c \in Clients : <>(printed[c] = <<xNum[c], Wrap(xNum[c] + 2)>>)

\* A server that stays up prints both messages of every client that is not
\* killed, Z included, which its sender does not wait for: whatever the
\* interleaving, no conversation is left half done or forgotten.
PrintsAllOrDies ==
    []up => \A c \in Clients \ Fragile :
              <>(printed[c] = <<xNum[c], Wrap(xNum[c] + 2)>>)

\* The abstract state: how a client stands.
Outcome(c) ==
    CASE cpc[c] = "done" -> "ok"
      [] cpc[c] = "failed" -> "failed"
      [] OTHER -> "running"

Service == INSTANCE HandshakeService
               WITH outcome <- [c \in Clients |-> Outcome(c)], unsteady <- FALSE

\* The server keeps the promise of HandshakeService.
ServiceSpec == Service!Spec

=============================================================================
