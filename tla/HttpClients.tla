----------------------------- MODULE HttpClients -----------------------------
(***************************************************************************)
(* M12_PlayWithSourceCode_pselect: httpclient-block.c ("block") and        *)
(* httpclient-nonblock.c ("nonblock"), which fetch the same pages over one *)
(* TCP connection per page.  They share build_connection and the sending of *)
(* the requests and differ in the loop that receives; "program", fixed at  *)
(* the start, tells them apart.                                            *)
(*                                                                         *)
(* A page is a number of chunks, a chunk what one recv returns.  A server  *)
(* (external) starts after it was asked, sends its chunks when it likes,   *)
(* and ends the connection or has it reset; what arrived before a reset can *)
(* still be received.                                                      *)
(***************************************************************************)
EXTENDS Integers, FiniteSets

CONSTANTS NumRequests,  \* NUM_REQUESTS
          MaxChunks     \* bound: chunks of a page

ASSUME HttpAssumption == NumRequests \in Nat \ {0} /\ MaxChunks \in Nat

Pages == 0 .. NumRequests - 1

VARIABLES
    program,    \* "block" or "nonblock"; never changes
    at,         \* where main is
    i,          \* the loop variable of the loop main is in
    sockets,    \* per page: "unset", "open" or "closed" (-1 in nonblock)
    asked,      \* pages whose request was sent
    sent,       \* chunks each server has sent
    ending,     \* how each server ended the page: "no", "fin" or "rst"
    printed,    \* chunks of each page that were printed
    rfds,       \* the sockets pselect found readable
    countDown   \* count_down of nonblock

net == <<asked, sent, ending>>
vars == <<program, at, i, sockets, net, printed, rfds, countDown>>

Init == /\ program \in {"block", "nonblock"}
        /\ at = "connect"
        /\ i = 0
        /\ sockets = [p \in Pages |-> "unset"]
        /\ asked = {}
        /\ sent = [p \in Pages |-> 0]
        /\ ending = [p \in Pages |-> "no"]
        /\ printed = [p \in Pages |-> 0]
        /\ rfds = {}
        /\ countDown = NumRequests

-----------------------------------------------------------------------------
(* The servers and the network. *)

SendChunk(p) == /\ p \in asked /\ ending[p] = "no"
                /\ sent[p] < MaxChunks
                /\ sent' = [sent EXCEPT ![p] = @ + 1]
                /\ UNCHANGED <<program, at, i, sockets, asked, ending, printed, rfds, countDown>>

EndPage(p) == /\ p \in asked /\ ending[p] = "no"
              /\ \E how \in {"fin", "rst"} : ending' = [ending EXCEPT ![p] = how]
              /\ UNCHANGED <<program, at, i, sockets, asked, sent, printed, rfds, countDown>>

Unread(p) == sent[p] - printed[p]
Readable(p) == Unread(p) > 0 \/ ending[p] # "no"

\* What recv on the socket of p would return: data while there is some, then 0
\* or -1 for the end; with neither it blocks, or fails with EAGAIN when the
\* socket is O_NONBLOCK.
RecvResult(p) == CASE Unread(p) > 0                      -> "data"
                   [] Unread(p) = 0 /\ ending[p] = "fin" -> "zero"
                   [] Unread(p) = 0 /\ ending[p] = "rst" -> "error"
                   [] OTHER                              -> "again"

-----------------------------------------------------------------------------
(* build_connection and the requests. *)

\* One round of a loop of main over the pages: the next page, or the next loop.
Advance(loop, after) == IF i + 1 < NumRequests THEN at' = loop /\ i' = i + 1
                                               ELSE at' = after /\ i' = 0

\* gethostbyname, socket and connect for page i.
Connect == /\ at = "connect"
           /\ sockets' = [sockets EXCEPT ![i] = "open"]
           /\ Advance("connect", "ask")
           /\ UNCHANGED <<program, net, printed, rfds, countDown>>

\* One of the three calls fails: return 1, and main exits.
ConnectFails == /\ at = "connect"
                /\ at' = "failed"
                /\ UNCHANGED <<program, i, sockets, net, printed, rfds, countDown>>

Ask == /\ at = "ask"
       /\ asked' = asked \cup {i}
       /\ Advance("ask", IF program = "block" THEN "recv" ELSE "select")
       /\ UNCHANGED <<program, sockets, sent, ending, printed, rfds, countDown>>

Fputs(p) == printed' = [printed EXCEPT ![p] = @ + 1]
Close(p) == sockets' = [sockets EXCEPT ![p] = "closed"]

-----------------------------------------------------------------------------
(* httpclient-block: page after page, each to its end, be it an error. *)

\* Mutant of RecvBlocking: one recv per page.
RecvBlockingOnce == /\ at = "recv"
                    /\ RecvResult(i) # "again"
                    /\ IF RecvResult(i) = "data" THEN Fputs(i) ELSE UNCHANGED printed
                    /\ Close(i)
                    /\ Advance("recv", "returned")
                    /\ UNCHANGED <<program, net, rfds, countDown>>

RecvBlocking == /\ at = "recv"
                /\ RecvResult(i) # "again"
                /\ IF RecvResult(i) = "data"
                   THEN Fputs(i) /\ UNCHANGED <<at, i, sockets>>
                   ELSE /\ Close(i)
                        /\ Advance("recv", "returned")
                        /\ UNCHANGED printed
                /\ UNCHANGED <<program, net, rfds, countDown>>

-----------------------------------------------------------------------------
(* httpclient-nonblock *)

\* Mutants of Select: the answer is taken for all open sockets, and only the first
\* open socket is asked about.
SelectAllOpen == /\ at = "select"
                 /\ \E p \in Pages : sockets[p] = "open" /\ Readable(p)
                 /\ rfds' = {p \in Pages : sockets[p] = "open"}
                 /\ at' = "scan"
                 /\ i' = 0
                 /\ UNCHANGED <<program, sockets, net, printed, countDown>>

SelectFirst == /\ at = "select"
               /\ \E p \in Pages : /\ sockets[p] = "open" /\ Readable(p)
                                   /\ \A q \in 0 .. p - 1 : sockets[q] # "open"
                                   /\ rfds' = {p}
               /\ at' = "scan"
               /\ i' = 0
               /\ UNCHANGED <<program, sockets, net, printed, countDown>>

\* The fd_set is built from the sockets that are still open; pselect waits for
\* one that is readable and leaves the readable ones in it.
Select == /\ at = "select"
          /\ rfds' = {p \in Pages : sockets[p] = "open" /\ Readable(p)}
          /\ rfds' # {}
          /\ at' = "scan"
          /\ i' = 0
          /\ UNCHANGED <<program, sockets, net, printed, countDown>>

\* The end of a round of the scan: the next socket, or, after the last one,
\* pselect again unless is_exit was set.
ScanOn == Advance("scan", IF countDown' = 0 THEN "returned" ELSE "select")

\* FD_ISSET is false.  For a closed socket it asks for bit -1, which this build
\* (no optimisation, x86-64) turns into bit 63, never set here.
SkipSocket == /\ at = "scan" /\ i \notin rfds
              /\ UNCHANGED <<program, sockets, net, printed, rfds, countDown>>
              /\ ScanOn

RecvReady == /\ at = "scan" /\ i \in rfds
             /\ CASE RecvResult(i) = "data" -> /\ Fputs(i)
                                               /\ UNCHANGED <<sockets, countDown>>
                                               /\ ScanOn
                  [] RecvResult(i) = "zero" -> /\ Close(i)
                                               /\ countDown' = countDown - 1
                                               /\ UNCHANGED printed
                                               /\ ScanOn
                  [] OTHER                  -> /\ at' = "gaveUp"
                                               /\ UNCHANGED <<i, sockets, printed, countDown>>
             /\ UNCHANGED <<program, net, rfds>>

-----------------------------------------------------------------------------

Client == \/ Connect
          \/ ConnectFails
          \/ Ask
          \/ RecvBlocking
          \/ Select
          \/ SkipSocket
          \/ RecvReady

Next == \/ Client
        \/ \E p \in Pages : SendChunk(p) \/ EndPage(p)

\* The client runs when it can.  Nothing is asked of the servers: they may take
\* for ever.
Spec == Init /\ [][Next]_vars /\ WF_vars(Client)

-----------------------------------------------------------------------------

Ended == at \in {"returned", "gaveUp", "failed"}
Complete(p) == ending[p] = "fin" /\ Unread(p) = 0

\* httpclient-block.c:77-82 prints no chunk of a page before the end of the page
\* before it, and returns only when every page came to its end.  A reset is an end
\* too: the loop stops at recv() <= 0, so what httpclient-block.c:5-6 calls
\* "entirely received" may then be less than the page.
OneAfterAnother ==
    program = "block" =>
        /\ \A p, q \in Pages : p < q /\ printed[q] > 0 =>
               sockets[p] = "closed" /\ ending[p] # "no" /\ Unread(p) = 0
        /\ at = "returned" => \A p \in Pages : ending[p] # "no" /\ Unread(p) = 0

\* httpclient-nonblock.c:84-130 ends in one of two ways: with every page
\* complete and every socket closed (so count_down does not run ahead of the
\* pages, and no page is counted twice), or on the first reset that it meets, all
\* of whose page was printed.  In particular recv never finds a socket empty
\* that pselect reported: that EAGAIN would end the loop as well.
EndsForAReason ==
    program = "nonblock" =>
        /\ at = "returned" => \A p \in Pages : Complete(p) /\ sockets[p] = "closed"
        /\ at = "gaveUp" => ending[i] = "rst" /\ Unread(i) = 0
        /\ countDown = Cardinality({p \in Pages : sockets[p] # "closed"})

\* The non-blocking client "is not blocked on slow servers": what has arrived
\* for any page is received in the end, though other servers stay silent, unless
\* the client has ended.  The blocking client promises it only for the page that
\* it has reached.  And both end when every server has.
NotHeldUp ==
    /\ \A p \in Pages : Unread(p) > 0 /\ (program = "block" => at = "recv" /\ i = p)
                            ~> Unread(p) = 0 \/ Ended
    /\ (\A p \in Pages : ending[p] # "no") ~> Ended
=============================================================================
