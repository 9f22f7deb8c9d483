-------------------------- MODULE HttpClientsProofs --------------------------
(***************************************************************************)
(* Theorems about HttpClients: both programs, any number of pages of any   *)
(* length, and servers that send, end and reset when they like.            *)
(***************************************************************************)
EXTENDS HttpClients, FiniteSetTheorems, TLAPS

Places == {"connect", "ask", "recv", "select", "scan", "returned", "gaveUp", "failed"}

TypeOK ==
    /\ program \in {"block", "nonblock"}
    /\ at \in Places
    /\ i \in Pages
    /\ sockets \in [Pages -> {"unset", "open", "closed"}]
    /\ asked \subseteq Pages
    /\ sent \in [Pages -> 0 .. MaxChunks]
    /\ ending \in [Pages -> {"no", "fin", "rst"}]
    /\ printed \in [Pages -> 0 .. MaxChunks]
    /\ rfds \subseteq Pages
    /\ countDown \in Int

NotClosed == {p \in Pages : sockets[p] # "closed"}

\* Nothing of a page is there before it was asked for, and nothing is printed
\* that was not sent.
NothingUnasked ==
    \A p \in Pages : /\ p \notin asked => sent[p] = 0 /\ ending[p] = "no"
                     /\ printed[p] <= sent[p]

\* The two loops that the programs share.
Preparing ==
    /\ at = "connect" => \A p \in Pages : sockets[p] = IF p < i THEN "open" ELSE "unset"
    /\ at = "ask" => \A p \in Pages : sockets[p] = "open"
    /\ at \in {"connect", "ask", "failed"} => \A p \in Pages : printed[p] = 0 /\ sockets[p] # "closed"

\* httpclient-block: the pages before i are closed, those behind it untouched.
Blocking ==
    program = "block" =>
        /\ at \in {"connect", "ask", "recv", "returned", "failed"}
        /\ at = "recv" => \A p \in Pages : /\ p < i <=> sockets[p] = "closed"
                                           /\ p > i => printed[p] = 0
        /\ at = "returned" => \A p \in Pages : sockets[p] = "closed"
        /\ \A p \in Pages : sockets[p] = "closed" => ending[p] # "no" /\ Unread(p) = 0

\* httpclient-nonblock: a page is closed once it is complete, and counted then.
\* The sockets in rfds that the scan has still to visit are open, and stay
\* readable, because only the client takes away what was sent.
Scanning ==
    program = "nonblock" =>
        /\ at # "recv"
        /\ \A p \in Pages : sockets[p] = "closed" => Complete(p)
        /\ countDown = Cardinality(NotClosed)
        /\ at = "scan" => \A p \in rfds : p >= i => sockets[p] = "open" /\ Readable(p)
        /\ at = "returned" => countDown = 0
        /\ at = "gaveUp" => ending[i] = "rst" /\ Unread(i) = 0

Inv == TypeOK /\ NothingUnasked /\ Preparing /\ Blocking /\ Scanning

-----------------------------------------------------------------------------
(* Pages and counting them. *)

LEMMA PagesAreFinite ==
    /\ IsFiniteSet(Pages) /\ Cardinality(Pages) = NumRequests
    /\ Pages \subseteq Int /\ 0 \in Pages /\ \A p \in Pages : p >= 0
<1>1. 0 \in Int /\ NumRequests - 1 \in Int /\ NumRequests > 0
  BY HttpAssumption
<1>2. IsFiniteSet(Pages)
  BY <1>1, FS_Interval, Zenon DEF Pages
<1>3. Cardinality(Pages) = IF 0 > NumRequests - 1 THEN 0 ELSE (NumRequests - 1) - 0 + 1
  BY <1>1, FS_Interval, Zenon DEF Pages
<1> QED
  BY <1>1, <1>2, <1>3, HttpAssumption DEF Pages

LEMMA NotClosedIsFinite ==
    /\ IsFiniteSet(NotClosed) /\ Cardinality(NotClosed) \in Nat
    /\ Cardinality(NotClosed) = 0 => NotClosed = {}
<1>1. IsFiniteSet(NotClosed)
  BY PagesAreFinite, FS_Subset DEF NotClosed
<1> QED
  BY <1>1, FS_CardinalityType, FS_EmptySet

\* Closing a socket is one less to count down.
LEMMA CloseCounts ==
    ASSUME TypeOK, NEW p \in Pages, sockets[p] # "closed", Close(p)
    PROVE  Cardinality(NotClosed') = Cardinality(NotClosed) - 1
<1>1. NotClosed' = NotClosed \ {p} /\ p \in NotClosed
  BY DEF NotClosed, TypeOK, Close
<1> QED
  BY <1>1, NotClosedIsFinite, FS_RemoveElement

\* The next page of a loop, or the end of the loop.
LEMMA Advances ==
    ASSUME i \in Pages, NEW loop, NEW after, Advance(loop, after)
    PROVE  /\ i' \in Pages
           /\ \/ at' = loop /\ i' = i + 1 /\ (\A p \in Pages : p < i' <=> p < i \/ p = i)
              \/ at' = after /\ i' = 0 /\ (\A p \in Pages : p < i \/ p = i)
BY HttpAssumption DEF Advance, Pages

-----------------------------------------------------------------------------

LEMMA InitInv == Init => Inv
<1> SUFFICES ASSUME Init PROVE Inv
  OBVIOUS
<1>1. TypeOK
  <2>1. 0 \in 0 .. MaxChunks /\ NumRequests \in Int
    BY HttpAssumption
  <2> QED
    BY <2>1, PagesAreFinite DEF Init, TypeOK, Places
<1>2. NothingUnasked /\ Preparing /\ Blocking
  BY PagesAreFinite DEF Init, NothingUnasked, Preparing, Blocking, Unread, Pages
<1>3. NotClosed = Pages
  BY DEF Init, NotClosed
<1> QED
  BY <1>1, <1>2, <1>3, PagesAreFinite DEF Init, Inv, Scanning, Complete

\* What the servers do leaves readable what is readable, and a page that came to
\* its end stays as it is.
LEMMA ServerStep ==
    ASSUME Inv, NEW q \in Pages, SendChunk(q) \/ EndPage(q)
    PROVE  Inv'
<1> USE HttpAssumption, PagesAreFinite DEF Inv, SendChunk, EndPage
<1>1. TypeOK' /\ NothingUnasked'
  <2>1. CASE SendChunk(q)
    <3>1. sent[q] + 1 \in 0 .. MaxChunks
      BY <2>1 DEF TypeOK
    <3> QED
      BY <2>1, <3>1 DEF TypeOK, NothingUnasked
  <2>2. CASE EndPage(q)
    BY <2>2 DEF TypeOK, NothingUnasked
  <2> QED
    BY <2>1, <2>2
<1>2. \A p \in Pages : ending[p] # "no" => ending'[p] = ending[p] /\ Unread(p)' = Unread(p)
  BY DEF TypeOK, Unread
<1>3. \A p \in Pages : Readable(p) => Readable(p)'
  BY DEF TypeOK, Unread, Readable
<1>4. Preparing'
  BY DEF Preparing
<1>5. Blocking'
  BY <1>2 DEF Blocking
<1>6. Scanning'
  <2>1. UNCHANGED <<program, at, i, sockets, rfds, countDown>> /\ NotClosed' = NotClosed
    BY DEF NotClosed
  <2>2. \A p \in Pages : Complete(p) => Complete(p)'
    BY <1>2 DEF Complete
  <2> QED
    BY <1>2, <1>3, <2>1, <2>2 DEF Scanning, TypeOK
<1> QED
  BY <1>1, <1>4, <1>5, <1>6

LEMMA ConnectStep ==
    ASSUME Inv, Connect \/ ConnectFails
    PROVE  Inv'
<1> USE PagesAreFinite DEF Inv, Connect, ConnectFails, net
<1>1. CASE ConnectFails
  BY <1>1 DEF TypeOK, Places, NothingUnasked, Preparing, Blocking, Scanning, Complete, NotClosed, Unread
<1>2. CASE Connect
  <2>1. i \in Pages /\ sockets'[i] = "open" /\ \A p \in Pages \ {i} : sockets'[p] = sockets[p]
    BY <1>2 DEF TypeOK
  <2>2. TypeOK' /\ NothingUnasked'
    BY <1>2, Advances DEF TypeOK, Places, NothingUnasked
  <2>3. Preparing'
    BY <1>2, <2>1, Advances DEF TypeOK, Preparing
  <2>4. NotClosed' = NotClosed
    BY <1>2, <2>1 DEF NotClosed, Preparing
  <2>5. Blocking' /\ Scanning'
    BY <1>2, <2>1, <2>4, Advances DEF TypeOK, Preparing, Blocking, Scanning, Complete, Unread
  <2> QED
    BY <2>2, <2>3, <2>5
<1> QED
  BY <1>1, <1>2

LEMMA AskStep ==
    ASSUME Inv, Ask
    PROVE  Inv'
<1> USE PagesAreFinite DEF Inv, Ask
<1>1. TypeOK' /\ NothingUnasked'
  BY Advances DEF TypeOK, Places, NothingUnasked
<1>2. Preparing'
  BY Advances DEF TypeOK, Preparing
<1>3. Blocking'
  BY Advances DEF TypeOK, Preparing, Blocking, Unread
<1>4. Scanning'
  BY Advances DEF TypeOK, Preparing, Scanning, Complete, NotClosed, Unread
<1> QED
  BY <1>1, <1>2, <1>3, <1>4

\* Fputs prints a chunk that was sent.
LEMMA Printing ==
    ASSUME TypeOK, NothingUnasked, NEW q \in Pages, Unread(q) > 0, Fputs(q), UNCHANGED <<asked, sent, ending>>
    PROVE  /\ printed' \in [Pages -> 0 .. MaxChunks]
           /\ NothingUnasked'
           /\ \A p \in Pages \ {q} : printed'[p] = printed[p]
BY HttpAssumption DEF TypeOK, NothingUnasked, Unread, Fputs

LEMMA RecvBlockingStep ==
    ASSUME Inv, RecvBlocking
    PROVE  Inv'
<1> USE PagesAreFinite DEF Inv, RecvBlocking, net
<1>0. /\ i \in Pages /\ program = "block" /\ sockets[i] # "closed"
  BY DEF TypeOK, Blocking, Scanning
<1>1. CASE RecvResult(i) = "data"
  <2>1. Unread(i) > 0 /\ Fputs(i) /\ UNCHANGED <<at, i, sockets>>
    BY <1>1 DEF RecvResult
  <2>2. TypeOK' /\ NothingUnasked'
    BY <1>0, <2>1, Printing DEF TypeOK
  <2>3. Preparing' /\ Scanning'
    BY <1>0, <2>1 DEF Preparing, Scanning
  <2>4. Blocking'
    BY <1>0, <2>1, Printing DEF Blocking, TypeOK, Unread
  <2> QED
    BY <2>2, <2>3, <2>4
<1>2. CASE RecvResult(i) # "data"
  <2>1. /\ Close(i) /\ Advance("recv", "returned") /\ UNCHANGED printed
        /\ Unread(i) = 0 /\ ending[i] # "no"
    BY <1>0, <1>2 DEF RecvResult, TypeOK, NothingUnasked, Unread
  <2>2. sockets'[i] = "closed" /\ \A p \in Pages \ {i} : sockets'[p] = sockets[p]
    BY <1>0, <2>1 DEF TypeOK, Close
  <2>3. TypeOK' /\ NothingUnasked'
    BY <1>0, <2>1, Advances DEF TypeOK, Places, NothingUnasked, Close
  <2>4. Preparing' /\ Scanning'
    BY <1>0, <2>1, Advances DEF Preparing, Scanning
  <2>5. Blocking'
    BY <1>0, <2>1, <2>2, Advances DEF Blocking, TypeOK, Unread
  <2> QED
    BY <2>3, <2>4, <2>5
<1> QED
  BY <1>1, <1>2

LEMMA SelectStep ==
    ASSUME Inv, Select
    PROVE  Inv'
BY PagesAreFinite
   DEF Inv, Select, net, TypeOK, Places, NothingUnasked, Preparing, Blocking, Scanning, Complete,
       NotClosed, Unread, Readable

\* The next socket of the scan: those behind i are as they were.
LEMMA ScanStep ==
    ASSUME Inv, SkipSocket \/ RecvReady
    PROVE  Inv'
<1> USE PagesAreFinite DEF Inv, net
<1>0. i \in Pages /\ at = "scan" /\ program = "nonblock"
  BY DEF TypeOK, Blocking, SkipSocket, RecvReady
<1>1. CASE SkipSocket
  <2> USE <1>1 DEF SkipSocket, ScanOn
  <2>1. TypeOK' /\ NothingUnasked'
    BY Advances DEF TypeOK, Places, NothingUnasked
  <2>2. Preparing' /\ Blocking'
    BY <1>0, Advances DEF Preparing, Blocking
  <2>3. Scanning'
    BY <1>0, Advances DEF TypeOK, Scanning, Complete, NotClosed, Readable, Unread
  <2> QED
    BY <2>1, <2>2, <2>3
<1>2. ASSUME RecvReady, RecvResult(i) = "data" PROVE Inv'
  <2>1. Unread(i) > 0 /\ Fputs(i) /\ ScanOn /\ UNCHANGED <<program, sockets, countDown, asked, sent, ending, rfds>>
    BY <1>2 DEF RecvReady, RecvResult
  <2>2. TypeOK' /\ NothingUnasked'
    BY <1>0, <2>1, Printing, Advances DEF TypeOK, Places, ScanOn
  <2>3. Preparing' /\ Blocking'
    BY <1>0, <2>1, Advances DEF Preparing, Blocking, ScanOn
  <2>4. \A p \in Pages \ {i} : Unread(p)' = Unread(p) /\ Readable(p)' = Readable(p)
    BY <2>1, <1>0, Printing DEF Unread, Readable
  <2>5. sockets[i] # "closed" /\ NotClosed' = NotClosed
    BY <1>0, <1>2, <2>1 DEF Scanning, RecvReady, TypeOK, NotClosed
  <2>6. Scanning'
    BY <1>0, <2>1, <2>4, <2>5, Advances DEF Scanning, Complete, TypeOK, ScanOn
  <2> QED
    BY <2>2, <2>3, <2>6
<1>3. ASSUME RecvReady, RecvResult(i) = "zero" PROVE Inv'
  <2>1. /\ Close(i) /\ countDown' = countDown - 1 /\ ScanOn
        /\ UNCHANGED <<program, printed, asked, sent, ending, rfds>>
        /\ Unread(i) = 0 /\ ending[i] = "fin" /\ sockets[i] = "open"
    BY <1>0, <1>3 DEF RecvReady, RecvResult, Scanning, TypeOK
  <2>2. sockets'[i] = "closed" /\ \A p \in Pages \ {i} : sockets'[p] = sockets[p]
    BY <1>0, <2>1 DEF TypeOK, Close
  <2>3. TypeOK' /\ NothingUnasked'
    BY <1>0, <2>1, Advances DEF TypeOK, Places, NothingUnasked, ScanOn, Close
  <2>4. Preparing' /\ Blocking'
    BY <1>0, <2>1, Advances DEF Preparing, Blocking, ScanOn
  <2>5. countDown' = Cardinality(NotClosed')
    BY <1>0, <2>1, CloseCounts DEF Scanning
  <2>6. Scanning'
    BY <1>0, <2>1, <2>2, <2>5, Advances DEF Scanning, Complete, TypeOK, ScanOn, Readable, Unread
  <2> QED
    BY <2>3, <2>4, <2>6
<1>4. ASSUME RecvReady, RecvResult(i) \notin {"data", "zero"} PROVE Inv'
  <2>1. /\ at' = "gaveUp" /\ UNCHANGED <<program, i, sockets, net, printed, rfds, countDown>>
        /\ i \in rfds
    BY <1>4 DEF RecvReady
  <2>2. Readable(i) /\ Unread(i) \in Nat
    BY <1>0, <2>1 DEF Scanning, TypeOK, NothingUnasked, Unread
  <2>3. Unread(i) = 0 /\ ending[i] = "rst"
    BY <1>0, <1>4, <2>2 DEF RecvResult, Readable, TypeOK
  <2>4. TypeOK' /\ NothingUnasked'
    BY <2>1 DEF TypeOK, Places, NothingUnasked
  <2>5. Preparing' /\ Blocking'
    BY <1>0, <2>1 DEF Preparing, Blocking
  <2>6. Scanning'
    BY <1>0, <2>1, <2>3 DEF Scanning, Complete, NotClosed, Unread
  <2> QED
    BY <2>4, <2>5, <2>6
<1> QED
  BY <1>1, <1>2, <1>3, <1>4

LEMMA InvStep == Inv /\ [Next]_vars => Inv'
<1>1. ASSUME Inv, Next PROVE Inv'
  BY <1>1, ServerStep, ConnectStep, AskStep, RecvBlockingStep, SelectStep, ScanStep DEF Next, Client
<1>2. ASSUME Inv, UNCHANGED vars PROVE Inv'
  BY <1>2 DEF Inv, TypeOK, NothingUnasked, Preparing, Blocking, Scanning, Complete, NotClosed,
              Readable, Unread, vars, net
<1> QED
  BY <1>1, <1>2

LEMMA InvAlways == Spec => []Inv
  BY InitInv, InvStep, PTL DEF Spec

-----------------------------------------------------------------------------

\* The variables keep their types; no more is printed of a page than a page has.
THEOREM TypeCorrect == Spec => []TypeOK
<1>1. Inv => TypeOK
  BY DEF Inv
<1> QED
  BY <1>1, InvAlways, PTL

\* httpclient-block prints the pages one after the other, each to its end, and
\* returns when all have ended.
THEOREM PagesInOrder == Spec => []OneAfterAnother
<1>1. Inv => OneAfterAnother
  <2> SUFFICES ASSUME Inv, program = "block" PROVE OneAfterAnother
    BY DEF OneAfterAnother
  <2>1. ASSUME NEW p \in Pages, NEW q \in Pages, p < q, printed[q] > 0
        PROVE  sockets[p] = "closed"
    BY <2>1, PagesAreFinite DEF Inv, TypeOK, Preparing, Blocking
  <2> QED
    BY <2>1 DEF Inv, Blocking, OneAfterAnother
<1> QED
  BY <1>1, InvAlways, PTL

\* httpclient-nonblock returns when every page is complete, and gives up only on a
\* reset connection whose page was printed as far as it came.
THEOREM ClientEndsForAReason == Spec => []EndsForAReason
<1>1. Inv => EndsForAReason
  <2> SUFFICES ASSUME Inv, program = "nonblock" PROVE EndsForAReason
    BY DEF EndsForAReason
  <2>1. at = "returned" => \A p \in Pages : sockets[p] = "closed"
    BY NotClosedIsFinite DEF Inv, Scanning, NotClosed
  <2> QED
    BY <2>1 DEF Inv, Scanning, EndsForAReason, NotClosed
<1> QED
  BY <1>1, InvAlways, PTL
=============================================================================
