------------------------- MODULE HandshakeNetProofs -------------------------
(***************************************************************************)
(* What holds of HandshakeNet whichever server it is: the types that its   *)
(* clients keep, the stages that the conversation of a server with one     *)
(* client goes through, that clients keep to them, and that its steps are  *)
(* steps of HandshakeService.                                              *)
(***************************************************************************)
EXTENDS HandshakeNet, SequenceTheorems, TLAPS

\* Whatever the mathematical result, a C int is between INT_MIN and INT_MAX.
LEMMA WrapIsInt == \A n \in Int : Wrap(n) \in CInt
<1> SUFFICES ASSUME NEW n \in Int PROVE Wrap(n) \in CInt
  OBVIOUS
<1> DEFINE m == 2 * (MaxInt + 1)
<1>1. m \in Nat \ {0}
  BY NetAssumption
<1>2. (n + MaxInt + 1) % m \in 0 .. m - 1
  BY <1>1, NetAssumption
<1> QED
  BY <1>2, NetAssumption DEF Wrap, CInt

LEMMA IntsAreIntegers == CInt \subseteq Int /\ MaxInt \in Nat /\ 0 \in CInt
BY NetAssumption DEF CInt

\* The answer to a C int is a C int.
LEMMA AnswerIsInt == \A n \in CInt : Wrap(n + 1) \in CInt
<1> SUFFICES ASSUME NEW n \in CInt PROVE Wrap(n + 1) \in CInt
  OBVIOUS
<1>1. n + 1 \in Int
  BY IntsAreIntegers
<1> QED
  BY <1>1, WrapIsInt

\* A function to sequences after one of them grows or is emptied.
LEMMA Growing ==
    ASSUME NEW D, NEW R, NEW f \in [D -> Seq(R)], NEW d \in D, NEW r \in R
    PROVE  [f EXCEPT ![d] = Append(@, r)] \in [D -> Seq(R)]
<1>1. Append(f[d], r) \in Seq(R)
  OBVIOUS
<1> QED
  BY <1>1

LEMMA Clearing ==
    ASSUME NEW D, NEW R, NEW f \in [D -> Seq(R)], NEW d \in D
    PROVE  [f EXCEPT ![d] = << >>] \in [D -> Seq(R)]
<1>1. << >> \in Seq(R)
  OBVIOUS
<1> QED
  BY <1>1

LEMMA HeadIsElement ==
    ASSUME NEW R, NEW s \in Seq(R), s # << >>
    PROVE  Head(s) \in R /\ Tail(s) \in Seq(R)
OBVIOUS

LEMMA AppendIsSeq ==
    ASSUME NEW R, NEW s \in Seq(R), NEW r \in R
    PROVE  Append(s, r) \in Seq(R)
OBVIOUS

-----------------------------------------------------------------------------
\* A message sent by a client is a C int on its way, or lost.
LEMMA ClientSendTypes ==
    ASSUME NetTypeOK, NEW c \in Clients, NEW n \in CInt, NEW l \in ClientPCs,
           ClientSend(c, n, l)
    PROVE  /\ toServer' \in [Clients -> Seq(CInt)]
           /\ cpc' \in [Clients -> ClientPCs]
           /\ toServer' = toServer \/ toServer' = [toServer EXCEPT ![c] = Append(@, n)]
<1>1. toServer \in [Clients -> Seq(CInt)] /\ cpc \in [Clients -> ClientPCs]
  BY DEF NetTypeOK
<1>2. toServer' = toServer \/ toServer' = [toServer EXCEPT ![c] = Append(@, n)]
  BY DEF ClientSend
<1>3. [toServer EXCEPT ![c] = Append(@, n)] \in [Clients -> Seq(CInt)]
  BY <1>1, Growing
<1>4. cpc' \in [Clients -> ClientPCs]
  BY <1>1 DEF ClientSend, Goto, ClientPCs
<1> QED
  BY <1>1, <1>2, <1>3, <1>4

\* A client's step keeps the types of the network.
LEMMA ClientTypes ==
    ASSUME NetTypeOK, NEW c \in Clients, Connect(c) \/ ClientStep(c) \/ Kill(c)
    PROVE  NetTypeOK'
<1>0. /\ xNum[c] \in CInt
      /\ Wrap(yNum[c] + 1) \in CInt
      /\ {"recvY", "sendZ", "close", "failed", "done", "sendX"} \subseteq ClientPCs
  BY AnswerIsInt DEF NetTypeOK, ClientPCs
<1>1. CASE Connect(c)
  <2>1. backlog' \in Seq(Clients)
    <3>1. backlog \in Seq(Clients)
      BY DEF NetTypeOK
    <3>2. backlog' = Append(backlog, c) \/ backlog' = backlog
      BY <1>1 DEF Connect
    <3> QED
      BY <3>1, <3>2, AppendIsSeq
  <2>2. cpc' \in [Clients -> ClientPCs]
    BY <1>0, <1>1 DEF Connect, NetTypeOK, Goto
  <2> QED
    BY <1>1, <2>1, <2>2 DEF Connect, NetTypeOK
<1>2. CASE SendX(c)
  <2>1. toServer' \in [Clients -> Seq(CInt)] /\ cpc' \in [Clients -> ClientPCs]
    BY <1>0, <1>2, ClientSendTypes DEF SendX
  <2> QED
    BY <1>2, <2>1 DEF SendX, NetTypeOK
<1>3. CASE RecvY(c)
  <2>1. cpc' \in [Clients -> ClientPCs]
    BY <1>0, <1>3 DEF RecvY, NetTypeOK, Goto
  <2>2. yNum' \in [Clients -> CInt] /\ toClient' \in [Clients -> Seq(CInt)]
    <3>1. toClient \in [Clients -> Seq(CInt)] /\ yNum \in [Clients -> CInt]
      BY DEF NetTypeOK
    <3>2. CASE toClient[c] # << >>
      <4>1. Head(toClient[c]) \in CInt
        BY <3>1, <3>2, HeadIsElement
      <4>2. yNum' = [yNum EXCEPT ![c] = Head(toClient[c])]
        BY <1>3, <3>2 DEF RecvY
      <4>3. toClient' = [toClient EXCEPT ![c] = << >>]
        BY <1>3, <3>2 DEF RecvY
      <4> QED
        BY <3>1, <4>1, <4>2, <4>3, Clearing
    <3>3. CASE toClient[c] = << >>
      BY <1>3, <3>1, <3>3 DEF RecvY
    <3> QED
      BY <3>2, <3>3
  <2> QED
    BY <1>3, <2>1, <2>2 DEF RecvY, NetTypeOK
<1>4. CASE SendZ(c)
  <2>1. toServer' \in [Clients -> Seq(CInt)] /\ cpc' \in [Clients -> ClientPCs]
    BY <1>0, <1>4, ClientSendTypes DEF SendZ
  <2> QED
    BY <1>4, <2>1 DEF SendZ, NetTypeOK
<1>5. CASE Close(c)
  BY <1>0, <1>5 DEF Close, NetTypeOK, Goto
<1>6. CASE Kill(c)
  BY <1>0, <1>6 DEF Kill, NetTypeOK, Goto
<1> QED
  BY <1>1, <1>2, <1>3, <1>4, <1>5, <1>6 DEF ClientStep

\* The next message of a stream that holds one, and the stream it leaves.
LEMMA ReceivedTypes ==
    ASSUME NetTypeOK, NEW c \in Clients
    PROVE  /\ toServer[c] # << >> => Received(c) \in CInt
           /\ Drain(c) => toServer' \in [Clients -> Seq(CInt)]
<1>1. toServer \in [Clients -> Seq(CInt)] /\ toServer[c] \in Seq(CInt)
  BY DEF NetTypeOK
<1>2. toServer[c] # << >> => Received(c) \in CInt
  BY <1>1, HeadIsElement DEF Received
<1>3. Drain(c) => toServer' \in [Clients -> Seq(CInt)]
  BY <1>1, Clearing DEF Drain
<1> QED
  BY <1>2, <1>3

\* What the server prints and sends are ints.
LEMMA OutputTypes ==
    ASSUME NetTypeOK, NEW c \in Clients, NEW n \in CInt
    PROVE  /\ Fputs(c, n) => printed' \in [Clients -> Seq(CInt)]
           /\ ServerSend(c, n) => toClient' \in [Clients -> Seq(CInt)]
<1>1. printed \in [Clients -> Seq(CInt)] /\ toClient \in [Clients -> Seq(CInt)]
  BY DEF NetTypeOK
<1>2. Fputs(c, n) => printed' \in [Clients -> Seq(CInt)]
  BY <1>1, Growing DEF Fputs
<1>3. ServerSend(c, n) => toClient' \in [Clients -> Seq(CInt)]
  BY <1>1, Growing DEF ServerSend
<1> QED
  BY <1>2, <1>3

\* A step of a client never makes an end of file or a waiting message go away.
LEMMA ClientKeepsReadable ==
    ASSUME NetTypeOK, NEW c \in Clients, Connect(c) \/ ClientStep(c) \/ Kill(c),
           NEW d \in Clients, Readable(d)
    PROVE  Readable(d)'
<1>1. cpc \in [Clients -> ClientPCs] /\ toServer \in [Clients -> Seq(CInt)]
  BY DEF NetTypeOK
<1>2. Ended(d) => Ended(d)'
  BY <1>1 DEF Ended, Goto, ClientStep, Connect, SendX, SendZ, ClientSend, RecvY, Close, Kill
<1>3. toServer[d] # << >> => toServer'[d] # << >>
  <2>1. toServer' = toServer
        \/ \E n \in CInt : toServer' = [toServer EXCEPT ![c] = Append(@, n)]
    <3>1. xNum[c] \in CInt /\ Wrap(yNum[c] + 1) \in CInt
      BY AnswerIsInt DEF NetTypeOK
    <3> QED
      BY <3>1 DEF ClientStep, Connect, SendX, SendZ, ClientSend, RecvY, Close, Kill
  <2>2. ASSUME NEW n \in CInt, toServer' = [toServer EXCEPT ![c] = Append(@, n)],
               toServer[d] # << >>
        PROVE  toServer'[d] # << >>
    <3>1. Append(toServer[c], n) # << >>
      BY <1>1
    <3> QED
      BY <1>1, <2>2, <3>1
  <2> QED
    BY <2>1, <2>2
<1> QED
  BY <1>2, <1>3 DEF Readable

-----------------------------------------------------------------------------
(* Overflow of ints. *)

\* A number within the range of a modulus is what the modulus leaves of it.
LEMMA ModUnique ==
    ASSUME NEW a \in Int, NEW m \in Nat \ {0}, NEW q \in Int, NEW r \in 0 .. m - 1, a = m * q + r
    PROVE  a % m = r
<1> DEFINE p == a \div m
           s == a % m
<1>1. p \in Int /\ s \in 0 .. m - 1 /\ a = m * p + s
  OBVIOUS
<1>2. m * (q - p) = s - r
  BY <1>1
<1> HIDE DEF p, s
<1>3. s - r < m /\ s - r > -m
  BY <1>1
<1>4. ASSUME q - p >= 1 PROVE FALSE
  <2>1. m * (q - p) >= m
    BY <1>1, <1>4
  <2> QED
    BY <1>1, <1>2, <1>3, <2>1
<1>5. ASSUME q - p <= -1 PROVE FALSE
  <2>1. m * (q - p) <= -m
    BY <1>1, <1>5
  <2> QED
    BY <1>1, <1>2, <1>3, <2>1
<1>6. q = p
  BY <1>1, <1>4, <1>5
<1>7. s = r
  BY <1>1, <1>2, <1>6
<1> QED
  BY <1>7 DEF s

LEMMA DivMod ==
    ASSUME NEW a \in Int, NEW m \in Nat \ {0}
    PROVE  a % m \in 0 .. m - 1 /\ a \div m \in Int /\ a = m * (a \div m) + (a % m)
OBVIOUS

\* One may reduce before adding.
LEMMA ModShift ==
    ASSUME NEW a \in Int, NEW m \in Nat \ {0}
    PROVE  ((a % m) + 1) % m = (a + 1) % m
<1> DEFINE r == a % m
           s == (r + 1) % m
           p == a \div m
           q == (r + 1) \div m
<1>1. r \in 0 .. m - 1 /\ p \in Int /\ a = m * p + r
  BY DivMod
<1>2. s \in 0 .. m - 1 /\ q \in Int /\ r + 1 = m * q + s
  <2>1. r + 1 \in Int
    BY <1>1
  <2> HIDE DEF r
  <2> QED
    BY <2>1, DivMod
<1> HIDE DEF r, s, p, q
<1>3. a + 1 = m * (p + q) + s
  BY <1>1, <1>2
<1>4. (a + 1) % m = s
  BY <1>1, <1>2, <1>3, ModUnique
<1> QED
  BY <1>4 DEF s, r

\* Overflowing twice is the same as overflowing once.
LEMMA WrapOnce == \A n \in Int : Wrap(Wrap(n) + 1) = Wrap(n + 1)
<1> SUFFICES ASSUME NEW n \in Int PROVE Wrap(Wrap(n) + 1) = Wrap(n + 1)
  OBVIOUS
<1> DEFINE m == 2 * (MaxInt + 1)
           a == n + MaxInt + 1
<1>1. m \in Nat \ {0} /\ a \in Int
  BY NetAssumption
<1>2. a % m \in Int
  BY <1>1, DivMod
<1>3. Wrap(n) + 1 + MaxInt + 1 = (a % m) + 1
  BY <1>2, NetAssumption DEF Wrap
<1>4. n + 1 + MaxInt + 1 = a + 1
  BY NetAssumption
<1>5. ((a % m) + 1) % m = (a + 1) % m
  BY <1>1, ModShift
<1> QED
  BY <1>3, <1>4, <1>5 DEF Wrap

-----------------------------------------------------------------------------
(***************************************************************************)
(* The conversation with one client, as far as its server has come.  Each  *)
(* stage names what may be in the two streams while the client is at each  *)
(* of its calls; nothing in it depends on how the server is built.         *)
(***************************************************************************)
Y(c) == Wrap(xNum[c] + 1)
Z(c) == Wrap(Y(c) + 1)

\* The server has not received X.
Unread(c) ==
    /\ printed[c] = << >> /\ toClient[c] = << >>
    /\ \/ toServer[c] = << >> /\ cpc[c] \in {"connect", "sendX", "failed"}
       \/ toServer[c] = <<xNum[c]>> /\ cpc[c] \in {"recvY", "failed"}

\* It has received and printed X and not sent Y.
Asked(c) ==
    /\ printed[c] = <<xNum[c]>> /\ toClient[c] = << >>
    /\ toServer[c] = << >> /\ cpc[c] \in {"recvY", "failed"}

\* It has sent Y and not received Z.
Answered(c) ==
    /\ printed[c] = <<xNum[c]>>
    /\ \/ /\ toClient[c] = <<Y(c)>> /\ toServer[c] = << >>
          /\ cpc[c] \in {"recvY", "failed"}
       \/ /\ toClient[c] = << >> /\ toServer[c] = << >>
          /\ cpc[c] = "failed" \/ (cpc[c] = "sendZ" /\ yNum[c] = Y(c))
       \/ /\ toClient[c] = << >> /\ toServer[c] = <<Z(c)>>
          /\ cpc[c] \in {"close", "done", "failed"}

\* It has received and printed Z.  A thread that took Z for an X answers it, and
\* the client, which has nothing more to read, leaves the answer where it is.
Finished(c) ==
    /\ printed[c] = <<xNum[c], Z(c)>> /\ Len(toClient[c]) <= 1
    /\ toServer[c] = << >> /\ cpc[c] \in {"close", "done", "failed"}

Stage(c, k) ==
    /\ k \in {"unread", "asked", "answered", "finished"}
    /\ k = "unread" => Unread(c)
    /\ k = "asked" => Asked(c)
    /\ k = "answered" => Answered(c)
    /\ k = "finished" => Finished(c)

\* What is left of that when the server is gone.
Leftover(c) ==
    /\ Len(toServer[c]) <= 1 /\ Len(toClient[c]) <= 1
    /\ (toClient[c] # << >> \/ cpc[c] \in {"sendZ", "close", "done"}) => printed[c] # << >>

LEMMA StageLeaves ==
    ASSUME NetTypeOK, NEW c \in Clients, NEW k, Stage(c, k)
    PROVE  Leftover(c)
<1>1. \A n : << >> # <<n>> /\ Len(<<n>>) <= 1 /\ Len(<< >>) <= 1
  OBVIOUS
<1>2. << >> # <<xNum[c], Z(c)>>
  OBVIOUS
<1>3. CASE Unread(c)
  BY <1>1, <1>3 DEF Unread, Leftover
<1>4. CASE Asked(c)
  BY <1>1, <1>4 DEF Asked, Leftover
<1>5. CASE Answered(c)
  BY <1>1, <1>5 DEF Answered, Leftover
<1>6. CASE Finished(c)
  BY <1>1, <1>2, <1>6 DEF Finished, Leftover
<1> QED
  BY <1>3, <1>4, <1>5, <1>6 DEF Stage

\* What a step of a client touches: the client and its two streams.
LEMMA ClientIsAlone ==
    ASSUME NetTypeOK, NEW d \in Clients, Connect(d) \/ ClientStep(d) \/ Kill(d)
    PROVE  /\ UNCHANGED <<xNum, srvClosed, printed, up>>
           /\ \A c \in Clients : c # d =>
                /\ cpc'[c] = cpc[c] /\ yNum'[c] = yNum[c]
                /\ toServer'[c] = toServer[c] /\ toClient'[c] = toClient[c]
BY DEF NetTypeOK, Connect, ClientStep, SendX, RecvY, SendZ, Close, Kill, ClientSend, Goto

LEMMA OthersStay ==
    ASSUME NetTypeOK, NEW d \in Clients, Connect(d) \/ ClientStep(d) \/ Kill(d),
           NEW c \in Clients, c # d
    PROVE  /\ \A k : Stage(c, k) => Stage(c, k)'
           /\ Leftover(c) => Leftover(c)'
BY ClientIsAlone DEF Stage, Unread, Asked, Answered, Finished, Leftover, Y, Z

\* The client keeps its side of the conversation, at whatever stage it is.
LEMMA ClientConverses ==
    ASSUME NetTypeOK, NEW c \in Clients, Connect(c) \/ ClientStep(c) \/ Kill(c),
           up, NEW k, Stage(c, k), c \in srvClosed => k = "finished"
    PROVE  Stage(c, k)'
<1> USE DEF Stage, Y, Z, Goto
<1>0. /\ cpc \in [Clients -> ClientPCs]
      /\ toServer \in [Clients -> Seq(CInt)] /\ toClient \in [Clients -> Seq(CInt)]
      /\ yNum \in [Clients -> CInt]
      /\ UNCHANGED <<xNum, printed>>
  BY ClientIsAlone DEF NetTypeOK
<1>1. \A n : << >> # <<n>> /\ Append(<< >>, n) = <<n>> /\ Head(<<n>>) = n
  OBVIOUS
<1>2. CASE Connect(c)
  BY <1>0, <1>1, <1>2 DEF Connect, Unread, Asked, Answered, Finished
<1>3. CASE SendX(c)
  BY <1>0, <1>1, <1>3 DEF SendX, ClientSend, PeerGone, Unread, Asked, Answered, Finished
<1>4. CASE RecvY(c)
  BY <1>0, <1>1, <1>4 DEF RecvY, PeerGone, Unread, Asked, Answered, Finished
<1>5. CASE SendZ(c)
  BY <1>0, <1>1, <1>5 DEF SendZ, ClientSend, PeerGone, Unread, Asked, Answered, Finished
<1>6. CASE Close(c)
  BY <1>0, <1>1, <1>6 DEF Close, Unread, Asked, Answered, Finished
<1>7. CASE Kill(c)
  BY <1>0, <1>1, <1>7 DEF Kill, Ended, Unread, Asked, Answered, Finished
<1> QED
  BY <1>2, <1>3, <1>4, <1>5, <1>6, <1>7 DEF ClientStep

\* Once the server is gone nothing is added to what is left.
LEMMA ClientWindsUp ==
    ASSUME NetTypeOK, NEW c \in Clients, Connect(c) \/ ClientStep(c) \/ Kill(c),
           ~up, Leftover(c)
    PROVE  Leftover(c)'
<1>0. /\ cpc \in [Clients -> ClientPCs]
      /\ toServer \in [Clients -> Seq(CInt)] /\ toClient \in [Clients -> Seq(CInt)]
      /\ toServer' = toServer /\ toClient' \in {toClient, [toClient EXCEPT ![c] = << >>]}
      /\ UNCHANGED <<xNum, printed>>
  BY ClientIsAlone DEF NetTypeOK, Connect, ClientStep, SendX, RecvY, SendZ, Close, Kill, ClientSend,
          PeerGone
<1>1. Len(<< >>) = 0
  OBVIOUS
<1>2. Len(toServer'[c]) <= 1 /\ Len(toClient'[c]) <= 1
  BY <1>0, <1>1 DEF Leftover
<1> QED
  BY <1>0, <1>2 DEF Leftover, Connect, ClientStep, SendX, RecvY, SendZ, Close, Kill,
          ClientSend, PeerGone, Goto

-----------------------------------------------------------------------------
(***************************************************************************)
(* The steps of the clients, and of a server on one conversation, in       *)
(* HandshakeService.                                                       *)
(***************************************************************************)
Outcomes == [c \in Clients |-> Outcome(c)]

LEMMA OutcomeIs ==
    ASSUME NEW c
    PROVE  /\ cpc[c] = "done" => Outcome(c) = "ok"
           /\ cpc[c] = "failed" => Outcome(c) = "failed"
           /\ cpc[c] \notin {"done", "failed"} => Outcome(c) = "running"
BY DEF Outcome

LEMMA OutcomeNext ==
    ASSUME NEW c
    PROVE  /\ cpc'[c] = "done" => Outcome(c)' = "ok"
           /\ cpc'[c] = "failed" => Outcome(c)' = "failed"
           /\ cpc'[c] \notin {"done", "failed"} => Outcome(c)' = "running"
BY DEF Outcome

\* Z, which is computed from Y, is X + 2.
LEMMA ZIsX2 ==
    ASSUME NetTypeOK, NEW c \in Clients
    PROVE  Z(c) = Service!Wrap(xNum[c] + 2)
<1>1. xNum[c] \in Int
  BY IntsAreIntegers DEF NetTypeOK
<1>2. Wrap(Wrap(xNum[c] + 1) + 1) = Wrap(xNum[c] + 1 + 1)
  BY <1>1, WrapOnce
<1>3. xNum[c] + 1 + 1 = xNum[c] + 2
  BY <1>1
<1> QED
  BY <1>2, <1>3 DEF Y, Z, Wrap, Service!Wrap

\* How a client's step changes its outcome, and nothing else of the service.
LEMMA OutcomeChanges ==
    ASSUME NetTypeOK, NEW c \in Clients, Connect(c) \/ ClientStep(c) \/ Kill(c)
    PROVE  /\ UNCHANGED <<xNum, printed, up>>
           /\ Outcomes' = [Outcomes EXCEPT ![c] = Outcome(c)']
<1>1. \A d \in Clients : d # c => Outcome(d)' = Outcome(d)
  BY ClientIsAlone DEF Outcome
<1> QED
  BY <1>1, ClientIsAlone DEF Outcomes

LEMMA ClientRefines ==
    ASSUME NetTypeOK, NEW c \in Clients, Connect(c) \/ ClientStep(c) \/ Kill(c), NEW k,
           up => Stage(c, k) /\ (c \in srvClosed => k = "finished"),
           ~up => Leftover(c)
    PROVE  Service!Next \/ UNCHANGED Service!vars
<1>1. cpc \in [Clients -> ClientPCs] /\ cpc' \in [Clients -> ClientPCs]
  BY ClientTypes DEF NetTypeOK
<1>2. Leftover(c)
  BY StageLeaves
<1>3. CASE cpc'[c] = "failed" /\ cpc[c] \notin {"done", "failed"}
  <2>1. c \in Fragile \/ ~up
    <3> SUFFICES ASSUME up, c \notin Fragile PROVE FALSE
      OBVIOUS
    <3>1. cpc[c] \in {"sendX", "recvY", "sendZ"} => c \notin srvClosed
      BY DEF Stage, Finished
    <3>2. CASE SendX(c) \/ SendZ(c)
      BY <1>1, <1>3, <3>1, <3>2 DEF SendX, SendZ, ClientSend, PeerGone, Goto
    <3>3. CASE RecvY(c)
      <4>1. \A n : Head(<<n>>) = n
        OBVIOUS
      <4>2. cpc[c] = "recvY" /\ toClient[c] # << >> => Head(toClient[c]) = Y(c)
        BY <4>1 DEF Stage, Unread, Asked, Answered, Finished
      <4> QED
        BY <1>1, <1>3, <3>1, <3>3, <4>2 DEF RecvY, PeerGone, Goto, Y, NetTypeOK
    <3>4. CASE Connect(c) \/ Close(c)
      BY <1>1, <1>3, <3>4 DEF Connect, Close, Goto
    <3> QED
      BY <3>2, <3>3, <3>4 DEF ClientStep, Kill
  <2>2. Service!ClientFails(c)
    BY <1>3, <2>1, OutcomeIs, OutcomeNext, OutcomeChanges DEF Service!ClientFails, Outcomes
  <2> QED
    BY <2>2 DEF Service!Next
<1>4. CASE cpc'[c] = "done" /\ cpc[c] \notin {"done", "failed"}
  <2>1. printed[c] # << >>
    BY <1>1, <1>2, <1>4 DEF Connect, ClientStep, SendX, RecvY, SendZ, Close, Kill, ClientSend,
          Goto, Leftover
  <2>2. Service!ClientEnds(c)
    BY <1>4, <2>1, OutcomeIs, OutcomeNext, OutcomeChanges DEF Service!ClientEnds, Outcomes
  <2> QED
    BY <2>2 DEF Service!Next
<1>5. CASE cpc'[c] \notin {"done", "failed"} /\ cpc[c] \notin {"done", "failed"}
  <2>1. Outcome(c)' = Outcome(c)
    BY <1>5, OutcomeIs, OutcomeNext
  <2>2. Outcomes' = Outcomes
    BY <2>1, OutcomeChanges DEF Outcomes
  <2> QED
    BY <2>2, OutcomeChanges DEF Service!vars, Outcomes
<1>6. cpc[c] \notin {"done", "failed"}
  BY DEF Connect, ClientStep, SendX, RecvY, SendZ, Close, Kill, Ended
<1> QED
  BY <1>3, <1>4, <1>5, <1>6

\* A step that leaves clients and printed messages alone and does not end the server.
LEMMA Stutters ==
    ASSUME UNCHANGED <<cpc, xNum, printed, up>>
    PROVE  UNCHANGED Service!vars
BY DEF Service!vars, Outcome

\* The server receives and prints X.
LEMMA PrintsX ==
    ASSUME NetTypeOK, NEW c \in Clients, up, Unread(c), toServer[c] # << >>,
           Fputs(c, Received(c)), UNCHANGED <<cpc, xNum, up>>
    PROVE  Service!Next
<1>1. Received(c) = xNum[c] /\ printed[c] = << >>
  BY DEF Unread, Received
<1>2. Service!PrintFirst(c)
  BY <1>1 DEF Service!PrintFirst, Service!Fputs, Fputs, Outcome
<1> QED
  BY <1>2 DEF Service!Next

\* The server receives and prints Z.
LEMMA PrintsZ ==
    ASSUME NetTypeOK, NEW c \in Clients, up, Answered(c), toServer[c] # << >>,
           Fputs(c, Received(c)), UNCHANGED <<cpc, xNum, up>>
    PROVE  Service!Next
<1>1. Received(c) = Z(c) /\ printed[c] = <<xNum[c]>>
  BY DEF Answered, Received
<1>2. Service!PrintSecond(c)
  BY <1>1, ZIsX2 DEF Service!PrintSecond, Service!Fputs, Fputs, Outcome
<1> QED
  BY <1>2 DEF Service!Next

\* The server exits because a client that it waits for has ended.
LEMMA ExitsForFailed ==
    ASSUME NetTypeOK, NEW c \in Clients, up, Unread(c) \/ Answered(c), toServer[c] = << >>,
           Readable(c), Exit, UNCHANGED <<cpc, xNum, printed>>
    PROVE  Service!Next
<1>1. \A n : << >> # <<n>>
  OBVIOUS
<1>2. cpc[c] = "failed"
  BY <1>1 DEF Unread, Answered, Readable, Ended
<1>3. Service!ServerExits
  BY <1>2, OutcomeIs DEF Service!ServerExits, Exit, Outcome
<1> QED
  BY <1>3 DEF Service!Next

-----------------------------------------------------------------------------
(* What a server does to the stage of a conversation. *)

LEMMA ReceivesX ==
    ASSUME NetTypeOK, NEW c \in Clients, Unread(c), toServer[c] # << >>,
           Fputs(c, Received(c)), Drain(c), UNCHANGED <<clientVars, toClient>>
    PROVE  Asked(c)' /\ Received(c) = xNum[c]
<1>1. \A n : Head(<<n>>) = n /\ Append(<< >>, n) = <<n>>
  OBVIOUS
<1> QED
  BY <1>1 DEF NetTypeOK, Unread, Asked, Fputs, Drain, Received, clientVars

LEMMA SendsY ==
    ASSUME NetTypeOK, NEW c \in Clients, Asked(c), ServerSend(c, Y(c)),
           UNCHANGED <<clientVars, toServer, printed>>
    PROVE  Answered(c)'
<1>1. \A n : Append(<< >>, n) = <<n>>
  OBVIOUS
<1> QED
  BY <1>1 DEF NetTypeOK, Asked, Answered, ServerSend, Ended, clientVars, Y

LEMMA AppendSecond ==
    ASSUME NEW R, NEW p \in R, NEW n \in R
    PROVE  Append(<<p>>, n) = <<p, n>>
<1>1. /\ <<p, n>> \in Seq(R) /\ Append(<<p>>, n) \in Seq(R)
      /\ Len(<<p, n>>) = 2 /\ Len(Append(<<p>>, n)) = 2
  OBVIOUS
<1>2. Append(<<p>>, n)[1] = p /\ Append(<<p>>, n)[2] = n
  OBVIOUS
<1>3. \A i \in 1 .. 2 : Append(<<p>>, n)[i] = <<p, n>>[i]
  BY <1>2
<1> QED
  BY <1>1, <1>3, SeqEqual

LEMMA ReceivesZ ==
    ASSUME NetTypeOK, NEW c \in Clients, Answered(c), toServer[c] # << >>,
           Fputs(c, Received(c)), Drain(c), UNCHANGED <<clientVars, toClient>>
    PROVE  Finished(c)'
<1>1. xNum[c] \in CInt /\ Z(c) \in CInt
  BY AnswerIsInt DEF NetTypeOK, Y, Z
<1>2. Append(<<xNum[c]>>, Z(c)) = <<xNum[c], Z(c)>>
  BY <1>1, AppendSecond
<1>3. Head(<<Z(c)>>) = Z(c) /\ << >> # <<Z(c)>>
  OBVIOUS
<1>4. Received(c) = Z(c) /\ printed[c] = <<xNum[c]>> /\ cpc[c] \in {"close", "done", "failed"}
      /\ toClient[c] = << >> /\ Len(<< >>) = 0
  BY <1>3 DEF Answered, Received
<1> QED
  BY <1>2, <1>4 DEF NetTypeOK, Finished, Fputs, Drain, clientVars, Y, Z

LEMMA ZReceived ==
    ASSUME NetTypeOK, NEW c \in Clients, Answered(c), toServer[c] # << >>
    PROVE  Received(c) = Z(c)
BY DEF Answered, Received

\* A step that leaves a client, its streams and its messages alone.
LEMMA LeftAlone ==
    ASSUME NEW c, UNCHANGED clientVars, printed'[c] = printed[c],
           toServer'[c] = toServer[c], toClient'[c] = toClient[c]
    PROVE  /\ \A k : Stage(c, k) => Stage(c, k)'
           /\ Leftover(c) => Leftover(c)'
BY DEF Stage, Unread, Asked, Answered, Finished, Leftover, Y, Z, clientVars

\* At the start nothing has been said.
LEMMA AllUnread == NetInit => \A c \in Clients : Unread(c)
BY DEF NetInit, Unread

-----------------------------------------------------------------------------
(***************************************************************************)
(* What the clients of a server that implements HandshakeService can rely  *)
(* on.                                                                     *)
(***************************************************************************)

\* What has been printed for c is X, then X + 2, as far as it goes.
PrintedInOrder(c) == printed[c] \in {<< >>, <<xNum[c]>>, <<xNum[c], Wrap(xNum[c] + 2)>>}

\* Of a client that was not killed only its own numbers are printed, in order; one
\* that ends well had its X printed; and none fails while the server is up.
ClientsServed ==
    \A c \in Clients :
        /\ cpc[c] # "failed" \/ c \notin Fragile => PrintedInOrder(c)
        /\ cpc[c] = "done" => printed[c] # << >>
        /\ cpc[c] = "failed" => c \in Fragile \/ ~up

\* Only a client that is killed ends the server.
DownForAKill == ~up => \E c \in Fragile : cpc[c] = "failed"

\* The two are inductive in the service as long as it is steady, so that every server
\* that implements it so has them.
LEMMA OutcomesSay ==
    ASSUME NEW c \in Clients
    PROVE  /\ Outcomes[c] = "ok" <=> cpc[c] = "done"
           /\ Outcomes[c] = "failed" <=> cpc[c] = "failed"
           /\ Outcomes'[c] = "ok" <=> cpc'[c] = "done"
           /\ Outcomes'[c] = "failed" <=> cpc'[c] = "failed"
BY OutcomeIs, OutcomeNext DEF Outcomes

LEMMA StartsServed == NetInit => ClientsServed /\ DownForAKill
BY DEF NetInit, ClientsServed, PrintedInOrder, DownForAKill

\* A step of a steady service, seen from one client.
LEMMA ServiceChanges ==
    ASSUME NetTypeOK, ClientsServed, Service!Next, NEW c \in Clients
    PROVE  /\ xNum' = xNum
           /\ cpc'[c] = "failed" => cpc[c] = "failed" \/ c \in Fragile \/ ~up
           /\ cpc[c] = "failed" => cpc'[c] = "failed"
           /\ cpc'[c] = "done" => cpc[c] = "done" \/ printed[c] # << >>
           /\ \/ printed'[c] = printed[c]
              \/ printed[c] = << >> /\ printed'[c] = <<xNum[c]>>
              \/ printed[c] = <<xNum[c]>> /\ printed'[c] = <<xNum[c], Wrap(xNum[c] + 2)>>
              \/ cpc[c] = "failed" /\ up /\ printed[c] = << >> /\ printed'[c] # << >>
           /\ up' => up
<1> USE DEF NetTypeOK
<1>0. /\ \A d \in Clients : /\ Outcomes[d] = "ok" <=> cpc[d] = "done"
                            /\ Outcomes[d] = "failed" <=> cpc[d] = "failed"
                            /\ Outcomes'[d] = "ok" <=> cpc'[d] = "done"
                            /\ Outcomes'[d] = "failed" <=> cpc'[d] = "failed"
  BY OutcomesSay
<1>1. CASE Service!ServerExits
  BY <1>0, <1>1 DEF Service!ServerExits, Outcomes
<1>2. ASSUME NEW d \in Clients, NEW n,
             Service!Fputs(d, n)
      PROVE  /\ printed'[d] = Append(printed[d], n)
             /\ \A e \in Clients \ {d} : printed'[e] = printed[e]
  BY <1>2 DEF Service!Fputs
<1>3. /\ \A n : Append(<< >>, n) = <<n>> /\ <<n>> # << >>
      /\ xNum[c] \in CInt /\ Wrap(xNum[c] + 2) \in CInt
  <2>1. \A n : Append(<< >>, n) = <<n>> /\ <<n>> # << >>
    OBVIOUS
  <2>2. xNum[c] \in CInt /\ xNum[c] \in Int
    BY IntsAreIntegers
  <2>3. xNum[c] + 2 \in Int
    BY <2>2
  <2>4. Wrap(xNum[c] + 2) \in CInt
    BY <2>3, WrapIsInt
  <2> QED
    BY <2>1, <2>2, <2>4
<1>4. Append(<<xNum[c]>>, Wrap(xNum[c] + 2)) = <<xNum[c], Wrap(xNum[c] + 2)>>
  BY <1>3, AppendSecond
<1>5. Service!Wrap(xNum[c] + 2) = Wrap(xNum[c] + 2)
  BY DEF Wrap, Service!Wrap
<1>6. ASSUME NEW d \in Clients, Service!PrintFirst(d) \/ Service!PrintSecond(d) \/ Service!PrintForDead(d)
      PROVE  /\ UNCHANGED <<xNum, up>> /\ Outcomes' = Outcomes /\ up
             /\ \/ printed'[c] = printed[c]
                \/ printed[c] = << >> /\ printed'[c] = <<xNum[c]>>
                \/ printed[c] = <<xNum[c]>> /\ printed'[c] = <<xNum[c], Wrap(xNum[c] + 2)>>
                \/ cpc[c] = "failed" /\ up /\ printed[c] = << >> /\ printed'[c] # << >>
  <2>1. CASE Service!PrintFirst(d)
    BY <1>2, <1>3, <2>1 DEF Service!PrintFirst, Outcomes
  <2>2. CASE Service!PrintSecond(d)
    BY <1>2, <1>4, <1>5, <2>2 DEF Service!PrintSecond, Outcomes
  <2>3. CASE Service!PrintForDead(d)
    BY <1>0, <1>2, <1>3, <2>3 DEF Service!PrintForDead, Outcomes
  <2> QED
    BY <1>6, <2>1, <2>2, <2>3
<1>7. ASSUME NEW d \in Clients, Service!ClientEnds(d) \/ Service!ClientFails(d)
      PROVE  /\ UNCHANGED <<xNum, up, printed>>
             /\ cpc'[c] = "failed" => cpc[c] = "failed" \/ c \in Fragile \/ ~up
             /\ cpc[c] = "failed" => cpc'[c] = "failed"
             /\ cpc'[c] = "done" => cpc[c] = "done" \/ printed[c] # << >>
  <2>1. /\ UNCHANGED <<xNum, up, printed>>
        /\ Outcomes[d] = "running"
        /\ \/ printed[d] # << >> /\ Outcomes' = [Outcomes EXCEPT ![d] = "ok"]
           \/ (d \in Fragile \/ ~up) /\ Outcomes' = [Outcomes EXCEPT ![d] = "failed"]
    BY <1>7 DEF Service!ClientEnds, Service!ClientFails, Outcomes
  <2>2. \A e \in Clients \ {d} : Outcomes'[e] = Outcomes[e]
    BY <2>1 DEF Outcomes
  <2>3. DOMAIN Outcomes = Clients
    BY DEF Outcomes
  <2>4. \/ Outcomes'[d] = "ok" /\ printed[d] # << >>
        \/ Outcomes'[d] = "failed" /\ (d \in Fragile \/ ~up)
    BY <2>1, <2>3
  <2> QED
    BY <1>0, <2>1, <2>2, <2>4
<1> QED
  BY <1>0, <1>1, <1>6, <1>7 DEF Service!Next, Service!LastWords

\* A steady service goes down when a client has failed.
LEMMA ServiceGoesDown ==
    ASSUME Service!Next, up, ~up'
    PROVE  \E d \in Clients : cpc[d] = "failed"
<1>1. Service!ServerExits
  BY DEF Service!Next, Service!PrintFirst, Service!PrintSecond, Service!PrintForDead,
         Service!ClientEnds, Service!ClientFails, Service!LastWords
<1>2. \E d \in Clients : Outcomes[d] = "failed"
  BY <1>1 DEF Service!ServerExits, Outcomes
<1> QED
  BY <1>2, OutcomesSay

LEMMA ServiceServes ==
    ASSUME NetTypeOK, ClientsServed, Service!Next
    PROVE  ClientsServed' /\ (DownForAKill => DownForAKill')
<1>1. ASSUME NEW c \in Clients
      PROVE  /\ cpc'[c] # "failed" \/ c \notin Fragile => PrintedInOrder(c)'
             /\ cpc'[c] = "done" => printed'[c] # << >>
             /\ cpc'[c] = "failed" => c \in Fragile \/ ~up'
  <2>1. \A m, n : <<n>> # << >> /\ <<n, m>> # << >>
    OBVIOUS
  <2>2. printed[c] # << >> => printed'[c] # << >>
    BY <2>1, ServiceChanges
  <2>3. ASSUME cpc'[c] # "failed" \/ c \notin Fragile PROVE PrintedInOrder(c)'
    <3>1. PrintedInOrder(c) /\ (cpc[c] = "failed" => ~up)
      BY <2>3, ServiceChanges DEF ClientsServed
    <3> QED
      BY <3>1, ServiceChanges DEF PrintedInOrder
  <2> QED
    BY <2>2, <2>3, ServiceChanges DEF ClientsServed
<1>2. ASSUME DownForAKill PROVE DownForAKill'
  <2>1. \A d \in Clients : cpc[d] = "failed" => cpc'[d] = "failed"
    BY ServiceChanges
  <2>2. CASE ~up
    BY <1>2, <2>1, <2>2, NetAssumption DEF DownForAKill
  <2>3. CASE up /\ ~up'
    <3>1. PICK d \in Clients : cpc[d] = "failed"
      BY <2>3, ServiceGoesDown
    <3>2. d \in Fragile
      BY <2>3, <3>1 DEF ClientsServed
    <3> QED
      BY <2>1, <3>1, <3>2 DEF DownForAKill
  <2> QED
    BY <2>2, <2>3 DEF DownForAKill
<1> QED
  BY <1>1, <1>2 DEF ClientsServed

LEMMA StutterServes ==
    ASSUME UNCHANGED Service!vars
    PROVE  (ClientsServed => ClientsServed') /\ (DownForAKill => DownForAKill')
<1>1. UNCHANGED <<xNum, printed, up>> /\ Outcomes' = Outcomes
  BY DEF Service!vars, Outcomes
<1>2. \A c \in Clients : (cpc'[c] = "failed" <=> cpc[c] = "failed") /\ (cpc'[c] = "done" <=> cpc[c] = "done")
  BY <1>1, OutcomesSay
<1> QED
  BY <1>1, <1>2, NetAssumption DEF ClientsServed, PrintedInOrder, DownForAKill
=============================================================================
