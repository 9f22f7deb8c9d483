--------------------------- MODULE SeqServerProofs ---------------------------
(***************************************************************************)
(* Theorems about SeqServer for any number of clients, any inputs, any     *)
(* accept queue, and any clients that are killed at any time.              *)
(***************************************************************************)
EXTENDS SeqServer, HandshakeNetProofs

(***************************************************************************)
(* The inductive invariant.  Where the server stands tells the stage of    *)
(* every conversation: those it has closed are finished, those it has not  *)
(* accepted are unread, and the current one is where spc says.             *)
(***************************************************************************)
CurrentStage == CASE spc = "recvX" -> "unread"
                  [] spc = "sendY" -> "asked"
                  [] spc = "recvZ" -> "answered"
                  [] OTHER         -> "finished"

StageOf(c) == IF c \in srvClosed THEN "finished"
              ELSE IF c = cur THEN CurrentStage ELSE "unread"

Conversing == \A c \in Clients : IF up THEN Stage(c, StageOf(c)) ELSE Leftover(c)

\* sy is the answer that the current client gets.
AnswerKept == up /\ spc \in {"sendY", "recvZ"} => sy = Y(cur)

\* No connection is in two places.
Queued ==
    /\ cur = NoClient <=> spc = "accept"
    /\ cur # NoClient => cpc[cur] # "connect" /\ cur \notin srvClosed
    /\ \A k \in 1 .. Len(backlog) :
          cpc[backlog[k]] # "connect" /\ backlog[k] # cur /\ backlog[k] \notin srvClosed
    /\ \A j, k \in 1 .. Len(backlog) : backlog[j] = backlog[k] => j = k
    /\ \A c \in srvClosed : cpc[c] # "connect"

Inv == TypeOK /\ Queued /\ Conversing /\ AnswerKept

LEMMA StageNames ==
    /\ spc = "recvX" => CurrentStage = "unread"
    /\ spc = "sendY" => CurrentStage = "asked"
    /\ spc = "recvZ" => CurrentStage = "answered"
    /\ spc = "close" => CurrentStage = "finished"
BY DEF CurrentStage

LEMMA StageNamesNext ==
    /\ spc' = "recvX" => CurrentStage' = "unread"
    /\ spc' = "sendY" => CurrentStage' = "asked"
    /\ spc' = "recvZ" => CurrentStage' = "answered"
    /\ spc' = "close" => CurrentStage' = "finished"
BY DEF CurrentStage

LEMMA InitInv == Init => Inv
<1> SUFFICES ASSUME Init PROVE Inv
  OBVIOUS
<1>1. TypeOK
  <2>1. Inputs \subseteq CInt /\ 0 \in CInt
    BY NetAssumption, IntsAreIntegers DEF CInt
  <2>2. << >> \in Seq(CInt) /\ << >> \in Seq(Clients)
    OBVIOUS
  <2> QED
    BY <2>1, <2>2 DEF Init, NetInit, TypeOK, NetTypeOK, ServerPCs, ClientPCs
<1>2. Queued
  BY DEF Init, NetInit, Queued
<1>3. Conversing
  BY AllUnread, NetAssumption DEF Init, NetInit, Conversing, Stage, StageOf
<1> QED
  BY <1>1, <1>2, <1>3 DEF Init, AnswerKept, Inv

-----------------------------------------------------------------------------
LEMMA TypeStep == ASSUME TypeOK, Queued, Next PROVE TypeOK'
<1> USE DEF TypeOK, ServerPCs, serverVars
<1>0. /\ cur \notin Clients => spc = "accept"
      /\ spc # "accept" => cur \in Clients
  BY NetAssumption DEF Queued
<1>1. ASSUME NEW c \in Clients, Client(c) \/ (Kill(c) /\ UNCHANGED serverVars) PROVE TypeOK'
  BY <1>1, ClientTypes DEF Client
<1>2. CASE Accept
  <2>1. Head(backlog) \in Clients /\ Tail(backlog) \in Seq(Clients)
    BY <1>2, HeadIsElement DEF Accept, NetTypeOK
  <2> QED
    BY <1>2, <2>1 DEF Accept, NetTypeOK, clientVars
<1>3. CASE HungUp
  BY <1>3 DEF HungUp, Exit, NetTypeOK, clientVars
<1>4. CASE RecvX
  <2>1. Received(cur) \in CInt /\ toServer' \in [Clients -> Seq(CInt)]
    BY <1>0, <1>4, ReceivedTypes DEF RecvX
  <2>2. printed' \in [Clients -> Seq(CInt)] /\ Wrap(Received(cur) + 1) \in CInt
    BY <1>0, <1>4, <2>1, OutputTypes, AnswerIsInt DEF RecvX
  <2> QED
    BY <1>4, <2>1, <2>2 DEF RecvX, NetTypeOK, clientVars
<1>5. CASE SendY
  <2>1. toClient' \in [Clients -> Seq(CInt)]
    BY <1>0, <1>5, OutputTypes DEF SendY
  <2> QED
    BY <1>5, <2>1 DEF SendY, NetTypeOK, clientVars
<1>6. CASE RecvZ
  <2>1. Received(cur) \in CInt /\ toServer' \in [Clients -> Seq(CInt)]
    BY <1>0, <1>6, ReceivedTypes DEF RecvZ
  <2>2. printed' \in [Clients -> Seq(CInt)]
    BY <1>0, <1>6, <2>1, OutputTypes DEF RecvZ, NetTypeOK
  <2> QED
    BY <1>6, <2>1, <2>2 DEF RecvZ, Exit, NetTypeOK, clientVars
<1>7. CASE CloseConn
  BY <1>0, <1>7 DEF CloseConn, NetTypeOK, clientVars
<1>8. CASE Idle
  BY <1>8 DEF Idle, vars, netVars, NetTypeOK
<1> QED
  BY <1>1, <1>2, <1>3, <1>4, <1>5, <1>6, <1>7, <1>8 DEF Next, Server

LEMMA QueueStep == ASSUME TypeOK, Queued, Conversing, Next PROVE Queued'
<1> USE DEF Queued, serverVars
<1>0. /\ backlog \in Seq(Clients) /\ cpc \in [Clients -> ClientPCs] /\ NoClient \notin Clients
      /\ \A k \in 1 .. Len(backlog) : backlog[k] \in Clients
      /\ spc # "accept" => cur \in Clients
  BY NetAssumption DEF TypeOK, NetTypeOK
<1>1. ASSUME NEW c \in Clients, Client(c) \/ (Kill(c) /\ UNCHANGED serverVars) PROVE Queued'
  <2>1. UNCHANGED <<serverVars, srvClosed>>
    BY <1>1, ClientIsAlone DEF Client, TypeOK
  <2>2. \A d \in Clients : cpc[d] # "connect" => cpc'[d] # "connect"
    BY <1>0, <1>1 DEF Client, Connect, ClientStep, SendX, RecvY, SendZ, Close, Kill, ClientSend,
          Goto
  <2>3. CASE backlog' = backlog
    BY <1>0, <2>1, <2>2, <2>3 DEF TypeOK, NetTypeOK
  <2>4. CASE backlog' # backlog
    <3>1. Connect(c) /\ backlog' = Append(backlog, c) /\ cpc[c] = "connect"
          /\ cpc' = [cpc EXCEPT ![c] = "sendX"]
      BY <1>1, <2>4 DEF Client, Connect, ClientStep, SendX, RecvY, SendZ, Close, Kill, Goto
    <3>2. /\ Len(backlog') = Len(backlog) + 1 /\ Len(backlog) \in Nat
          /\ \A k \in 1 .. Len(backlog) : backlog'[k] = backlog[k]
          /\ backlog'[Len(backlog) + 1] = c
      BY <1>0, <3>1
    <3>3. c # cur /\ c \notin srvClosed /\ \A k \in 1 .. Len(backlog) : backlog[k] # c
      BY <1>0, <3>1
    <3>4. cpc'[c] # "connect" /\ cur' = cur /\ spc' = spc /\ srvClosed' = srvClosed
      BY <1>0, <2>1, <3>1
    <3>5. \A k \in 1 .. Len(backlog') : k \in 1 .. Len(backlog) \/ k = Len(backlog) + 1
      BY <3>2
    <3>6. ASSUME NEW k \in 1 .. Len(backlog')
          PROVE  cpc'[backlog'[k]] # "connect" /\ backlog'[k] # cur /\ backlog'[k] \notin srvClosed
      BY <1>0, <2>2, <3>2, <3>3, <3>4, <3>5
    <3>7. ASSUME NEW j \in 1 .. Len(backlog'), NEW k \in 1 .. Len(backlog'), backlog'[j] = backlog'[k]
          PROVE  j = k
      BY <3>2, <3>3, <3>5, <3>7
    <3>8. cur # NoClient => cpc'[cur] # "connect"
      BY <1>0, <2>2
    <3>9. \A d \in srvClosed : cpc'[d] # "connect"
      BY <2>2 DEF TypeOK, NetTypeOK
    <3> QED
      BY <3>4, <3>6, <3>7, <3>8, <3>9
  <2> QED
    BY <2>3, <2>4
<1>2. CASE Accept
  <2>1. /\ Len(backlog') = Len(backlog) - 1 /\ Len(backlog) \in Nat \ {0}
        /\ \A k \in 1 .. Len(backlog') : backlog'[k] = backlog[k + 1]
        /\ cur' = backlog[1]
    BY <1>0, <1>2 DEF Accept
  <2>2. UNCHANGED <<cpc, srvClosed>>
    BY <1>2 DEF Accept, clientVars
  <2>3. \A k \in 1 .. Len(backlog') : k + 1 \in 1 .. Len(backlog) /\ 1 \in 1 .. Len(backlog)
    BY <2>1
  <2>4. spc' = "recvX" /\ cur' \in Clients
    BY <1>0, <1>2, <2>1 DEF Accept
  <2>5. cpc'[cur'] # "connect" /\ cur' \notin srvClosed'
    BY <2>1, <2>2, <2>3
  <2>6. ASSUME NEW k \in 1 .. Len(backlog')
        PROVE  cpc'[backlog'[k]] # "connect" /\ backlog'[k] # cur' /\ backlog'[k] \notin srvClosed'
    <3>1. k + 1 \in 1 .. Len(backlog) /\ backlog'[k] = backlog[k + 1] /\ k + 1 # 1
      BY <2>1, <2>3
    <3>2. backlog[k + 1] # backlog[1]
      BY <2>1, <2>3, <3>1
    <3> QED
      BY <2>1, <2>2, <3>1, <3>2
  <2>7. ASSUME NEW j \in 1 .. Len(backlog'), NEW k \in 1 .. Len(backlog'), backlog'[j] = backlog'[k]
        PROVE  j = k
    BY <2>1, <2>3, <2>7
  <2>8. \A c \in srvClosed' : cpc'[c] # "connect"
    BY <2>2
  <2> QED
    BY <1>0, <2>4, <2>5, <2>6, <2>7, <2>8
<1>3. CASE HungUp \/ RecvX \/ SendY \/ RecvZ
  BY <1>0, <1>3 DEF HungUp, RecvX, SendY, RecvZ, clientVars
<1>4. CASE CloseConn
  BY <1>0, <1>4 DEF CloseConn, clientVars
<1>5. CASE Idle
  BY <1>5 DEF Idle, vars, netVars
<1> QED
  BY <1>1, <1>2, <1>3, <1>4, <1>5 DEF Next, Server

\* The conversations that the server does not work on stay where they are.
LEMMA OthersAsBefore ==
    ASSUME TypeOK, Conversing, NEW c \in Clients, up' = up,
           UNCHANGED clientVars, printed'[c] = printed[c],
           toServer'[c] = toServer[c], toClient'[c] = toClient[c], StageOf(c)' = StageOf(c)
    PROVE  IF up' THEN Stage(c, StageOf(c))' ELSE Leftover(c)'
BY LeftAlone DEF Conversing

LEMMA ConverseStep == ASSUME Inv, Next PROVE Conversing' /\ AnswerKept'
<1> USE DEF Inv, TypeOK, serverVars
<1>0. /\ spc # "accept" => cur \in Clients /\ cur \notin srvClosed
      /\ \A c \in Clients : c # NoClient
  BY NetAssumption DEF Queued
<1>1. ASSUME NEW d \in Clients, Client(d) \/ (Kill(d) /\ UNCHANGED serverVars)
      PROVE  Conversing' /\ AnswerKept'
  <2>1. UNCHANGED <<serverVars, srvClosed, xNum, up>>
    BY <1>1, ClientIsAlone DEF Client
  <2>2. \A c \in Clients : StageOf(c)' = StageOf(c)
    BY <2>1 DEF StageOf, CurrentStage
  <2>3. AnswerKept'
    BY <2>1 DEF AnswerKept, Y
  <2>4. ASSUME NEW c \in Clients, up PROVE Stage(c, StageOf(c))'
    <3>1. Stage(c, StageOf(c))
      BY <2>4 DEF Conversing
    <3>2. \A k : Stage(c, k) /\ (c \in srvClosed => k = "finished") => Stage(c, k)'
      BY <1>1, <2>4, ClientConverses, OthersStay DEF Client
    <3>3. c \in srvClosed => StageOf(c) = "finished"
      BY DEF StageOf
    <3> DEFINE k == StageOf(c)
    <3>4. Stage(c, k)'
      BY <2>2, <3>1, <3>2, <3>3 DEF Stage
    <3> QED
      BY <3>4
  <2>5. ASSUME NEW c \in Clients, ~up PROVE Leftover(c)'
    BY <1>1, <2>5, ClientWindsUp, OthersStay DEF Client, Conversing
  <2> QED
    BY <2>1, <2>3, <2>4, <2>5 DEF Conversing
<1>2. CASE up /\ Accept
  <2>1. UNCHANGED <<clientVars, toServer, toClient, printed, up, srvClosed>> /\ spc' = "recvX"
    BY <1>2 DEF Accept
  <2>2. cur = NoClient
    BY <1>2 DEF Accept, Queued
  <2>3. \A c \in Clients : StageOf(c)' = StageOf(c)
    BY <1>0, <2>1, <2>2, StageNamesNext DEF StageOf
  <2>4. Conversing'
    BY <2>1, <2>3, OthersAsBefore DEF Conversing
  <2> QED
    BY <2>1, <2>4 DEF AnswerKept
<1>3. CASE up /\ HungUp
  <2>1. UNCHANGED <<clientVars, toServer, toClient, printed>> /\ up' = FALSE
    BY <1>3 DEF HungUp, Exit
  <2>2. \A c \in Clients : Leftover(c)
    BY <1>3, StageLeaves DEF Conversing
  <2> QED
    BY <2>1, <2>2, LeftAlone DEF Conversing, AnswerKept
<1>4. CASE up /\ RecvX
  <2>1. /\ cur \in Clients /\ UNCHANGED <<clientVars, toClient, up, srvClosed, cur>>
        /\ spc = "recvX" /\ spc' = "sendY"
    BY <1>0, <1>4 DEF RecvX
  <2>2. Unread(cur)
    BY <1>0, <1>4, <2>1, StageNames DEF Conversing, StageOf, Stage
  <2>3. Asked(cur)' /\ Received(cur) = xNum[cur]
    BY <1>4, <2>1, <2>2, ReceivesX DEF RecvX
  <2>4. \A c \in Clients : c # cur => /\ printed'[c] = printed[c] /\ toServer'[c] = toServer[c]
                                      /\ StageOf(c)' = StageOf(c)
    BY <1>4, <2>1 DEF RecvX, Fputs, Drain, NetTypeOK, StageOf
  <2>5. Stage(cur, StageOf(cur))'
    BY <1>0, <2>1, <2>3, StageNamesNext DEF Stage, StageOf
  <2>6. Conversing'
    BY <1>4, <2>1, <2>4, <2>5, OthersAsBefore DEF Conversing
  <2>7. AnswerKept'
    BY <1>4, <2>1, <2>3 DEF RecvX, AnswerKept, Y, clientVars
  <2> QED
    BY <2>6, <2>7
<1>5. CASE up /\ SendY
  <2>1. /\ cur \in Clients /\ UNCHANGED <<clientVars, toServer, printed, up, srvClosed, cur, sy>>
        /\ spc = "sendY" /\ spc' = "recvZ"
    BY <1>0, <1>5 DEF SendY
  <2>2. Asked(cur) /\ sy = Y(cur)
    BY <1>0, <1>5, <2>1, StageNames DEF Conversing, StageOf, Stage, AnswerKept
  <2>3. Answered(cur)'
    BY <1>5, <2>1, <2>2, SendsY DEF SendY
  <2>4. \A c \in Clients : c # cur => /\ toClient'[c] = toClient[c]
                                      /\ StageOf(c)' = StageOf(c)
    BY <1>5, <2>1 DEF SendY, ServerSend, NetTypeOK, StageOf
  <2>5. Stage(cur, StageOf(cur))'
    BY <1>0, <2>1, <2>3, StageNamesNext DEF Stage, StageOf
  <2>6. Conversing'
    BY <1>5, <2>1, <2>4, <2>5, OthersAsBefore DEF Conversing
  <2>7. AnswerKept'
    BY <2>1, <2>2 DEF AnswerKept, Y, clientVars
  <2> QED
    BY <2>6, <2>7
<1>6. CASE up /\ RecvZ
  <2>1. cur \in Clients /\ UNCHANGED <<clientVars, toClient, srvClosed, cur>> /\ spc = "recvZ"
    BY <1>0, <1>6 DEF RecvZ
  <2>2. Answered(cur) /\ sy = Y(cur)
    BY <1>0, <1>6, <2>1, StageNames DEF Conversing, StageOf, Stage, AnswerKept
  <2>3. Received(cur) = Wrap(sy + 1)
    BY <1>6, <2>1, <2>2, ZReceived DEF RecvZ, Z
  <2>4. Fputs(cur, Received(cur)) /\ spc' = "close" /\ up' = up /\ Drain(cur)
    BY <1>6, <2>3 DEF RecvZ
  <2>5. Finished(cur)'
    BY <1>6, <2>1, <2>2, <2>4, ReceivesZ DEF RecvZ
  <2>6. \A c \in Clients : c # cur => /\ printed'[c] = printed[c] /\ toServer'[c] = toServer[c]
                                      /\ StageOf(c)' = StageOf(c)
    BY <2>1, <2>4 DEF Fputs, Drain, NetTypeOK, StageOf
  <2>7. Stage(cur, StageOf(cur))'
    BY <1>0, <2>1, <2>4, <2>5, StageNamesNext DEF Stage, StageOf
  <2>8. Conversing'
    BY <1>6, <2>1, <2>4, <2>6, <2>7, OthersAsBefore DEF Conversing
  <2> QED
    BY <2>4, <2>8 DEF AnswerKept
<1>7. CASE up /\ CloseConn
  <2>1. /\ cur \in Clients /\ UNCHANGED <<clientVars, toServer, toClient, printed, up>>
        /\ spc = "close" /\ spc' = "accept" /\ cur' = NoClient /\ srvClosed' = srvClosed \cup {cur}
    BY <1>0, <1>7 DEF CloseConn
  <2>2. \A c \in Clients : StageOf(c)' = StageOf(c)
    BY <1>0, <2>1, StageNames DEF StageOf
  <2>3. Conversing'
    BY <2>1, <2>2, OthersAsBefore DEF Conversing
  <2> QED
    BY <2>1, <2>3 DEF AnswerKept
<1>8. CASE Idle
  BY <1>8 DEF Idle, vars, netVars, Conversing, AnswerKept, Stage, StageOf, CurrentStage, Unread,
          Asked, Answered, Finished, Leftover, Y, Z, clientVars
<1> QED
  BY <1>1, <1>2, <1>3, <1>4, <1>5, <1>6, <1>7, <1>8 DEF Next, Server

LEMMA InvStep == Inv /\ [Next]_vars => Inv'
<1>1. ASSUME Inv, Next PROVE Inv'
  BY <1>1, TypeStep, QueueStep, ConverseStep DEF Inv
<1>2. ASSUME Inv, UNCHANGED vars PROVE Inv'
  BY <1>2 DEF Inv, vars, netVars, serverVars, TypeOK, NetTypeOK, Queued, Conversing, AnswerKept,
          Stage, StageOf, CurrentStage, Unread, Asked, Answered, Finished, Leftover, Y, Z
<1> QED
  BY <1>1, <1>2

LEMMA InvAlways == Spec => []Inv
  BY InitInv, InvStep, PTL DEF Spec

-----------------------------------------------------------------------------

\* The variables of server, clients and connections keep their types.
THEOREM TypeCorrect == Spec => []TypeOK
<1>1. Inv => TypeOK
  BY DEF Inv
<1> QED
  BY <1>1, InvAlways, PTL

\* recv() never meets two messages at once, in either direction.
THEOREM OneInFlight == Spec => []AtMostOneInFlight
<1>1. Inv => AtMostOneInFlight
  BY StageLeaves DEF Inv, TypeOK, Conversing, Leftover, AtMostOneInFlight
<1> QED
  BY <1>1, InvAlways, PTL

\* The clients are served strictly one after the other.
THEOREM OneByOne == Spec => []OneAtATime
<1>1. ASSUME Inv, up, NEW c \in Clients
      PROVE  /\ InBacklog(c) => printed[c] = << >>
             /\ c \in srvClosed => Len(printed[c]) = 2
             /\ (c # cur /\ printed[c] # << >>) => c \in srvClosed
  <2>1. \A n, p : Len(<<n, p>>) = 2
    OBVIOUS
  <2>2. InBacklog(c) => c # cur /\ c \notin srvClosed
    BY <1>1 DEF Inv, Queued, InBacklog
  <2>3. Stage(c, StageOf(c))
    BY <1>1 DEF Inv, Conversing
  <2>4. (c # cur /\ c \notin srvClosed) => printed[c] = << >>
    BY <2>3 DEF StageOf, Stage, Unread
  <2>5. c \in srvClosed => Len(printed[c]) = 2
    BY <2>1, <2>3 DEF StageOf, Stage, Finished
  <2> QED
    BY <2>2, <2>4, <2>5
<1>2. Inv => OneAtATime
  BY <1>1 DEF OneAtATime
<1> QED
  BY <1>2, InvAlways, PTL

-----------------------------------------------------------------------------
(* The refinement of HandshakeService. *)

LEMMA InitRefines == Init => Service!Init
<1>1. Init => \A c \in Clients : Outcome(c) = "running"
  BY OutcomeIs DEF Init, NetInit
<1> QED
  BY <1>1 DEF Init, NetInit, Service!Init

LEMMA StepRefines == Inv /\ [Next]_vars => Service!Next \/ UNCHANGED Service!vars
<1> SUFFICES ASSUME Inv, [Next]_vars PROVE Service!Next \/ UNCHANGED Service!vars
  OBVIOUS
<1> USE DEF Inv, TypeOK
<1>0. spc # "accept" => cur \in Clients /\ cur \notin srvClosed
  BY NetAssumption DEF Queued
<1>1. ASSUME NEW c \in Clients, Client(c) \/ Kill(c)
      PROVE  Service!Next \/ UNCHANGED Service!vars
  <2>1. up => Stage(c, StageOf(c)) /\ (c \in srvClosed => StageOf(c) = "finished")
    BY DEF Conversing, StageOf
  <2>2. ~up => Leftover(c)
    BY DEF Conversing
  <2> QED
    BY <1>1, <2>1, <2>2, ClientRefines DEF Client
<1>2. CASE up /\ (Accept \/ SendY \/ CloseConn)
  BY <1>2, Stutters DEF Accept, SendY, CloseConn, clientVars
<1>3. CASE up /\ HungUp
  <2>1. cur \in Clients /\ (Unread(cur) \/ Answered(cur))
    BY <1>0, <1>3, StageNames DEF HungUp, Conversing, StageOf, Stage
  <2> QED
    BY <1>3, <2>1, ExitsForFailed DEF HungUp, clientVars
<1>4. CASE up /\ RecvX
  <2>1. cur \in Clients /\ Unread(cur)
    BY <1>0, <1>4, StageNames DEF RecvX, Conversing, StageOf, Stage
  <2> QED
    BY <1>4, <2>1, PrintsX DEF RecvX, clientVars
<1>5. CASE up /\ RecvZ
  <2>1. cur \in Clients /\ Answered(cur) /\ sy = Y(cur)
    BY <1>0, <1>5, StageNames DEF RecvZ, Conversing, StageOf, Stage, AnswerKept
  <2>2. Received(cur) = Wrap(sy + 1)
    BY <1>5, <2>1, ZReceived DEF RecvZ, Z
  <2> QED
    BY <1>5, <2>1, <2>2, PrintsZ DEF RecvZ, clientVars
<1>6. CASE Idle \/ UNCHANGED vars
  BY <1>6, Stutters DEF Idle, vars, netVars
<1> QED
  BY <1>1, <1>2, <1>3, <1>4, <1>5, <1>6 DEF Next, Server

\* The sequential server keeps the promise of HandshakeService: X and then X + 2
\* printed for each client, in int arithmetic, whichever clients are killed.
THEOREM Refinement == Spec => ServiceSpec
<1>1. Inv /\ [Next]_vars => [Service!Next]_Service!vars
  BY StepRefines
<1> QED
  BY <1>1, InitRefines, InvAlways, PTL DEF Spec, ServiceSpec, Service!Spec

\* What the clients of the sequential server can rely on: as long as nobody is killed it
\* stays up and no client fails, and whoever is killed, the others have their own
\* numbers printed, in order, and end well only with X printed.
THEOREM ServesItsClients == Spec => [](ClientsServed /\ DownForAKill)
<1>1. Init => ClientsServed /\ DownForAKill
  BY StartsServed DEF Init
<1>2. Inv /\ ClientsServed /\ DownForAKill /\ [Next]_vars => (ClientsServed /\ DownForAKill)'
  BY StepRefines, ServiceServes, StutterServes DEF Inv, TypeOK
<1> QED
  BY <1>1, <1>2, InvAlways, PTL DEF Spec
=============================================================================
